------------------------------- MODULE NodeIr -------------------------------
(***************************************************************************)
(* One node on its way through a typed IR document: the compiler writes it *)
(* as a JSON object (_node_to_dict and the to_dict methods), someone may   *)
(* edit the object and sign the document anew, the loader checks it        *)
(* (_validate_node) and a consumer reads it back (load_typed_node).  The   *)
(* writer, the loader's lists of fields and the reader are three texts     *)
(* that nothing keeps in step.                                             *)
(*                                                                         *)
(* A JSON object is a function from the names of its fields, a list a      *)
(* sequence.  An optional attribute of a Python object is a sequence of at *)
(* most one member.  Values keep their JSON types: that a field holds a    *)
(* string, a list or an object is not modelled.                            *)
(*                                                                         *)
(* A type is a tree, given by the set of its places: <<>> is the root, and *)
(* a step further down is <<"elem_type_info">> or <<"properties", name>>.  *)
(* A TypeInfo has [type, required, desc] at each place, its JSON an object *)
(* at each place.  What recurses in the code is said of every place.       *)
(***************************************************************************)
EXTENDS Integers, Sequences, SequencesExt, FiniteSets

CONSTANTS
  Declarations,   \* declarations of nodes, as adapt_node finds them
  Predecessors,   \* the main predecessors of the node
  MaxEdits        \* bound: edits of the object

Null == "null"
DataTypes == {"any", "string", "number", "boolean", "list", "object", "binary"}
GlobalVarTypes == {"env", "execution", "workflow", "now", "parameters", "items"}
ErrorPolicies == {"stopWorkflow", "continueRegularOutput", "continueErrorOutput"}
CodeEffects == {"pure", "io", "unknown"}
OutputShapeKinds == {"void", "object", "list", "any"}

(* The types whose class is CodeNode: the Code node, the Code node of an   *)
(* AI chain and the Code Tool.  The kinds of the others do alike.          *)
CodeTypes == {"n8n-nodes-base.code", "@n8n/n8n-nodes-langchain.code",
              "@n8n/n8n-nodes-langchain.toolCode"}
IsCode(n8n_type) == n8n_type \in CodeTypes
kind(n8n_type) == IF IsCode(n8n_type) THEN "code" ELSE "generic"

IsType(t) ==
  /\ \A p \in DOMAIN t :
       /\ p \in Seq(Range(p))
       /\ \A i \in 1 .. Len(p) : p[i][1] \in {"elem_type_info", "properties"}
       /\ \A i \in 0 .. Len(p) : SubSeq(p, 1, i) \in DOMAIN t
       /\ t[p] = [type |-> t[p].type, required |-> t[p].required, desc |-> t[p].desc]
       /\ t[p].type \in DataTypes
  /\ t = [p \in DOMAIN t |-> t[p]]

(* The parser makes no source of a literal, and validation lets no         *)
(* reference of a node to itself pass.                                     *)
IsSource(s) ==
  /\ s = [path |-> s.path, node |-> s.node, from_path |-> s.from_path,
          variable_type |-> s.variable_type]
  /\ s.variable_type \in GlobalVarTypes \cup {Null}

IsContract(c) ==
  /\ c = [deps |-> c.deps, output |-> c.output, effect |-> c.effect, runtime |-> c.runtime,
          language |-> c.language, source |-> c.source,
          errors |-> c.errors, warnings |-> c.warnings]
  /\ c.effect \in CodeEffects
  /\ c.output = [kind |-> c.output.kind, props |-> c.output.props, elem |-> c.output.elem]
  /\ c.output.kind \in OutputShapeKinds

(* A Code node has a contract in any case.                                 *)
IsDeclaration(n) ==
  /\ DOMAIN n = {"n8n_type", "parameters", "credentials", "input_types", "output_types",
                 "input_sources", "error_policy", "js_contract", "js_ast"}
  /\ \A types \in {n.input_types, n.output_types} :
       /\ types = [p \in DOMAIN types |-> types[p]]
       /\ \A p \in DOMAIN types : IsType(types[p])
  /\ n.input_sources \in Seq(Range(n.input_sources))
  /\ \A s \in Range(n.input_sources) : IsSource(s)
  /\ DOMAIN n.error_policy = {"on_error", "retry_on_fail", "max_tries", "wait_between_tries"}
  /\ IF IsCode(n.n8n_type)
     THEN n.js_contract = <<n.js_contract[1]>> /\ IsContract(n.js_contract[1])
     ELSE n.js_contract = <<>> /\ n.js_ast = <<>>

ASSUME NodeIrAssumption ==
  /\ MaxEdits \in Nat
  /\ \A n \in Declarations : IsDeclaration(n)

VARIABLES
  node,         \* the declaration that is written
  resolved,     \* how many of its sources are resolved
  dependencies, \* what they were resolved to: [direct, indirect, variables]
  dict,         \* the JSON object of the node
  edits,        \* what was edited in it
  loaded,       \* the declaration read back
  node_stage    \* "declared", "written", "accepted", "refused", "loaded", "raised"

dependency_vars == <<resolved, dependencies>>
node_vars == <<node, dependency_vars, dict, edits, loaded, node_stage>>

Get(d, name, default) == IF name \in DOMAIN d THEN d[name] ELSE default
With(d, name, value) ==
  [f \in DOMAIN d \cup {name} |-> IF f = name THEN value ELSE d[f]]
Optional(cond, d, name, value) == IF cond THEN With(d, name, value) ELSE d
Without(d, name) == [f \in DOMAIN d \ {name} |-> d[f]]

(* N8NErrorPolicy.from_node                                                *)
from_node(raw) ==
  [raw EXCEPT !.on_error = IF @ \in ErrorPolicies THEN @ ELSE "stopWorkflow"]

NodeInit ==
  /\ \E n \in Declarations : node = [n EXCEPT !.error_policy = from_node(@)]
  /\ resolved = 0
  /\ dependencies = [direct |-> <<>>, indirect |-> <<>>, variables |-> <<>>]
  /\ dict = <<>>
  /\ edits = {}
  /\ loaded = <<>>
  /\ node_stage = "declared"

-----------------------------------------------------------------------------
(* resolve_node_dependencies                                               *)

Mapping(s) == [from_path |-> s.from_path, to_path |-> s.path]
VariableBinding(s) ==
  [variable_type |-> s.variable_type, from_path |-> s.from_path, to_path |-> s.path]

(* Of the references to one node the last stays.                           *)
bucketLast(b, s) == With(b, s.node, <<Mapping(s)>>)

(* bucket.setdefault(...).append(...)                                      *)
bucket(b, s) == With(b, s.node, Append(Get(b, s.node, <<>>), Mapping(s)))

(* One turn of `for field_src in node.input_sources`.                      *)
ResolveOne ==
  /\ node_stage = "declared"
  /\ resolved < Len(node.input_sources)
  /\ LET s == node.input_sources[resolved + 1]
     IN  dependencies' =
           IF s.variable_type # Null
           THEN [dependencies EXCEPT !.variables = Append(@, VariableBinding(s))]
           ELSE IF s.node \in Predecessors
           THEN [dependencies EXCEPT !.direct = bucket(@, s)]
           ELSE [dependencies EXCEPT !.indirect = bucket(@, s)]
  /\ resolved' = resolved + 1
  /\ UNCHANGED <<node, dict, edits, loaded, node_stage>>

-----------------------------------------------------------------------------
(* The writer                                                              *)

(* The fields of the object at a place that hold the objects below it.     *)
below(t, p) == {Last(q)[1] : q \in {q \in DOMAIN t \ {<<>>} : Front(q) = p}}

type_to_dict(t) ==
  [p \in DOMAIN t |->
    LET own == [type |-> t[p].type, required |-> t[p].required]
        described == Optional(t[p].desc # "", own, "desc", t[p].desc)
        listed == Optional("elem_type_info" \in below(t, p), described, "elem_type_info", "below")
    IN  Optional("properties" \in below(t, p), listed, "properties", "below")]

source_to_dict(s) ==
  LET ref == [from_node_key |-> s.node, from_path |-> s.from_path]
  IN  [path |-> s.path,
       source |-> [ref |-> Optional(s.variable_type # Null, ref, "variable_type", s.variable_type)]]

policy_to_dict(p) ==
  LET own == [on_error |-> p.on_error]
      retried == Optional(p.max_tries # Null, With(own, "retry_on_fail", TRUE),
                          "max_tries", p.max_tries)
  IN  IF p.retry_on_fail
      THEN Optional(p.wait_between_tries # Null, retried,
                    "wait_between_tries", p.wait_between_tries)
      ELSE own

contract_to_dict(c) ==
  [contract |-> [deps |-> c.deps, output |-> c.output, effect |-> c.effect,
                 runtime |-> c.runtime],
   payload |-> [language |-> c.language, source |-> c.source],
   errors |-> c.errors, warnings |-> c.warnings]

dependencies_to_dict ==
  [direct |-> dependencies.direct, indirect |-> dependencies.indirect,
   parent |-> <<>>, static_values |-> <<>>, variables |-> dependencies.variables]

config_to_dict(n) ==
  LET own == [kind |-> kind(n.n8n_type), n8n_type |-> n.n8n_type, type_version |-> 1,
              position |-> <<0, 0>>, parameters |-> n.parameters,
              error_policy |-> policy_to_dict(n.error_policy), credentials |-> n.credentials]
  IN  IF IsCode(n.n8n_type)
      THEN With(With(own, "js", contract_to_dict(n.js_contract[1])), "js_ast", n.js_ast)
      ELSE own

node_to_dict(n) ==
  [key |-> "n", type |-> kind(n.n8n_type), name |-> "n", parent_key |-> Null,
   input_types |-> [p \in DOMAIN n.input_types |-> type_to_dict(n.input_types[p])],
   output_types |-> [p \in DOMAIN n.output_types |-> type_to_dict(n.output_types[p])],
   input_sources |-> [i \in DOMAIN n.input_sources |-> source_to_dict(n.input_sources[i])],
   output_sources |-> <<>>,
   error_policy |-> policy_to_dict(n.error_policy),
   dependencies |-> dependencies_to_dict,
   config |-> config_to_dict(n)]

WriteNode ==
  /\ node_stage = "declared"
  /\ resolved = Len(node.input_sources)
  /\ dict' = node_to_dict(node)
  /\ node_stage' = "written"
  /\ UNCHANGED <<node, dependency_vars, edits, loaded>>

-----------------------------------------------------------------------------
(* Edits: a field is dropped, a value replaced by one outside its list, a  *)
(* null put where nothing was.                                             *)

Within(d, place) ==
  CASE place = "node" -> d
    [] place = "config" -> Get(d, "config", <<>>)
    [] place = "js" -> Get(Get(d, "config", <<>>), "js", <<>>)
    [] place = "contract" -> Get(Get(Get(d, "config", <<>>), "js", <<>>), "contract", <<>>)

Replaced(d, place, o) ==
  CASE place = "node" -> o
    [] place = "config" -> [d EXCEPT !.config = o]
    [] place = "js" -> [d EXCEPT !.config.js = o]
    [] place = "contract" -> [d EXCEPT !.config.js.contract = o]

Drop ==
  \E place \in {"node", "config", "js", "contract"} : \E f \in DOMAIN Within(dict, place) :
    /\ dict' = Replaced(dict, place, Without(Within(dict, place), f))
    /\ edits' = edits \cup {<<place, f>>}

SetEffect ==
  /\ "effect" \in DOMAIN Within(dict, "contract")
  /\ dict' = [dict EXCEPT !.config.js.contract.effect = "other"]
  /\ edits' = edits \cup {<<"value", "effect">>}

SetKind ==
  /\ "output" \in DOMAIN Within(dict, "contract")
  /\ dict' = [dict EXCEPT !.config.js.contract.output.kind = "other"]
  /\ edits' = edits \cup {<<"value", "output.kind">>}

SetOnError ==
  /\ "error_policy" \in DOMAIN dict
  /\ dict' = [dict EXCEPT !.error_policy.on_error = "other"]
  /\ edits' = edits \cup {<<"value", "on_error">>}

AddNull ==
  /\ "input_sources" \in DOMAIN dict
  /\ \E i \in DOMAIN dict.input_sources :
       /\ "variable_type" \notin DOMAIN dict.input_sources[i].source.ref
       /\ dict' = [dict EXCEPT !.input_sources[i].source.ref = With(@, "variable_type", Null)]
  /\ edits' = edits \cup {<<"value", "variable_type">>}

Edit ==
  /\ node_stage = "written"
  /\ Cardinality(edits) < MaxEdits
  /\ Drop \/ SetEffect \/ SetKind \/ SetOnError \/ AddNull
  /\ UNCHANGED <<node, dependency_vars, loaded, node_stage>>

-----------------------------------------------------------------------------
(* The loader's checks                                                     *)

Fields(d, required, allowed) ==
  required \subseteq DOMAIN d /\ DOMAIN d \subseteq required \cup allowed

valid_type(d) ==
  \A p \in DOMAIN d :
    /\ Fields(d[p], {"type"}, {"required", "desc", "elem_type_info", "properties"})
    /\ d[p].type \in DataTypes

valid_field_info(d) ==
  /\ Fields(d, {"path", "source"}, {})
  /\ Fields(d.source, {}, {"ref", "literal"})
  /\ "ref" \in DOMAIN d.source =>
       LET ref == d.source.ref
       IN  /\ Fields(ref, {"from_node_key"}, {"from_path", "variable_type"})
           /\ "variable_type" \in DOMAIN ref => ref.variable_type \in GlobalVarTypes

valid_error_policy(d) ==
  /\ Fields(d, {}, {"on_error", "retry_on_fail", "max_tries", "wait_between_tries"})
  /\ Get(d, "on_error", "stopWorkflow") \in ErrorPolicies

valid_dependencies(d) ==
  /\ Fields(d, {}, {"direct", "indirect", "parent", "static_values", "variables"})
  /\ \A b \in {"direct", "indirect", "parent"} \cap DOMAIN d : \A k \in DOMAIN d[b] :
       \A i \in DOMAIN d[b][k] : Fields(d[b][k][i], {"from_path", "to_path"}, {})
  /\ "variables" \in DOMAIN d => \A i \in DOMAIN d.variables :
       /\ Fields(d.variables[i], {"variable_type", "from_path", "to_path"}, {})
       /\ d.variables[i].variable_type \in GlobalVarTypes

valid_config(d) ==
  /\ Fields(d, {"kind", "n8n_type"},
            {"type_version", "position", "parameters", "error_policy", "credentials",
             "js", "js_ast"})
  /\ "js" \in DOMAIN d => Fields(d.js, {"contract", "payload", "errors", "warnings"}, {})

valid_node(d) ==
  /\ Fields(d, {"key", "type", "name", "config"},
            {"parent_key", "input_types", "output_types", "input_sources",
             "output_sources", "error_policy", "dependencies"})
  /\ \A f \in {"input_types", "output_types"} \cap DOMAIN d :
       \A p \in DOMAIN d[f] : valid_type(d[f][p])
  /\ \A f \in {"input_sources", "output_sources"} \cap DOMAIN d :
       \A i \in DOMAIN d[f] : valid_field_info(d[f][i])
  /\ valid_error_policy(Get(d, "error_policy", <<>>))
  /\ valid_dependencies(Get(d, "dependencies", <<>>))
  /\ valid_config(d.config)

CheckNode ==
  /\ node_stage = "written"
  /\ node_stage' = IF valid_node(dict) THEN "accepted" ELSE "refused"
  /\ UNCHANGED <<node, dependency_vars, dict, edits, loaded>>

-----------------------------------------------------------------------------
(* The reader                                                              *)

(* DataType.from_str: the other names of a type, and `any` for the rest.   *)
from_str(s) ==
  CASE s \in {"array", "list"} -> "list"
    [] s \in {"int", "integer", "long", "float", "number", "double"} -> "number"
    [] s \in {"bool", "boolean"} -> "boolean"
    [] s \in {"file", "files", "binary"} -> "binary"
    [] s \in {"object", "map", "dict"} -> "object"
    [] s = "string" -> "string"
    [] OTHER -> "any"

(* What is read is what the fields lead to.                                *)
type_from_dict(d) ==
  LET reached(p) == \A i \in 1 .. Len(p) : p[i][1] \in DOMAIN d[SubSeq(p, 1, i - 1)]
  IN  [p \in {q \in DOMAIN d : reached(q)} |->
        [type |-> from_str(Get(d[p], "type", "any")),
         required |-> Get(d[p], "required", FALSE), desc |-> Get(d[p], "desc", "")]]

source_from_dict(d) ==
  LET ref == d.source.ref
  IN  [path |-> d.path, node |-> Get(ref, "from_node_key", ""),
       from_path |-> Get(ref, "from_path", <<>>),
       variable_type |-> Get(ref, "variable_type", Null)]

(* The contract without its dependencies.                                  *)
contract_from_dictWithoutDeps(js) ==
  [deps |-> <<>>,
   output |-> Get(js.contract, "output", [kind |-> "any", props |-> <<>>, elem |-> Null]),
   effect |-> Get(js.contract, "effect", "unknown"),
   runtime |-> Get(js.contract, "runtime", "external"),
   language |-> Get(js.payload, "language", "js"), source |-> Get(js.payload, "source", ""),
   errors |-> js.errors, warnings |-> js.warnings]

contract_from_dict(js) ==
  [deps |-> Get(js.contract, "deps", <<>>),
   output |-> Get(js.contract, "output", [kind |-> "any", props |-> <<>>, elem |-> Null]),
   effect |-> Get(js.contract, "effect", "unknown"),
   runtime |-> Get(js.contract, "runtime", "external"),
   language |-> Get(js.payload, "language", "js"), source |-> Get(js.payload, "source", ""),
   errors |-> js.errors, warnings |-> js.warnings]

(* An effect or kind the enumerations do not have raises ValueError.       *)
contract_raises(js) ==
  \/ Get(js.contract, "effect", "unknown") \notin CodeEffects
  \/ /\ "output" \in DOMAIN js.contract
     /\ js.contract.output.kind \notin OutputShapeKinds

load_typed_node(d) ==
  LET c == d.config
      types(f) == [p \in DOMAIN Get(d, f, <<>>) |-> type_from_dict(d[f][p])]
      js == IsCode(c.n8n_type) /\ "js" \in DOMAIN c
  IN  [n8n_type |-> c.n8n_type, parameters |-> Get(c, "parameters", <<>>),
       credentials |-> <<>>, input_types |-> types("input_types"),
       output_types |-> types("output_types"),
       input_sources |-> [i \in DOMAIN Get(d, "input_sources", <<>>) |->
                            source_from_dict(d.input_sources[i])],
       error_policy |-> from_node([on_error |-> "stopWorkflow", retry_on_fail |-> FALSE,
                                   max_tries |-> Null, wait_between_tries |-> Null]),
       js_contract |-> IF js THEN <<contract_from_dict(c.js)>> ELSE <<>>,
       js_ast |-> IF IsCode(c.n8n_type) THEN Get(c, "js_ast", <<>>) ELSE <<>>]

Load ==
  /\ node_stage = "accepted"
  /\ IF IsCode(dict.config.n8n_type) /\ "js" \in DOMAIN dict.config
          /\ contract_raises(dict.config.js)
     THEN node_stage' = "raised" /\ UNCHANGED loaded
     ELSE node_stage' = "loaded" /\ loaded' = load_typed_node(dict)
  /\ UNCHANGED <<node, dependency_vars, dict, edits>>

NodeFinished == node_stage \in {"refused", "loaded", "raised"} /\ UNCHANGED node_vars

NodeNext == ResolveOne \/ WriteNode \/ Edit \/ CheckNode \/ Load \/ NodeFinished
NodeSpec == NodeInit /\ [][NodeNext]_node_vars

-----------------------------------------------------------------------------
(* What is read back is a declaration of the same kind, and a refused      *)
(* object is not read.                                                     *)
NodeTypeOK ==
  /\ node_stage \in {"declared", "written", "accepted", "refused", "loaded", "raised"}
  /\ Cardinality(edits) <= MaxEdits
  /\ resolved \in 0 .. Len(node.input_sources)
  /\ node_stage = "declared" => dict = <<>> /\ edits = {}
  /\ node_stage = "loaded" <=> loaded # <<>>

(* The writer, the loader and the reader agree.  What the compiler writes  *)
(* passes its own loader: each field a to_dict method writes is in the     *)
(* loader's list, each value in its enumeration, whatever the workflow     *)
(* said.  What is written and read back is the declaration apart from two  *)
(* fields, the error policy and the credentials, which are written and     *)
(* which load_typed_node does not restore: type, parameters, input and     *)
(* output types, references, the contract of the code and its tree are as  *)
(* they were.  And documents of older versions lack fields: of what the    *)
(* loader accepts, no missing field makes the reader raise.                *)
ReadKeepsMeaning ==
  /\ node_stage = "refused" => edits # {}
  /\ node_stage = "loaded" /\ edits = {} =>
       \A f \in DOMAIN node \ {"error_policy", "credentials"} : loaded[f] = node[f]
  /\ node_stage = "raised" =>
       edits \cap {<<"value", "effect">>, <<"value", "output.kind">>} # {}

(* Where a source belongs, and what is listed there for it.                *)
bucket_of(s) ==
  IF s.variable_type # Null THEN "variables"
  ELSE IF s.node \in Predecessors THEN "direct" ELSE "indirect"
listed_as(s) == IF s.variable_type = Null THEN Mapping(s) ELSE VariableBinding(s)

(* What is made of the sources at the places of S, one by one and in their *)
(* order.                                                                  *)
ListsInOrder(list, sources, S) ==
  \E at \in [DOMAIN list -> S] :
    /\ Range(at) = S
    /\ \A i, j \in DOMAIN list : i < j => at[i] < at[j]
    /\ \A i \in DOMAIN list : list[i] = listed_as(sources[at[i]])

(* Each reference of the node is in the dependencies once, under the       *)
(* bucket and the node it belongs to, in the order in which the node has   *)
(* them, and nothing else is.                                              *)
DependenciesAreSources ==
  node_stage = "written" /\ edits = {} =>
    LET d == dict.dependencies
        sources == node.input_sources
        Of(b) == {i \in DOMAIN sources : bucket_of(sources[i]) = b}
    IN  /\ ListsInOrder(d.variables, sources, Of("variables"))
        /\ \A b \in {"direct", "indirect"} :
             /\ DOMAIN d[b] = {sources[i].node : i \in Of(b)}
             /\ \A k \in DOMAIN d[b] :
                  ListsInOrder(d[b][k], sources, {i \in Of(b) : sources[i].node = k})

=============================================================================
