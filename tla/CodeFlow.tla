------------------------------ MODULE CodeFlow ------------------------------
(***************************************************************************)
(* Fields between Code nodes: the scripts are analysed in one batch        *)
(* (jscode/js_static.py), their contracts become the types of the nodes'   *)
(* outputs (ast_nodes/node_decls.py) and, by way of the edges, references  *)
(* to the nodes they read (parser/workflow.py), which the validator checks *)
(* one by one (checker/validator.py).                                      *)
(*                                                                         *)
(* Up feeds Down.  Down may have a second input, Other, whose output is    *)
(* unknown.  Of Up only what it returns matters here: its script reads     *)
(* nothing.                                                                *)
(***************************************************************************)
EXTENDS JsStatic

CONSTANTS
  Up, Down, Other,   \* the nodes
  NoField,           \* "no such field" or "no single upstream"
  main_port,         \* the name of the output port, which a field may have too
  Programs           \* pairs of scripts, [Up |-> ..., Down |-> ...] as a function

IsSequence(s) == s \in Seq(ToSet(s))

(* The nodes differ, and no property of a literal has the type that says   *)
(* that there is none.                                                     *)
ASSUME CodeFlowAssumption ==
  /\ Up \notin {Down, Other} /\ Down # Other
  /\ NoField \notin {Up, Down, Other, "object", "list", "any"}
  /\ \A p \in Programs :
       /\ DOMAIN p = {Up, Down}
       /\ p[Up].accesses = <<>>
       /\ IsSequence(p[Down].accesses)
       /\ \A c \in ToSet(p[Down].accesses) : IsSequence(c.steps)
       /\ IsSequence(p[Up].returns)
       /\ \A r \in ToSet(p[Up].returns) :
            r.value.kind = "object" =>
              /\ IsSequence(r.value.members)
              /\ \A m \in ToSet(r.value.members) : m.type # NoField

VARIABLES
  script,          \* the scripts of Up and Down
  inputs,          \* the nodes with a main edge into Down
  walked,          \* the accesses of Down that were walked through
  inward,          \* how far the walk is into the next one, from its tip
  deps,            \* the dependencies of Down found so far
  contracts,       \* what the analysis found, by node
  input_sources,   \* Down's: the node and the path each reads
  issues,          \* pairs of a code and the source it is about
  todo,            \* what the loop of the phase has still to do
  flow_phase

walk_vars == <<walked, inward, deps>>
flow_vars == <<script, inputs, walk_vars, contracts, input_sources, issues, todo, flow_phase>>

FlowInit ==
  /\ script \in Programs
  /\ inputs \in {{Up}, {Up, Other}}
  /\ walked = 0 /\ inward = 0 /\ deps = <<>>
  /\ contracts = <<>>
  /\ input_sources = <<>>
  /\ issues = {}
  /\ todo = <<>>
  /\ flow_phase = "precompile"

-----------------------------------------------------------------------------

(* extract_deps visits one node of the tree.  It is walked from the top,   *)
(* so the outer levels of a chain come first.                              *)
Visit ==
  /\ flow_phase = "precompile"
  /\ walked < Len(script[Down].accesses)
  /\ LET c == script[Down].accesses[walked + 1]
     IN  /\ deps' = Add(deps, level_dep(c, Tip(c) - inward))
         /\ IF inward < Tip(c)
              THEN inward' = inward + 1 /\ UNCHANGED walked
              ELSE inward' = 0 /\ walked' = walked + 1
  /\ UNCHANGED <<script, inputs, contracts, input_sources, issues, todo, flow_phase>>

(* compile_js_batch, whose contracts adapt_node gives to the nodes.        *)
Precompile ==
  /\ flow_phase = "precompile"
  /\ walked = Len(script[Down].accesses)
  /\ contracts' = [n \in {Up, Down} |->
                     contract_from_ast(script[n], IF n = Down THEN deps ELSE <<>>)]
  /\ todo' = contracts'[Down].deps
  /\ flow_phase' = "bind"
  /\ UNCHANGED <<script, inputs, walk_vars, input_sources, issues>>

only_input == IF Cardinality(inputs) = 1 THEN CHOOSE n \in inputs : TRUE ELSE NoField

(* One dependency of Down: of a node by its name, or of the only input.    *)
bind(d) ==
  IF d.base = "$node"
    THEN IF d.path = <<>> THEN <<>> ELSE <<[from |-> Head(d.path), path |-> Tail(d.path)]>>
  ELSE IF only_input = NoField THEN <<>>
  ELSE <<[from |-> only_input, path |-> d.path]>>

BindOne ==
  /\ flow_phase = "bind"
  /\ todo # <<>>
  /\ input_sources' = input_sources \o bind(Head(todo))
  /\ todo' = Tail(todo)
  /\ UNCHANGED <<script, inputs, walk_vars, contracts, issues, flow_phase>>

BindDone ==
  /\ flow_phase = "bind"
  /\ todo = <<>>
  /\ todo' = input_sources
  /\ flow_phase' = "validate"
  /\ UNCHANGED <<script, inputs, walk_vars, contracts, input_sources, issues>>

-----------------------------------------------------------------------------

(* _shape_to_typeinfo: the type of a script's output.                      *)
output_type(n) ==
  LET shape == contracts[n].output
  IN  CASE shape.kind = "object" -> [type |-> "object", props |-> shape.props]
        [] shape.kind = "list" -> [type |-> "list", props |-> NoProps]
        [] OTHER -> [type |-> "any", props |-> NoProps]

TypeOf(n) == IF n = Other THEN [type |-> "any", props |-> NoProps] ELSE output_type(n)

(* The name of the port comes before a field of that name.  A property's   *)
(* own type has no properties: nothing is found below it.                  *)
output_type_at(t, path) ==
  LET rest == IF path[1] = main_port THEN Tail(path) ELSE path
  IN  IF rest = <<>> THEN t.type
      ELSE IF t.type = "object" /\ Len(rest) = 1 /\ rest[1] \in DOMAIN t.props
        THEN t.props[rest[1]] ELSE NoField

shape_unknown(t) ==
  \/ t.type \in {"any", "list"}
  \/ t.type = "object" /\ DOMAIN t.props = {}

(* validate_references, in the order of its checks.  Down's inputs are all *)
(* upstream of it, so that can_reference never refuses here, and the types *)
(* of a Code node's inputs are unknown, so that none clashes.              *)
issue(s) ==
  IF s.from \notin {Up, Down, Other} \/ (s.from = Other /\ Other \notin inputs)
    THEN "referenced_node_missing"
  ELSE IF s.from = Down
    THEN "self_reference_in_field_mapping"
  ELSE IF s.path = <<>>
    THEN "none"
  ELSE IF output_type_at(TypeOf(s.from), s.path) = NoField /\ ~shape_unknown(TypeOf(s.from))
    THEN "source_field_missing"
  ELSE "none"

CheckOne ==
  /\ flow_phase = "validate"
  /\ todo # <<>>
  /\ LET ref == Head(todo)
     IN  issues' = IF issue(ref) = "none" THEN issues ELSE issues \cup {<<issue(ref), ref>>}
  /\ todo' = Tail(todo)
  /\ UNCHANGED <<script, inputs, walk_vars, contracts, input_sources, flow_phase>>

(* validate_node_semantics: the errors of the contracts are issues, and a  *)
(* node that reads itself is reported a second time.                       *)
CheckContracts ==
  /\ flow_phase = "validate"
  /\ todo = <<>>
  /\ issues' = issues \cup
       {<<"code_syntax_error", [from |-> n, path |-> <<>>]>> :
          n \in {m \in {Up, Down} : contracts[m].errors # {}}}
  /\ flow_phase' = "done"
  /\ UNCHANGED <<script, inputs, walk_vars, contracts, input_sources, todo>>

FlowFinished ==
  /\ flow_phase = "done"
  /\ UNCHANGED flow_vars

FlowNext ==
  Visit \/ Precompile \/ BindOne \/ BindDone \/ CheckOne \/ CheckContracts \/ FlowFinished

FlowSpec == FlowInit /\ [][FlowNext]_flow_vars

-----------------------------------------------------------------------------
(* Properties.  A read is the last value of a chain of fields; a call in   *)
(* between reads something else, and items.map(...) reads nothing.         *)

Accesses == ToSet(script[Down].accesses)
Names == {c.arg : c \in Accesses} \cup
         UNION {{c.steps[i].name : i \in DOMAIN c.steps} : c \in Accesses}
Untraceable(c) == \E i \in DOMAIN c.steps : c.steps[i].kind \in {"call", "dynamic"}
ReadsInput(c) == c.root \in {"items", "item", "$json"} /\ ~Untraceable(c) /\ c.steps # <<>>

(* A script sees the fields of an item in items[0].json, in item.json and  *)
(* in $json.  What it reads of items or item elsewhere, such as            *)
(* items.length or item.binary.x, is no field.                             *)
IsWrapper(step) == step.kind = "key" /\ step.name = json

HasWrapper(c) ==
  \/ c.root = "$json"
  \/ c.root = "item" /\ IsWrapper(c.steps[1])
  \/ /\ c.root = "items" /\ Len(c.steps) > 1
     /\ c.steps[1].kind = "index" /\ IsWrapper(c.steps[2])

Stray(c) == ReadsInput(c) /\ Fields(c.steps) # <<>> /\ ~HasWrapper(c)
ReadsField(c) == ReadsInput(c) /\ ~Stray(c)

(* The path of the field, empty for the item as a whole.  A field of the   *)
(* item may be named json as well.                                         *)
FieldRead(c) ==
  IF c.root = "$json" \/ Fields(c.steps) = <<>> THEN Fields(c.steps) ELSE Tail(Fields(c.steps))

FlowTypeOK ==
  /\ flow_phase \in {"precompile", "bind", "validate", "done"}
  /\ \A i \in DOMAIN input_sources :
       input_sources[i].from # NoField /\ input_sources[i].path \in Seq(Names)
  /\ \A p \in issues : p[1] \in {"referenced_node_missing", "source_field_missing",
                                 "self_reference_in_field_mapping", "code_syntax_error"}

(* Of the references Down gets to its only input none is missing for a    *)
(* field its chains read, whole chains and not their prefixes; if no chain *)
(* strays from the fields there are no others; and with a second input     *)
(* there are none.                                                         *)
SourcesAreReads ==
  flow_phase \in {"validate", "done"} =>
    LET read == {FieldRead(c) : c \in {a \in Accesses : ReadsField(a)}}
        onlySimple == \A c \in Accesses : c.root \in {"items", "item", "$json"}
        paths == [i \in DOMAIN input_sources |-> input_sources[i].path]
    IN  onlySimple =>
          IF Cardinality(inputs) = 1
            THEN /\ read \subseteq ToSet(paths)
                 /\ (\A c \in Accesses : ~Stray(c)) => ToSet(paths) \subseteq read
            ELSE input_sources = <<>>

(* A node that a script names in a call such as $("X") and that does not   *)
(* exist is reported whatever the chain does next: the name survives a     *)
(* method call or a computed subscript that loses the field.               *)
GhostsReported ==
  flow_phase = "done" =>
    \A c \in Accesses :
      c.root = "$" /\ c.arg \notin {Up, Down, Other} =>
        \E p \in issues : p[1] = "referenced_node_missing" /\ p[2].from = c.arg

(* Where everything is known, the verdict is exact: if Up has one return,  *)
(* of an object literal with named members only (none spread, none with a  *)
(* computed name), Down reads items and $json by plain chains of one field *)
(* that do not stray, and neither has an error of its own, then exactly    *)
(* the fields that the literal lacks are reported, except for one that is  *)
(* named as the port.                                                      *)
SimpleFormsExact ==
  flow_phase = "done" =>
    LET returns == script[Up].returns
        members == ToSet(returns[1].value.members)
        simple ==
          /\ Len(returns) = 1
          /\ returns[1].scope = "program"
          /\ returns[1].value.kind = "object"
          /\ members # {} /\ \A m \in members : m.form \in {"name", "literal"}
          /\ inputs = {Up}
          /\ script[Up].modules = {} /\ script[Down].modules = {}
          /\ \A c \in Accesses : ReadsField(c) /\ Len(FieldRead(c)) = 1
    IN  simple =>
          issues = {<<"source_field_missing", [from |-> Up, path |-> FieldRead(c)]>> :
                      c \in {x \in Accesses :
                               /\ FieldRead(x) # <<main_port>>
                               /\ \A m \in members : m.name # FieldRead(x)[1]}}

(* No field is reported missing from a script of which no return is an     *)
(* object literal: its output is not known.                                *)
UnknownNeverReported ==
  (\A i \in DOMAIN script[Up].returns : script[Up].returns[i].value.kind # "object") =>
    \A p \in issues : p[1] # "source_field_missing"

(* The verdict of the validator is sound about nodes and whole outputs,    *)
(* and exact where everything is known.                                    *)
ReportsAreSound == GhostsReported /\ SimpleFormsExact /\ UnknownNeverReported
=============================================================================
