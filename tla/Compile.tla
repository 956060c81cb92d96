------------------------------- MODULE Compile -------------------------------
(***************************************************************************)
(* compile_ast (compiler/workflow.py) and the loader every consumer of its *)
(* output goes through (load_typed_ir_json in typed_ir.py):                *)
(*                                                                         *)
(*   validate -> resolve dependencies -> order -> emit the IR              *)
(*            -> check the settings -> load it                             *)
(*                                                                         *)
(* The three graph algorithms appear as what the modules DetectCycles,     *)
(* CanReference and Kahn show them to compute: "there is a cycle", the     *)
(* upstream closure, and the greedy order of TopoSort.                     *)
(***************************************************************************)
EXTENDS Ast, Sequences, Functions

CONSTANTS
  Exit,     \* the key "__exit__" of the synthetic exit node
  Global    \* what a reference to $env, $now, ... has in place of a node

ASSUME CompileAssumption == Exit \in Nodes /\ Global \notin Nodes

(* A field that refers to an output.  fits: the path is one the source may *)
(* have, of an assignable type (of a global variable: it is not empty).    *)
Ref == [target : Nodes, source : Nodes \cup {Global}, fits : BOOLEAN]

(* Values no validator looks at: one without a digest (an infinity, a lone *)
(* surrogate, the tree of a script too deep to encode), and a list or an   *)
(* object for a setting that is an enum.                                   *)
Oddities == {"undigestible", "unhashable"}

VARIABLES
  nodes, triggers,   \* keys of ast.nodes, and those of trigger kinds
  faulty,            \* Code nodes with a syntax error, or with retryOnFail alone
  connections,       \* ast.connections
  twice,             \* those that ast.connections lists more than once
  ai_connections,    \* ast.ai_connections
  foreign,           \* those whose conn_type does not start with "ai_"
  refs,              \* the input_sources of all nodes
  odd,               \* the oddities among the values of the workflow
  issues,            \* codes of the issues found
  direct, indirect,  \* references by kind of dependency
  order,             \* execution_order["__root__"]
  phase

ast == <<nodes, triggers, faulty, connections, twice, ai_connections, foreign, refs, odd>>
vars == <<ast, issues, direct, indirect, order, phase>>

(* What parse_workflow returns (module Parse): a connection may still name *)
(* a node that was dropped, and leave the exit node if a note had its name.*)
IsAst ==
  /\ nodes \in SUBSET Nodes
  /\ Exit \in nodes
  /\ triggers \subseteq nodes
  /\ faulty \subseteq nodes
  /\ IsConnections(connections)
  /\ twice \subseteq connections
  /\ IsConnections(ai_connections)
  /\ foreign \subseteq ai_connections
  /\ refs \subseteq Ref
  /\ \A r \in refs : r.target \in nodes
  /\ odd \subseteq Oddities

Start ==
  /\ issues = {}
  /\ direct = {}
  /\ indirect = {}
  /\ order = <<>>
  /\ phase = "validate"

Init == IsAst /\ Start

-----------------------------------------------------------------------------
(* The validators (checker/validator.py), each as the codes it reports.    *)

validate_syntax ==
  {code \in {"duplicate_edge", "self_referencing_edge"} :
     \/ code = "duplicate_edge" /\ twice # {}
     \/ code = "self_referencing_edge" /\ \E c \in connections : c.from_node = c.to_node}

validate_connections ==
  {code \in {"unknown_source_node", "unknown_target_node"} :
     \E c \in connections :
       \/ code = "unknown_source_node" /\ c.from_node \notin nodes
       \/ code = "unknown_target_node" /\ c.from_node \in nodes /\ c.to_node \notin nodes}

detect_cycles ==
  LET known == {c \in connections : c.from_node \in nodes /\ c.to_node \in nodes}
  IN  IF Acyclic(known, nodes) THEN {} ELSE {"cycle_detected"}

UpstreamEdges == {c \in connections : c.to_node \in nodes}

(* Any two nodes may refer to each other, as in the editor.                *)
can_referenceAny(s, t) == s # t

can_reference(s, t) == s # t /\ s \in Ancestors(UpstreamEdges, t)

(* The issue of one reference: the first check it fails.                   *)
reference_issue(r) ==
  CASE r.source = Global            -> IF r.fits THEN {} ELSE {"global_variable_path_empty"}
    [] r.source \in Nodes \ nodes   -> {"referenced_node_missing"}
    [] r.source = r.target          -> {"self_reference_in_field_mapping"}
    [] r.source \in nodes \ {r.target} ->
         IF ~ can_reference(r.source, r.target) THEN {"reference_not_reachable"}
         ELSE IF r.fits THEN {} ELSE {"type_mismatch"}

validate_references == UNION {reference_issue(r) : r \in refs}

validate_node_semantics ==
  {code \in {"entry_node_has_input_sources", "self_reference_in_field_mapping",
             "code_error"} :
     \/ code = "code_error" /\ faulty # {}
     \/ \E r \in refs :
          \/ code = "entry_node_has_input_sources" /\ r.target \in triggers
          \/ code = "self_reference_in_field_mapping" /\ r.source = r.target}

(* detect_cycles is not called.                                            *)
ValidateWithoutCycles ==
  /\ phase = "validate"
  /\ issues' = validate_syntax \cup validate_connections
               \cup validate_references \cup validate_node_semantics
  /\ phase' = IF issues' = {} THEN "resolve" ELSE "invalid"
  /\ UNCHANGED <<ast, direct, indirect, order>>

(* All validators run; only then are the issues raised.                    *)
Validate ==
  /\ phase = "validate"
  /\ issues' = validate_syntax \cup validate_connections \cup detect_cycles
               \cup validate_references \cup validate_node_semantics
  /\ phase' = IF issues' = {} THEN "resolve" ELSE "invalid"
  /\ UNCHANGED <<ast, direct, indirect, order>>

-----------------------------------------------------------------------------
(* resolve_all_dependencies; a ValueError for a node that refers to itself.*)
Resolve ==
  /\ phase = "resolve"
  /\ LET mapped == {r \in refs : r.source # Global}
     IN  /\ direct' = {r \in mapped : r.source \in predecessors(connections, r.target)}
         /\ indirect' = mapped \ direct'
  /\ phase' = IF \E r \in refs : r.source = r.target THEN "resolve_error" ELSE "order"
  /\ UNCHANGED <<ast, issues, order>>

(* An AI node that takes part in the main flow as well is left out.        *)
membersWithoutAi == nodes \ {c.from_node : c \in ai_connections}

members == nodes \ ai_only_subnodes(connections, ai_connections)

Placeable ==
  {n \in members \ Range(order) :
     predecessors(connections, n) \cap members \subseteq Range(order)}

(* One turn of the loop of _execution_orders.                              *)
Place ==
  /\ phase = "order"
  /\ \E n \in Placeable :
       /\ \A m \in Placeable : n <= m
       /\ order' = Append(order, n)
  /\ UNCHANGED <<ast, issues, direct, indirect, phase>>

(* Its end, "workflow contains a cycle" (a ValueError), or the document,   *)
(* which gets its digest: json.dumps and encode may raise a ValueError or  *)
(* a RecursionError.                                                       *)
Emit ==
  /\ phase = "order"
  /\ Placeable = {}
  /\ phase' = IF Range(order) # members THEN "cycle_error"
              ELSE IF "undigestible" \in odd THEN "digest_error" ELSE "emitted"
  /\ UNCHANGED <<ast, issues, direct, indirect, order>>

(* check_workflow_settings only warns, but its test of membership raises a *)
(* TypeError for a value that cannot be hashed.                            *)
CheckSettings ==
  /\ phase = "emitted"
  /\ phase' = IF "unhashable" \in odd THEN "settings_error" ELSE "compiled"
  /\ UNCHANGED <<ast, issues, direct, indirect, order>>

-----------------------------------------------------------------------------
(* validate_typed_ir: every connection joins two nodes of the document and *)
(* has a known type, the order is a permutation of the main topology       *)
(* computed anew from the document.                                        *)
main_topology_nodes ==
  nodes \ ({c.from_node : c \in ai_connections} \ Endpoints(connections))

Loadable ==
  /\ Exit \in nodes
  /\ Endpoints(connections) \cup Endpoints(ai_connections) \subseteq nodes
  /\ foreign = {}
  /\ Range(order) = main_topology_nodes
  /\ Len(order) = Cardinality(Range(order))

Load ==
  /\ phase = "compiled"
  /\ phase' = IF Loadable THEN "accepted" ELSE "refused"
  /\ UNCHANGED <<ast, issues, direct, indirect, order>>

Next == Validate \/ Resolve \/ Place \/ Emit \/ CheckSettings \/ Load

(* One thread compiles, and its consumer loads what it is given.           *)
Spec == Init /\ [][Next]_vars /\ WF_vars(Next)

-----------------------------------------------------------------------------
Emitted == phase \in {"emitted", "compiled", "accepted", "refused"}
LateError == phase \in {"resolve_error", "cycle_error", "digest_error", "settings_error"}
Ended == LateError \/ phase \in {"invalid", "accepted", "refused"}

TypeOK ==
  /\ IsAst
  /\ issues \subseteq {"duplicate_edge", "self_referencing_edge", "unknown_source_node",
                       "unknown_target_node", "cycle_detected", "referenced_node_missing",
                       "global_variable_path_empty", "self_reference_in_field_mapping",
                       "reference_not_reachable", "type_mismatch",
                       "entry_node_has_input_sources", "code_error"}
  /\ direct \subseteq refs
  /\ indirect \subseteq refs
  /\ order \in Seq(members)
  /\ Emitted \/ Ended \/ phase \in {"validate", "resolve", "order"}

(* The graph of a workflow is refused by the validator or not at all: what *)
(* is raised after validation comes from a value that no validator looks   *)
(* at, never from a cycle or a reference of a node to itself.              *)
OnlyValuesRaiseLate ==
  LateError => phase \in {"digest_error", "settings_error"} /\ odd # {}

(* Where a document is emitted, each node a field refers to stands earlier *)
(* in execution_order than the node of the field, over any number of hops. *)
SourcesPrecedeConsumers ==
  Emitted =>
    \A r \in direct \cup indirect : \A j \in 1..Len(order) :
      order[j] = r.target => \E i \in 1..(j - 1) : order[i] = r.source

(* Both ends of a dependency are in execution_order: no reference hangs on *)
(* a sub-node, which is not scheduled.                                     *)
DependenciesAreScheduled ==
  Emitted => \A r \in direct \cup indirect : {r.source, r.target} \subseteq Range(order)

(* The loader refuses an emitted document only for its non-main            *)
(* connections, and the two definitions of the main topology agree.        *)
RefusedOnlyForAi ==
  phase = "refused" => foreign # {} \/ ~ (Endpoints(ai_connections) \subseteq nodes)

(* What the documentation promises: the compiler's output loads.           *)
EmittedIsLoadable == phase # "refused"

-----------------------------------------------------------------------------
(***************************************************************************)
(* The inductive invariant: what a validated AST guarantees, and that the  *)
(* order built so far is topological.                                      *)
(***************************************************************************)
Clean ==
  /\ Endpoints(connections) \subseteq nodes
  /\ Acyclic(connections, nodes)
  /\ \A r \in refs : r.source # Global => can_reference(r.source, r.target)
  /\ \A r \in refs : r.source # r.target

IInv ==
  /\ TypeOK
  /\ phase \notin {"validate", "invalid"} => Clean
  /\ \A r \in direct \cup indirect : r.source # Global
  /\ \A j \in 1..Len(order) :
       \A p \in predecessors(connections, order[j]) \cap members :
         \E i \in 1..(j - 1) : order[i] = p
  /\ Len(order) = Cardinality(Range(order))
  /\ Emitted => Range(order) = members
  /\ OnlyValuesRaiseLate
  /\ RefusedOnlyForAi
=============================================================================
