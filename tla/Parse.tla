-------------------------------- MODULE Parse --------------------------------
(***************************************************************************)
(* parse_workflow (parser/workflow.py): from the JSON of an n8n editor to  *)
(* the AST.  The nodes and both kinds of connections are read, notes are   *)
(* dropped, the ends of the main flow are joined to the synthetic exit     *)
(* node, and the expressions in parameters are bound to the nodes they     *)
(* read.                                                                   *)
(*                                                                         *)
(* A raw connection names its output by index; the AST by port name, which *)
(* is the pair <<"main", i>> for "main_i" and <<"main">> for "main".       *)
(***************************************************************************)
EXTENDS Ast, Integers

CONSTANTS
  Exit,            \* the reserved key "__exit__"
  Json, Global,    \* in place of a node: the expression reads $json, or $env
  None,            \* "cannot be derived from the parameters"
  RegistryPorts    \* outputs the registry declares for a Switch

ASSUME ParseAssumption ==
  /\ Exit \in Nodes
  /\ {Json, Global, None} \cap Nodes = {}
  /\ RegistryPorts \in Nat \ {0, 1}

(* What the parser tells apart: triggers and most nodes ("plain"), nodes   *)
(* of several outputs, kinds that end the flow themselves, notes.          *)
Kinds == {"plain", "switch", "respond", "note"}

(* "node": a name occurs twice, or adapt_node raises ValueError.  "list":  *)
(* a list directly inside a list of parameters.  "settings": no object.    *)
Faults == {"none", "node", "list", "settings"}

RawConnection == [from_node : Nodes, index : Nat, to_node : Nodes, to_index : Indices]

VARIABLES
  kind,             \* kind[n] for the names n of the raw nodes
  fault,            \* what else is wrong with the JSON, if anything
  rules,            \* outputs a Switch derives from its parameters, or None
  main, again,      \* raw main connections, and those listed twice
  ai,               \* raw non-main connections
  uses,             \* pairs <<n, x>>: a parameter of n reads node x, or $json
  nodes, connections, twice, ai_connections, refs,   \* the AST
  phase

raw == <<kind, fault, rules, main, again, ai, uses>>
ast == <<nodes, connections, twice, ai_connections, refs>>
vars == <<raw, ast, phase>>

Start ==
  /\ nodes = {}
  /\ connections = {}
  /\ twice = {}
  /\ ai_connections = {}
  /\ refs = {}
  /\ phase = "adapt"

Init ==
  /\ kind \in UNION {[S -> Kinds] : S \in SUBSET Nodes}
  /\ fault \in Faults
  /\ rules \in Int \cup {None}
  /\ main \subseteq RawConnection /\ IsFiniteSet(main)
  /\ again \subseteq main
  /\ ai \subseteq RawConnection /\ IsFiniteSet(ai)
  /\ uses \subseteq (DOMAIN kind) \X (Nodes \cup {Json, Global})
  /\ Start

(* The outcome of a stage that raises if `bad`.                            *)
Continue(bad, next) == phase' = IF bad THEN "rejected" ELSE next

(* adapt_node for every raw node.                                          *)
Adapt ==
  /\ phase = "adapt"
  /\ nodes' = DOMAIN kind
  /\ Continue(fault = "node", "connect")
  /\ UNCHANGED <<raw, connections, twice, ai_connections, refs>>

(* The name of output i of a node.                                         *)
port_name(n, i) == IF kind[n] = "switch" \/ i # 0 THEN <<"main", i>> ELSE <<"main">>

main_connection(e) ==
  [from_node |-> e.from_node, from_port |-> port_name(e.from_node, e.index),
   to_node |-> e.to_node, to_index |-> e.to_index]

(* A non-main connection is named by its index alone.                      *)
ai_connection(e) ==
  [from_node |-> e.from_node, from_port |-> IF e.index # 0 THEN <<"main", e.index>> ELSE <<"main">>,
   to_node |-> e.to_node, to_index |-> e.to_index]

(* Every connection must join two of the nodes read.                       *)
Connect ==
  /\ phase = "connect"
  /\ LET unknown == \E e \in main \cup ai : ~ ({e.from_node, e.to_node} \subseteq nodes)
     IN  /\ Continue(unknown, "close")
         /\ IF unknown
            THEN UNCHANGED ast
            ELSE /\ connections' = {main_connection(e) : e \in main}
                 /\ twice' = {main_connection(e) : e \in again} \cup
                             {main_connection(e) : e \in
                                {d \in main : \E f \in main \ {d} :
                                                main_connection(f) = main_connection(d)}}
                 /\ ai_connections' = {ai_connection(e) : e \in ai}
                 /\ UNCHANGED <<nodes, refs>>
  /\ UNCHANGED raw

kept == {n \in nodes : kind[n] # "note"}

ai_referenced == Endpoints(ai_connections)

(* Nodes that receive main data and send none on.                          *)
DeadEnds ==
  {n \in kept : predecessors(connections, n) # {} /\ successors(connections, n) = {}}

terminals == {n \in DeadEnds : kind[n] # "respond" /\ n \notin ai_referenced}

(* A count of 0 is taken as it is.                                         *)
output_portsExact(n) ==
  IF kind[n] = "switch"
  THEN {<<"main", i>> : i \in 0..((IF rules = None THEN RegistryPorts ELSE rules) - 1)}
  ELSE {<<"main">>}

(* The outputs of a terminal: its parameters say how many a Switch has,    *)
(* the registry when they do not, or say 0 (`count or spec.output_ports`). *)
output_ports(n) ==
  IF kind[n] = "switch"
  THEN {<<"main", i>> : i \in 0..((IF rules \in {None, 0} THEN RegistryPorts ELSE rules) - 1)}
  ELSE {<<"main">>}

(* Notes are dropped and the exit node takes what the terminals put out.   *)
(* A node of the user's that has the reserved name is an error.            *)
Close ==
  /\ phase = "close"
  /\ Continue(Exit \in kept, "bind")
  /\ nodes' = kept \cup {Exit}
  /\ connections' = connections \cup
       UNION {{[from_node |-> n, from_port |-> p, to_node |-> Exit, to_index |-> 0] :
                 p \in output_ports(n)} : n \in terminals}
  /\ UNCHANGED <<raw, twice, ai_connections, refs>>

(* The first source of several.                                            *)
single_upstreamFirst(n) ==
  IF predecessors(connections, n) = {} THEN {}
  ELSE {CHOOSE p \in predecessors(connections, n) : TRUE}

(* The source of the one main connection into n, if there is just one.     *)
single_upstream(n) ==
  LET into == {c \in connections : c.to_node = n}
  IN  IF Cardinality(into) = 1 /\ into \cap twice = {}
      THEN predecessors(connections, n)
      ELSE {}

(* What an expression is bound to; nothing for $json in a node that has no *)
(* single upstream node.                                                   *)
sources(u) == IF u[2] = Json THEN single_upstream(u[1]) ELSE {u[2]}

(* The parameters of a dropped note are bound.                             *)
bindableAll == uses

(* The parameters of the nodes of the AST; the exit node has none.         *)
bindable == {u \in uses : u[1] \in nodes \ {Exit}}

(* The parameters of the kept nodes are bound (_bind_expr_ref,             *)
(* _bind_code_node) and the settings looked at.  _iter_parameters calls    *)
(* items() on a nested list: AttributeError, which no caller expects.      *)
Bind ==
  /\ phase = "bind"
  /\ phase' = CASE fault = "list"     -> "crashed"
                [] fault = "settings" -> "rejected"
                [] OTHER              -> "parsed"
  /\ refs' = IF fault = "list" THEN refs
             ELSE UNION {{<<u[1], s>> : s \in sources(u)} : u \in bindable}
  /\ UNCHANGED <<raw, nodes, connections, twice, ai_connections>>

Next == Adapt \/ Connect \/ Close \/ Bind

Spec == Init /\ [][Next]_vars

-----------------------------------------------------------------------------
TypeOK ==
  /\ nodes \subseteq Nodes
  /\ IsConnections(connections)
  /\ twice \subseteq connections
  /\ IsConnections(ai_connections)
  /\ refs \subseteq (DOMAIN kind) \X (Nodes \cup {Global})
  /\ phase \in {"adapt", "connect", "close", "bind", "parsed", "rejected", "crashed"}

Parsed == phase = "parsed"

(* What module Compile starts from (its IsAst): a connection that names no *)
(* node of the AST names a note, and one that leaves the exit node a note  *)
(* that had its name; notes of that name pass, nodes do not.  Two          *)
(* connections of the editor never become one identity: the validator      *)
(* reports duplicate_edge only for what the user drew twice, even where    *)
(* outputs are renamed and exit connections are added.                     *)
YieldsAst ==
  Parsed =>
    /\ Exit \in nodes
    /\ successors(connections, Exit) # {} => Exit \in DOMAIN kind /\ kind[Exit] = "note"
    /\ \A r \in refs : r[1] \in nodes \ {Exit}
    /\ \A n \in Endpoints(connections \cup ai_connections) \ nodes : kind[n] = "note"
    /\ twice = {} <=> again = {}
    /\ Cardinality({c \in connections : c.to_node # Exit}) =
       Cardinality({e \in main : e.to_node # Exit})

(* The main flow ends in the exit node.  It ends elsewhere only at a node  *)
(* that answers by itself, at one that takes part in non-main connections, *)
(* or at a Switch with a negative number of outputs.                       *)
EndsAreClosed ==
  Parsed =>
    \A n \in nodes \ {Exit} :
      predecessors(connections, n) # {} /\ successors(connections, n) = {} =>
        \/ kind[n] = "respond"
        \/ n \in ai_referenced
        \/ kind[n] = "switch" /\ rules \in Int /\ rules < 0

(* A $json that is bound is bound to the only node that can supply it, so  *)
(* the validator never calls it unreachable.                               *)
JsonIsTheOnlySource ==
  Parsed =>
    \A r \in refs : r \notin uses =>
      /\ <<r[1], Json>> \in uses
      /\ predecessors(connections, r[1]) = {r[2]}

(* What the comments of the parser say of the exit node: it takes over     *)
(* every end of the main flow but the sinks; sub-nodes are no such ends,   *)
(* for they have no main connection.                                       *)
OnlySinksStayOpen ==
  Parsed =>
    \A n \in nodes \ {Exit} :
      predecessors(connections, n) # {} /\ successors(connections, n) = {} =>
        kind[n] = "respond"
=============================================================================
