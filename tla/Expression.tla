----------------------------- MODULE Expression -----------------------------
(***************************************************************************)
(* From the value of a parameter to the reference it binds: parse_value    *)
(* (parser/expression.py) and _bind_expr_ref (parser/workflow.py).         *)
(*                                                                         *)
(* A value is text with expressions in double braces.  An expression is a  *)
(* root, an accessor, the steps after it and "more": whether operators,    *)
(* calls or other text follow its last step.                               *)
(***************************************************************************)
EXTENDS Integers, Sequences, SequencesExt

CONSTANTS
  Values,        \* the values of the parameter
  Upstream, Nowhere,   \* the only main upstream of the node; no node
  Words,         \* names of fields that are words, JsonName among them,
  JsonName,      \* which is "json"
  Pieces,        \* of a name, what _split_path makes of it: it parts a name in
                 \* brackets at its dots, and leaves a word as it is
  Garbled        \* a name that swallowed the text after it

(* Roots: "node" $node["X"], "json" $json, "input" $input, "global" $env   *)
(* and its like, "other" anything else.  Accessors: "item" for .item,      *)
(* .all() and .first() of $input; "json" for these and .json, and for      *)
(* .json or .output of $node; "foreign" for any other.  A step is .name,   *)
(* ["name"] or [0].                                                        *)
IsExpression(e) ==
  /\ e = [root |-> e.root, node |-> e.node, accessor |-> e.accessor,
          path |-> e.path, more |-> e.more]
  /\ e.root \in {"node", "json", "input", "global", "other"}
  /\ e.node # Nowhere
  /\ e.accessor \in {"none", "item", "json", "foreign"}
  /\ e.accessor = "item" => e.root = "input"
  /\ e.root \in {"json", "global"} => e.accessor = "none"
  /\ e.path \in Seq([name : DOMAIN Pieces, by : {"dot", "bracket", "index"}])
  /\ \A i \in DOMAIN e.path : e.path[i].by = "dot" => e.path[i].name \in Words
  /\ e.more \in BOOLEAN

ASSUME ExpressionAssumption ==
  /\ Upstream # Nowhere
  /\ JsonName \in Words /\ Words \subseteq DOMAIN Pieces
  /\ \A w \in Words : Pieces[w] = w
  /\ \A v \in Values :
       /\ v.text \in BOOLEAN /\ v.tail \in BOOLEAN
       /\ v.parts \in Seq(ToSet(v.parts))
       /\ \A e \in ToSet(v.parts) : IsExpression(e)

Unknown == [kind |-> "unknown", node |-> Nowhere, path |-> <<>>]
Ref(k, n, path) == [kind |-> k, node |-> n, path |-> path]

VARIABLES
  value,     \* [text: text before the first expression, parts: expressions,
             \*  tail: text after the last]
  parsed,    \* ParsedRef, or a literal
  source,    \* the reference bound, as a sequence of none or one
  expr_phase

expr_vars == <<value, parsed, source, expr_phase>>

ExprInit ==
  /\ value \in Values
  /\ parsed = Unknown
  /\ source = <<>>
  /\ expr_phase = "parse"

-----------------------------------------------------------------------------

(* Everything up to the end is the path, whatever it is.                   *)
split_path(path, more) ==
  [i \in DOMAIN path |-> IF more /\ i = Len(path) THEN Garbled ELSE Pieces[path[i].name]]

Alone(e) == e.path = <<>> /\ ~e.more
DotFirst(e) == e.path # <<>> /\ e.path[1].by = "dot"

(* $node["X"] or its data alone, or a dot and anything.                    *)
parse_node_ref(e) ==
  IF /\ e.root = "node"
     /\ \/ e.accessor \in {"none", "json"} /\ Alone(e)
        \/ e.accessor = "json" /\ DotFirst(e)
    THEN Ref("node", e.node, split_path(e.path, e.more)) ELSE Unknown

(* A root alone, or a dot or a quoted bracket and anything.                *)
parse_global_ref(e) ==
  IF e.root = "global" /\ (Alone(e) \/ (e.path # <<>> /\ e.path[1].by # "index"))
    THEN Ref("global", Nowhere, split_path(e.path, e.more)) ELSE Unknown

(* A dot, and words after dots or in brackets.                             *)
PurePath(path) ==
  \A i \in DOMAIN path : path[i].by = "dot" \/ (i > 1 /\ path[i].by = "bracket" /\ path[i].name \in Words)

(* What follows a pure path does not count.                                *)
parse_input_refLoose(e) ==
  IF e.root = "json" /\ PurePath(e.path)
    THEN Ref("input", Nowhere, split_path(e.path, e.more)) ELSE Unknown

(* $json must be followed by a pure path and nothing else; $input or its   *)
(* data alone, or a dot and anything.  A dot before json with anything but *)
(* a dot after it is such a dot: json begins the path.                     *)
parse_input_ref(e) ==
  IF \/ e.root = "json" /\ ~e.more /\ PurePath(e.path)
     \/ e.root = "input" /\ e.accessor \in {"none", "item", "json"} /\ Alone(e)
     \/ e.root = "input" /\ e.accessor \in {"item", "json"} /\ DotFirst(e)
    THEN Ref("input", Nowhere, split_path(e.path, e.more))
  ELSE IF e.root = "input" /\ e.accessor = "json"
    THEN Ref("input", Nowhere, split_path(<<[name |-> JsonName, by |-> "dot"]>> \o e.path, e.more))
  ELSE Unknown

(* The three forms in turn; they exclude each other.                       *)
parse_expression(e) ==
  IF parse_node_ref(e) # Unknown THEN parse_node_ref(e)
  ELSE IF parse_global_ref(e) # Unknown THEN parse_global_ref(e)
  ELSE parse_input_ref(e)

(* A value that starts and ends with an expression is taken for one: what  *)
(* is between the first and the last of several is text after the first.   *)
(* In any other the first expression is parsed and the others are not.     *)
parse_value(v) ==
  IF v.parts = <<>> THEN Ref("literal", Nowhere, <<>>)
  ELSE IF ~v.text /\ ~v.tail /\ Len(v.parts) > 1
    THEN parse_expression([Head(v.parts) EXCEPT !.more = TRUE])
  ELSE parse_expression(Head(v.parts))

ParseValue ==
  /\ expr_phase = "parse"
  /\ parsed' = parse_value(value)
  /\ expr_phase' = "bind"
  /\ UNCHANGED <<value, source>>

(* The name of the upstream node is not filled in.                         *)
BindExprUnresolved ==
  /\ expr_phase = "bind"
  /\ source' = IF parsed.kind \in {"unknown", "literal"} THEN <<>>
               ELSE <<[from |-> parsed.node, path |-> parsed.path,
                       global |-> parsed.kind = "global"]>>
  /\ expr_phase' = "done"
  /\ UNCHANGED <<value, parsed>>

(* A reference to the input becomes one to the upstream node.              *)
BindExpr ==
  /\ expr_phase = "bind"
  /\ source' =
       CASE parsed.kind = "node" ->
              <<[from |-> parsed.node, path |-> parsed.path, global |-> FALSE]>>
         [] parsed.kind = "input" ->
              <<[from |-> Upstream, path |-> parsed.path, global |-> FALSE]>>
         [] parsed.kind = "global" ->
              <<[from |-> Nowhere, path |-> parsed.path, global |-> TRUE]>>
         [] OTHER -> <<>>
  /\ expr_phase' = "done"
  /\ UNCHANGED <<value, parsed>>

ExprFinished == expr_phase = "done" /\ UNCHANGED expr_vars

ExprNext == ParseValue \/ BindExpr \/ ExprFinished
ExprSpec == ExprInit /\ [][ExprNext]_expr_vars

-----------------------------------------------------------------------------
(* Properties.                                                             *)

(* What an expression reads if n8n evaluates it: the node and the fields.  *)
Reads(e) ==
  [from |-> CASE e.root = "node" -> e.node
              [] e.root \in {"json", "input"} -> Upstream
              [] OTHER -> Nowhere,
   path |-> [i \in DOMAIN e.path |-> e.path[i].name], global |-> e.root = "global"]

(* Nothing but fields: a root or its data alone, or a dot, a field and     *)
(* more fields, none of them with a dot in its name, and of $json only     *)
(* words.  Fields in brackets right after the data are not among these:    *)
(* the code leaves the expression unbound or, of $input, takes json for    *)
(* the first field.                                                        *)
Plain(e) ==
  /\ ~e.more
  /\ \A i \in DOMAIN e.path : Pieces[e.path[i].name] = e.path[i].name
  /\ \/ e.root = "json" /\ PurePath(e.path)
     \/ e.root = "global" /\ (e.path = <<>> \/ e.path[1].by # "index")
     \/ e.root \in {"node", "input"} /\ e.accessor = "json" /\ (e.path = <<>> \/ DotFirst(e))
     \/ e.root \in {"node", "input"} /\ e.accessor \in {"none", "item"} /\ e.path = <<>>

ExprTypeOK ==
  /\ expr_phase \in {"parse", "bind", "done"}
  /\ parsed.kind \in {"unknown", "literal", "node", "input", "global"}
  /\ Len(source) <= 1
  /\ \A s \in ToSet(source) : s.from = Nowhere <=> s.global

(* A binding is never made up: it reads a node that some expression of the *)
(* value reads, and what comes of $json is its field path exactly, or      *)
(* nothing ("prevents wrong binding by a partial match", expression.py:132,*)
(* translated).  And an expression that is nothing but fields binds        *)
(* exactly these, alone and as the first of a template with text around it.*)
BindingsAreReads ==
  /\ \A s \in ToSet(source) :
       \E i \in DOMAIN value.parts :
         LET r == Reads(value.parts[i])
         IN  /\ r.from = s.from /\ r.global = s.global
             /\ value.parts[i].root = "json" => s.path = r.path
  /\ expr_phase = "done" /\ value.parts # <<>> =>
       (Plain(Head(value.parts)) /\ (Len(value.parts) = 1 \/ value.text \/ value.tail) =>
          source = <<Reads(Head(value.parts))>>)
=============================================================================
