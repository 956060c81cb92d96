------------------------------ MODULE JsStatic ------------------------------
(***************************************************************************)
(* The static analysis of a Code node's JavaScript (jscode/js_ast.py):     *)
(* from the ESTree of a script to the fields it reads, the shape of what   *)
(* it returns, its side effects and the warnings.                          *)
(*                                                                         *)
(* An access is a chain of JavaScript, such as $json.user["id"] or         *)
(* items.map(f): its root and the steps taken from there.  Level i of the  *)
(* chain is the node of the tree after i steps, and the parent of level i  *)
(* is level i + 1, as its object or its callee.  The root is a name, or    *)
(* the call of a node by name, $("X"), whose argument is "arg".            *)
(***************************************************************************)
EXTENDS Integers, Sequences, FiniteSets, SequencesExt

CONSTANT json  \* the name of the wrapper of n8n's items

(* The names js_ast.py tells apart.  "$" stands for the three calls that   *)
(* name a node, "axios" is the network library, "fetch" the call of the    *)
(* platform, "fs" a module and "other" any other name.                     *)
Bases == {"items", "item", "$json", "$input", "$node"}
IoCalls == {"fetch", "require"}
NetworkCalls == {"fetch", "axios"}
IoRoots == {"fs", "console"}
FsRoots == {"fs"}
NonDeterministic == {"Math"}

Tip(c) == Len(c.steps)
IsMember(c, i) == i \in 1 .. Tip(c) /\ c.steps[i].kind # "call"
IsCall(c, i) == i \in 1 .. Tip(c) /\ c.steps[i].kind = "call"

(* The names of the steps that are fields, in their order: an index is     *)
(* none.                                                                   *)
Fields(steps) ==
  LET keys == {i \in DOMAIN steps : steps[i].kind = "key"}
      nth(k) == CHOOSE i \in keys : Cardinality({j \in keys : j <= i}) = k
  IN  [k \in 1 .. Cardinality(keys) |-> steps[nth(k)].name]

(* One dependency; a chain that cannot be traced has none.                 *)
Dep(base, path) == <<[base |-> base, path |-> path]>>
NoDep == <<>>

(* The wrapper "json" is no field.                                         *)
UnwrappedNowhere(path, at) == path

Unwrapped(path, at) ==
  IF Len(path) >= at /\ path[at] = json THEN RemoveAt(path, at) ELSE path

(* What a chain of member expressions reads.  A call on the way, a         *)
(* computed subscript or a root of another name cannot be traced.          *)
member_chain(c) ==
  IF \E i \in 1 .. Tip(c) : c.steps[i].kind \in {"call", "dynamic"}
    THEN NoDep
  ELSE IF c.root = "$"
    THEN Dep("$node", Unwrapped(<<c.arg>> \o Fields(c.steps), 2))
  ELSE IF c.root = "$node"
    THEN Dep("$node", Unwrapped(Fields(c.steps), 2))
  ELSE IF c.root \in {"items", "item"}
    THEN Dep(c.root, Unwrapped(Fields(c.steps), 1))
  ELSE IF c.root \in Bases
    THEN Dep(c.root, Fields(c.steps))
  ELSE NoDep

Prefix(c, i) == [c EXCEPT !.steps = SubSeq(@, 1, i)]

(* Every level of a chain is taken for a read.                             *)
level_depEach(c, i) ==
  IF i = 0
    THEN IF c.root = "$" THEN Dep("$node", <<c.arg>>) ELSE NoDep
    ELSE IF IsMember(c, i) THEN member_chain(Prefix(c, i)) ELSE NoDep

(* What level i records: a call that names a node that node; a member      *)
(* expression the whole chain, unless it is the object of a longer chain   *)
(* or the callee of a call.                                                *)
level_dep(c, i) ==
  IF i = 0
    THEN IF c.root = "$" THEN Dep("$node", <<c.arg>>) ELSE NoDep
    ELSE IF IsMember(c, i) /\ i = Tip(c) THEN member_chain(c) ELSE NoDep

(* A dependency is kept where it is first met.                             *)
Add(deps, dep) ==
  IF dep = NoDep \/ Contains(deps, dep[1]) THEN deps ELSE deps \o dep

-----------------------------------------------------------------------------
(* Warnings, each a pair of its reason and the access.                     *)

warning(c, i) ==
  IF IsCall(c, i) /\ i = 1 /\ c.root \in NetworkCalls THEN "network"
  ELSE IF IsCall(c, i) /\ i = 1 /\ c.root = "require" THEN "require"
  ELSE IF IsCall(c, i) /\ i = 2 /\ IsMember(c, 1) /\ c.root \in FsRoots THEN "fs"
  ELSE IF IsMember(c, i) /\ c.steps[i].kind = "dynamic" THEN "dynamic"
  ELSE "none"

collect_warnings(accesses) ==
  UNION {{<<warning(c, i), c>> : i \in {l \in 0 .. Tip(c) : warning(c, l) # "none"}} :
           c \in ToSet(accesses)}

classify_effect(accesses) ==
  IF \E c \in ToSet(accesses) :
       \/ IsCall(c, 1) /\ c.root \in IoCalls
       \/ IsMember(c, 1) /\ IsCall(c, 2) /\ c.root \in IoRoots
       \/ IsMember(c, 1) /\ c.root \in NonDeterministic
    THEN "io" ELSE "pure"

-----------------------------------------------------------------------------
(* The shape of what a script returns.                                     *)

(* A return statement stands in the script itself ("program"), in a        *)
(* function declared at its top level, or in another one ("closure").      *)
is_top_level_return(r) == r.scope \in {"program", "declaration"}

NoProps == <<>>
Shape(k, props) == [kind |-> k, props |-> props]

(* Members of a literal: {k: v} ("name"), {"k": v} and {["k"]: v}          *)
(* ("literal"), {[k]: v} ("computed", of which the name is that of the     *)
(* variable), any other computed key ("other") and {...v} ("spread").  The *)
(* name of a variable is taken for that of a property; what is no property *)
(* or has another key is skipped.  Of two of a name the last counts.       *)
object_props(members) ==
  LET named == {i \in DOMAIN members : members[i].form \in {"name", "literal", "computed"}}
  IN  [f \in {members[i].name : i \in named} |->
         members[Max({i \in named : members[i].name = f})].type]

(* By the returned expression.                                             *)
ShapeOf(v) ==
  CASE v.kind = "none" -> Shape("void", NoProps)
    [] v.kind = "object" -> Shape("object", object_props(v.members))
    [] v.kind \in {"name", "member", "new", "literal"} -> Shape("object", NoProps)
    [] v.kind \in {"items", "itemscall", "array"} -> Shape("list", NoProps)
    [] OTHER -> Shape("any", NoProps)

(* The last return at the top level decides; if there is none, the last of *)
(* all.                                                                    *)
extract_output_shape(returns) ==
  LET top == {i \in DOMAIN returns : is_top_level_return(returns[i])}
      chosen == IF top = {} THEN DOMAIN returns ELSE top
  IN  IF returns = <<>> THEN Shape("void", NoProps) ELSE ShapeOf(returns[Max(chosen)].value)

(* The contract of a script in which the walk has found deps.              *)
contract_from_ast(script, deps) ==
  [deps     |-> deps,
   output   |-> extract_output_shape(script.returns),
   effect   |-> classify_effect(script.accesses),
   errors   |-> script.modules,
   warnings |-> collect_warnings(script.accesses)]
=============================================================================
