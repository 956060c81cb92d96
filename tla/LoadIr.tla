------------------------------- MODULE LoadIr -------------------------------
(***************************************************************************)
(* The loader of typed IR documents (typed_ir.py) as every consumer calls  *)
(* it: load_typed_ir_json, then validate_typed_ir, whose checks come in a  *)
(* fixed order and of which the first that fails raises ValueError.        *)
(*                                                                         *)
(* A document is a record of what the checks look at.  The checks of the   *)
(* form of a node, of its types, sources, policy, dependencies and config, *)
(* are one: "wellformed".                                                  *)
(***************************************************************************)
EXTENDS Integers, Sequences, SequencesExt, FiniteSets

CONSTANTS
  Documents,
  DocumentKeys,  \* node keys
  ExitKey,       \* "__exit__"
  Root           \* the scope "__root__"

ASSUME LoadIrAssumption ==
  /\ ExitKey \in DocumentKeys
  /\ \A d \in Documents :
       /\ d.nodes \in Seq(ToSet(d.nodes))
       /\ d.connections \in Seq(ToSet(d.connections))
       /\ \A s \in DOMAIN d.order : d.order[s] \in Seq(ToSet(d.order[s]))

(* nodes: [key, exit: n8n_type is synthetic.exit, wellformed].             *)
(* connections: [from, to: keys, type: "main", "ai" or "foreign",          *)
(*   port: from_port is main or main_N, to_port: "main", "type", "other",  *)
(*   index: "absent", "int" or "other"]; a v1 document gives no type.      *)
(* order: keys by scope.  version: 1, 2 or unknown; digest: "match",       *)
(* "mismatch" or "absent"; settings: "absent", "object" or "other";        *)
(* manifest: "ok" or "bad".                                                *)

VARIABLES
  doc,       \* the document
  checked,   \* the checks passed, in order
  outcome    \* "loading", "accepted" or "refused"

load_vars == <<doc, checked, outcome>>

LoadInit ==
  /\ doc \in Documents
  /\ checked = <<>>
  /\ outcome = "loading"

-----------------------------------------------------------------------------

NodeKeys == {doc.nodes[i].key : i \in DOMAIN doc.nodes}

Header == doc.version \in {1, 2}
Digest == doc.digest = "match"
ExitIsNamed == doc.exit_key = ExitKey

(* The nodes have distinct keys; that of the exit is one of them and of    *)
(* the synthetic type.                                                     *)
DistinctNodes ==
  /\ doc.nodes # <<>>
  /\ \A i \in DOMAIN doc.nodes :
       /\ doc.nodes[i].wellformed
       /\ \A j \in 1 .. i - 1 : doc.nodes[j].key # doc.nodes[i].key
  /\ \E i \in DOMAIN doc.nodes : doc.nodes[i].key = ExitKey /\ doc.nodes[i].exit

Entries == doc.entries \subseteq NodeKeys
Settings == doc.settings \in {"absent", "object"}

(* Only the source of a connection is looked up.                           *)
ConnectionsFrom ==
  \A i \in DOMAIN doc.connections :
    LET c == doc.connections[i]
    IN  /\ c.type \in {"main", "ai"}
        /\ c.index \in {"absent", "int"}
        /\ c.from \in NodeKeys
        /\ c.port
        /\ \/ c.to_port = "main"
           \/ c.type = "ai" /\ c.to_port = "type"

Connections ==
  \A i \in DOMAIN doc.connections :
    LET c == doc.connections[i]
    IN  /\ c.type \in {"main", "ai"}
        /\ c.index \in {"absent", "int"}
        /\ {c.from, c.to} \subseteq NodeKeys
        /\ c.port
        /\ \/ c.to_port = "main"
           \/ c.type = "ai" /\ c.to_port = "type"

(* All nodes but those that only serve as sub-nodes.                       *)
main_topology_nodes ==
  LET cs == ToSet(doc.connections)
      main == {c.from : c \in {d \in cs : d.type = "main"}}
              \cup {c.to : c \in {d \in cs : d.type = "main"}}
      ai == {c.from : c \in {d \in cs : d.type # "main"}}
  IN  NodeKeys \ (ai \ main)

(* The order of every scope there is lists the main topology, each node    *)
(* once.                                                                   *)
ExecutionOrder ==
  \A s \in DOMAIN doc.order :
    /\ ToSet(doc.order[s]) = main_topology_nodes
    /\ IsInjective(doc.order[s])

Manifest == doc.manifest = "ok"

Checks ==
  <<<<"header", Header>>, <<"digest", Digest>>, <<"workflow", ExitIsNamed>>,
    <<"nodes", DistinctNodes>>, <<"entries", Entries>>, <<"settings", Settings>>,
    <<"connections", Connections>>, <<"order", ExecutionOrder>>,
    <<"manifest", Manifest>>>>

(* The next check is passed or raises.                                     *)
CheckDocument ==
  /\ outcome = "loading"
  /\ Len(checked) < Len(Checks)
  /\ LET c == Checks[Len(checked) + 1]
     IN  IF c[2] THEN checked' = Append(checked, c[1]) /\ UNCHANGED outcome
                 ELSE outcome' = "refused" /\ UNCHANGED checked
  /\ UNCHANGED doc

(* A document that fails a check is passed on if its digest matches.       *)
AcceptSigned ==
  /\ outcome = "loading"
  /\ Len(checked) >= 2
  /\ outcome' = "accepted"
  /\ UNCHANGED <<doc, checked>>

Accept ==
  /\ outcome = "loading"
  /\ Len(checked) = Len(Checks)
  /\ outcome' = "accepted"
  /\ UNCHANGED <<doc, checked>>

LoadFinished == outcome # "loading" /\ UNCHANGED load_vars

LoadNext == CheckDocument \/ Accept \/ LoadFinished
LoadSpec == LoadInit /\ [][LoadNext]_load_vars

-----------------------------------------------------------------------------
(* Properties of what is accepted: the consumers, decompile and deploy,    *)
(* rely on them without looking again.                                     *)

LoadTypeOK ==
  /\ outcome \in {"loading", "accepted", "refused"}
  /\ Len(checked) <= Len(Checks)
  /\ outcome = "accepted" => doc.digest = "match" /\ doc.manifest = "ok"

(* No connection hangs in the air, whatever its type: both ends, the       *)
(* entries and the exit are nodes of the document, each of them once.      *)
(* Where there is an order, every end of a main connection is scheduled,   *)
(* once, and no node is that only serves other nodes.                      *)
AcceptedIsSound ==
  outcome = "accepted" =>
    /\ Cardinality(NodeKeys) = Len(doc.nodes)
    /\ doc.entries \cup {doc.exit_key} \subseteq NodeKeys
    /\ \A i \in DOMAIN doc.connections :
         {doc.connections[i].from, doc.connections[i].to} \subseteq NodeKeys
    /\ \A s \in DOMAIN doc.order : \A k \in DocumentKeys :
         LET places == {i \in DOMAIN doc.order[s] : doc.order[s][i] = k}
             cs == ToSet(doc.connections)
             OnlyServes == /\ \E c \in cs : c.from = k
                           /\ \A c \in cs : k \in {c.from, c.to} => c.type = "ai" /\ c.from = k
         IN  /\ \A c \in cs : c.type = "main" /\ k \in {c.from, c.to} => Cardinality(places) = 1
             /\ OnlyServes => places = {}
=============================================================================
