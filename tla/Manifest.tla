------------------------------ MODULE Manifest ------------------------------
(***************************************************************************)
(* The list of runtime dependencies of a compiled workflow (manifest.py).  *)
(* One loop over the nodes collects models, vector stores, tools and       *)
(* webhooks, a second one the credentials; then the status of each kind of *)
(* resource is computed from what was found.                               *)
(*                                                                         *)
(* A parameter that may name a resource is a string, or NoName: absent,    *)
(* blank, or an object as the editor's resource locator writes it.  The    *)
(* code takes the three alike, so that a model or a webhook given by an    *)
(* object is not listed and its kind may be called not_required.           *)
(***************************************************************************)
EXTENDS Integers, Sequences, SequencesExt, FiniteSets

CONSTANTS
  NodeLists,   \* the nodes of a workflow, in the order of its JSON
  NoName

(* A node: [key, kind, model, name, credentials].  Its kind: vectorStore,  *)
(* tool, webhook or other; `name` its memoryKey, workflowId or path;       *)
(* `credentials` a sequence of [type, id], the id or NoName.               *)
ASSUME ManifestAssumption ==
  /\ NoName \notin STRING
  /\ \A w \in NodeLists :
       /\ w \in Seq(ToSet(w))
       /\ \A n \in ToSet(w) : n.credentials \in Seq(ToSet(n.credentials))

VARIABLES
  nodes,         \* the nodes, without notes
  at,            \* nodes the loop is through with
  of_node,       \* credentials of the next node it is through with
  models, vector_stores, tools, webhooks,
  credentials,   \* a sequence of [type, id]
  bind_status,   \* of each kind of resource
  manifest_pc    \* "resources", "credentials", "bind", "done"

found == <<models, vector_stores, tools, webhooks>>
manifest_vars == <<nodes, at, of_node, found, credentials, bind_status, manifest_pc>>

Resources == {"model", "vector_store", "tool", "webhook", "credential"}

ManifestInit ==
  /\ nodes \in NodeLists
  /\ at = 0
  /\ of_node = 0
  /\ models = {} /\ vector_stores = {} /\ tools = {} /\ webhooks = {}
  /\ credentials = <<>>
  /\ bind_status =
       [r \in Resources |-> IF r = "webhook" THEN "not_required" ELSE "lazy_deferred"]
  /\ manifest_pc = "resources"

-----------------------------------------------------------------------------

(* The resource a node names itself by where it names none: type and key.  *)
named(n) == IF n.name # NoName THEN n.name ELSE n.key

Resource ==
  /\ manifest_pc = "resources"
  /\ at < Len(nodes)
  /\ at' = at + 1
  /\ LET n == nodes[at + 1]
     IN  /\ models' = models \cup ({n.model} \ {NoName})
         /\ vector_stores' =
              IF n.kind = "vectorStore" THEN vector_stores \cup {named(n)} ELSE vector_stores
         /\ tools' = IF n.kind = "tool" THEN tools \cup {named(n)} ELSE tools
         /\ webhooks' = IF n.kind = "webhook" /\ n.name # NoName
                        THEN webhooks \cup {<<n.name, n.key>>} ELSE webhooks
  /\ UNCHANGED <<nodes, of_node, credentials, bind_status, manifest_pc>>

ResourcesDone ==
  /\ manifest_pc = "resources"
  /\ at = Len(nodes)
  /\ at' = 0
  /\ manifest_pc' = "credentials"
  /\ UNCHANGED <<nodes, of_node, found, credentials, bind_status>>

(* A type is listed again for another id.                                  *)
FirstOfTypeAndId(list, c) == IF Contains(list, c) THEN list ELSE Append(list, c)

(* Of the credentials of one type the first is listed.                     *)
FirstOfType(list, c) ==
  IF \E d \in ToSet(list) : d.type = c.type THEN list ELSE Append(list, c)

(* The inner loop, over the credentials of a node.                         *)
Credential ==
  /\ manifest_pc = "credentials"
  /\ at < Len(nodes)
  /\ of_node < Len(nodes[at + 1].credentials)
  /\ of_node' = of_node + 1
  /\ credentials' = FirstOfType(credentials, nodes[at + 1].credentials[of_node + 1])
  /\ UNCHANGED <<nodes, at, found, bind_status, manifest_pc>>

NextNode ==
  /\ manifest_pc = "credentials"
  /\ at < Len(nodes)
  /\ of_node = Len(nodes[at + 1].credentials)
  /\ at' = at + 1
  /\ of_node' = 0
  /\ UNCHANGED <<nodes, found, credentials, bind_status, manifest_pc>>

CredentialsDone ==
  /\ manifest_pc = "credentials"
  /\ at = Len(nodes)
  /\ manifest_pc' = "bind"
  /\ UNCHANGED <<nodes, at, of_node, found, credentials, bind_status>>

Listed(r) ==
  CASE r = "model" -> models # {}
    [] r = "vector_store" -> vector_stores # {}
    [] r = "tool" -> tools # {}
    [] r = "webhook" -> webhooks # {}
    [] r = "credential" -> credentials # <<>>

Bind ==
  /\ manifest_pc = "bind"
  /\ bind_status' = [r \in Resources |->
       IF ~ Listed(r) THEN "not_required"
       ELSE IF r = "webhook" THEN "declared" ELSE "lazy_deferred"]
  /\ manifest_pc' = "done"
  /\ UNCHANGED <<nodes, at, of_node, found, credentials>>

ManifestFinished == manifest_pc = "done" /\ UNCHANGED manifest_vars

ManifestNext ==
  \/ Resource \/ ResourcesDone \/ Credential \/ NextNode \/ CredentialsDone
  \/ Bind \/ ManifestFinished
ManifestSpec == ManifestInit /\ [][ManifestNext]_manifest_vars

-----------------------------------------------------------------------------

Used == ToSet(nodes)
UsedCredentials == UNION {ToSet(n.credentials) : n \in Used}

ManifestTypeOK ==
  /\ at \in 0 .. Len(nodes)
  /\ of_node # 0 => of_node \in 1 .. Len(nodes[at + 1].credentials)
  /\ manifest_pc \in {"resources", "credentials", "bind", "done"}
  /\ \A r \in Resources : bind_status[r] \in {"lazy_deferred", "declared", "not_required"}
  /\ \A w \in webhooks : w[1] # NoName
  /\ ToSet(credentials) \subseteq UsedCredentials

(* Each type of credential that some node uses is listed once, with the id *)
(* that the first node using the type gives, whatever the later ones say.  *)
TypesListedOnce ==
  manifest_pc = "done" =>
    /\ \A c \in UsedCredentials :
         Cardinality({k \in DOMAIN credentials : credentials[k].type = c.type}) = 1
    /\ \A c \in ToSet(credentials) :
         \E k \in DOMAIN nodes :
           /\ Contains(nodes[k].credentials, c)
           /\ \A j \in 1 .. k - 1 :
                \A d \in ToSet(nodes[j].credentials) : d.type # c.type
=============================================================================
