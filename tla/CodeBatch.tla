----------------------------- MODULE CodeBatch -----------------------------
(***************************************************************************)
(* The sources of all Code nodes go to one Node.js process and come back   *)
(* by position (parser/workflow.py, jscode/js_static.py,                   *)
(* jscode/js_parser.py, scripts/js_parse.mjs); the contracts are kept by   *)
(* node name until each node is adapted (parser/node_adaptors.py).         *)
(***************************************************************************)
EXTENDS Integers, Sequences, SequencesExt, FiniteSets

CONSTANTS
  Sources,      \* scripts
  Blank,        \* no script, or one of blanks only
  Broken,       \* the scripts in error: they do not parse, or import or export
  Workflows     \* records of the raw nodes and of their output connections

(* A raw node: its name and type; "js" its one script, "execute" and       *)
(* "supplyData" those of the two modes of a LangChain Code node, and the   *)
(* language.  flow[x] is "main" or "ai" for the kinds of output edges that *)
(* the connections list under the name x.                                  *)
Types == {"code", "langchain", "tool", "plain"}

IsRawNode(n) ==
  /\ n.type \in Types
  /\ {n.js, n.execute, n.supplyData} \subseteq Sources \cup {Blank}
  /\ n.type # "langchain" => n.execute = Blank /\ n.supplyData = Blank

ASSUME CodeBatchAssumption ==
  /\ Broken \subseteq Sources
  /\ Blank \notin Sources
  /\ \A w \in Workflows :
       /\ w.nodes \in Seq(ToSet(w.nodes))
       /\ \A n \in ToSet(w.nodes) : IsRawNode(n)

VARIABLES
  raw_nodes, flow,   \* the nodes, in order, and the kinds of their output edges
  jobs,              \* the scripts collected: name, source and mode
  answer,            \* what the process printed: one result per script
  cache,             \* contracts by name
  adapted,           \* the nodes adapted: their contracts by name
  bridges,           \* runs of the process
  at,                \* the next node of the loop
  batch_phase

batch_vars == <<raw_nodes, flow, jobs, answer, cache, adapted, bridges, at, batch_phase>>

BatchInit ==
  /\ \E w \in Workflows : raw_nodes = w.nodes /\ flow = w.flow
  /\ jobs = <<>>
  /\ answer = <<>>
  /\ cache = <<>>
  /\ adapted = <<>>
  /\ bridges = 0
  /\ at = 1
  /\ batch_phase = "collect"

-----------------------------------------------------------------------------
(* Which script of a node is compiled, and in which mode.                  *)

(* The mode a LangChain Code node runs in; a main edge decides.            *)
active_branch(n) ==
  IF n.type # "langchain" \/ flow[n.name] = {} THEN "none"
  ELSE IF "main" \in flow[n.name] THEN "execute"
  ELSE "supplyData"

Taken(src, mode) == [source |-> src, mode |-> mode]
Unsupported == Taken(Blank, "unsupported")

(* The script of the active mode, or else the other one; one that stands   *)
(* in the place of both is a factory.                                      *)
langchain_code_source(n, branch) ==
  LET first == IF branch = "execute" THEN "execute" ELSE "supplyData"
      other == IF branch = "execute" THEN "supplyData" ELSE "execute"
      mode(b) == IF b = "supplyData" THEN "factory" ELSE "runOnceForAllItems"
  IN  IF n[first] # Blank THEN Taken(n[first], mode(first))
      ELSE IF n[other] # Blank THEN Taken(n[other], mode(other))
      ELSE Taken(n.js, "factory")

(* A script in jsCode is taken before the language is looked at.           *)
code_source(n, branch) ==
  CASE n.type = "langchain" -> langchain_code_source(n, branch)
    [] n.type = "tool" ->
         IF n.language = "javaScript" THEN Taken(n.js, "tool") ELSE Unsupported
    [] OTHER ->
         IF n.js = Blank /\ n.language = "python" THEN Unsupported
         ELSE Taken(n.js, "runOnceForAllItems")

(* _contract_from_ast and _error_contract.                                 *)
Contract(src, mode) == [source |-> src, mode |-> mode, ok |-> src \notin Broken]
NoSource == [source |-> Blank, mode |-> "none", ok |-> FALSE]

-----------------------------------------------------------------------------

(* One node of the loop that collects the scripts.                         *)
Collect ==
  /\ batch_phase = "collect" /\ at <= Len(raw_nodes)
  /\ at' = at + 1
  /\ LET n == raw_nodes[at]
         job == code_source(n, active_branch(n))
     IN  IF n.type # "plain" /\ job = Unsupported
           THEN batch_phase' = "unsupported" /\ UNCHANGED jobs
           ELSE /\ jobs' = IF n.type = "plain" \/ job.source = Blank THEN jobs
                           ELSE Append(jobs, [name |-> n.name, source |-> job.source,
                                              mode |-> job.mode])
                /\ UNCHANGED batch_phase
  /\ UNCHANGED <<raw_nodes, flow, answer, cache, adapted, bridges>>

(* No process is started for no scripts.                                   *)
Collected ==
  /\ batch_phase = "collect" /\ at > Len(raw_nodes)
  /\ batch_phase' = IF jobs = <<>> THEN "adapt" ELSE "bridge"
  /\ at' = 1
  /\ UNCHANGED <<raw_nodes, flow, jobs, answer, cache, adapted, bridges>>

(* The process parses the scripts in turn.  A script that parses and has   *)
(* module syntax is refused when its tree is walked (_contract_from_ast);  *)
(* both are one outcome here, for nothing between them depends on which.   *)
Run ==
  /\ batch_phase = "bridge"
  /\ answer' = [i \in DOMAIN jobs |-> [ok |-> jobs[i].source \notin Broken]]
  /\ bridges' = bridges + 1
  /\ batch_phase' = "batch"
  /\ UNCHANGED <<raw_nodes, flow, jobs, cache, adapted, at>>

(* It does not run, exits with an error, takes too long or prints no JSON: *)
(* JSInfraError.  Its answer counts only if it holds a result per script.  *)
Fail ==
  /\ batch_phase = "bridge"
  /\ bridges' = bridges + 1
  /\ batch_phase' = "infra"
  /\ UNCHANGED <<raw_nodes, flow, jobs, answer, cache, adapted, at>>

(* Results are matched with the nodes of the workflow.                     *)
BatchByNode ==
  /\ batch_phase = "batch"
  /\ cache' = [x \in {raw_nodes[i].name : i \in {k \in DOMAIN raw_nodes : k <= Len(jobs)}} |->
                 LET last == CHOOSE i \in 1 .. Len(jobs) :
                               /\ raw_nodes[i].name = x
                               /\ \A k \in i + 1 .. Len(jobs) : raw_nodes[k].name # x
                 IN  Contract(jobs[last].source, jobs[last].mode)]
  /\ batch_phase' = "adapt"
  /\ UNCHANGED <<raw_nodes, flow, jobs, answer, adapted, bridges, at>>

(* compile_js_batch and the dictionary of _precompile_code_nodes: result i *)
(* belongs to job i, and of two jobs with a name the later is kept.        *)
Batch ==
  /\ batch_phase = "batch"
  /\ cache' = [x \in {jobs[i].name : i \in DOMAIN jobs} |->
                 LET last == CHOOSE i \in DOMAIN jobs :
                               /\ jobs[i].name = x
                               /\ \A k \in i + 1 .. Len(jobs) : jobs[k].name # x
                 IN  [Contract(jobs[last].source, jobs[last].mode) EXCEPT
                        !.ok = answer[last].ok]]
  /\ batch_phase' = "adapt"
  /\ UNCHANGED <<raw_nodes, flow, jobs, answer, adapted, bridges, at>>

(* A node with a script takes its contract from the cache, whichever of    *)
(* its scripts was compiled; were it not there, the script would be parsed *)
(* alone, and once more for its tree.                                      *)
AdaptCode ==
  /\ batch_phase = "adapt" /\ at <= Len(raw_nodes)
  /\ at' = at + 1
  /\ LET n == raw_nodes[at]
         found == code_source(n, "none")
         alone == found.source # Blank /\ n.name \notin DOMAIN cache
         contract == IF n.type = "plain" \/ found.source = Blank THEN NoSource
                     ELSE IF alone THEN Contract(found.source, found.mode)
                     ELSE cache[n.name]
     IN  /\ bridges' = IF n.type # "plain" /\ alone
                         THEN bridges + (IF found.source \in Broken THEN 1 ELSE 2)
                         ELSE bridges
         /\ IF n.name \in DOMAIN adapted
              THEN batch_phase' = "duplicate" /\ UNCHANGED adapted
              ELSE /\ adapted' = [x \in DOMAIN adapted \cup {n.name} |->
                                    IF x = n.name THEN contract ELSE adapted[x]]
                   /\ UNCHANGED batch_phase
  /\ UNCHANGED <<raw_nodes, flow, jobs, answer, cache>>

AdaptDone ==
  /\ batch_phase = "adapt" /\ at > Len(raw_nodes)
  /\ batch_phase' = "done"
  /\ UNCHANGED <<raw_nodes, flow, jobs, answer, cache, adapted, bridges, at>>

BatchFinished ==
  /\ batch_phase \in {"done", "duplicate", "unsupported", "infra"}
  /\ UNCHANGED batch_vars

BatchNext ==
  \/ Collect \/ Collected \/ Run \/ Fail \/ Batch \/ AdaptCode \/ AdaptDone \/ BatchFinished

BatchSpec == BatchInit /\ [][BatchNext]_batch_vars

-----------------------------------------------------------------------------
(* Properties.                                                             *)

BatchTypeOK ==
  /\ batch_phase \in {"collect", "bridge", "batch", "adapt",
                      "done", "duplicate", "unsupported", "infra"}
  /\ at \in 1 .. Len(raw_nodes) + 1
  /\ \A i \in DOMAIN jobs : jobs[i].source \in Sources
  /\ \A x \in DOMAIN adapted : adapted[x].source \in Sources \cup {Blank}
  /\ DOMAIN cache \subseteq {raw_nodes[i].name : i \in DOMAIN raw_nodes}

(* Once the workflow is parsed, the contract of a Code node is that of a   *)
(* script of its own, never of a neighbour in the batch, and it is in      *)
(* error exactly if that script does not parse, imports or exports, or     *)
(* there is none: a broken script fails alone. Of the two scripts of a     *)
(* LangChain Code node it is the one its edges call for: execute if the    *)
(* node feeds the main flow, the factory if it only serves as a sub-node,  *)
(* even where the adapter alone would have chosen the other                *)
(* (parser/workflow.py:159).                                               *)
ContractIsOwn ==
  batch_phase = "done" =>
    \A i \in DOMAIN raw_nodes :
      raw_nodes[i].type # "plain" =>
        LET n == raw_nodes[i]
            c == adapted[n.name]
            own == {n.js, n.execute, n.supplyData} \ {Blank}
            both == n.type = "langchain" /\ Blank \notin {n.execute, n.supplyData}
        IN  /\ own = {} => c = NoSource
            /\ own # {} => c.source \in own /\ (c.ok <=> c.source \notin Broken)
            /\ both /\ "main" \in flow[n.name] => c.source = n.execute
            /\ both /\ flow[n.name] = {"ai"} => c.source = n.supplyData

(* All the scripts of a workflow cost one process ("one acorn process",    *)
(* jscode/js_static.py:97): no node falls back to a process of its own.    *)
OneProcess == bridges <= 1

=============================================================================
