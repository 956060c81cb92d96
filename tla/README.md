# Verification of n8n_compiler

TLA+ models, TLC runs and TLAPS proofs for `n8n_compiler`, which reads the
JSON of an n8n workflow, validates it, compiles it to a typed IR document with a
deterministic execution order, and writes such documents back to an n8n
instance.

    n8n JSON -> parse_workflow -> WorkflowAST -> compile_ast -> typed IR
             -> load_typed_ir_json -> decompile_to_workflow -> deploy_to_n8n -> n8n

Paths below are relative to `src/`.

## 1. Inventory

| Component | State it keeps | Operations | Meets | What makes it correct |
|---|---|---|---|---|
| Parser (`parser/workflow.py`, `parser/node_adaptors.py`) | nodes by name, `connections`, `ai_connections`, `input_sources` | `parse_workflow`, port names, exit closing, choice of a Code node's script, binding of expressions and of code | JS channel (subprocess), expression parser | nothing that was drawn is lost or merged, ends are closed, `$json` is bound only where it is certain |
| Expression parser (`parser/expression.py`) | none | `parse_value` | parser | what is bound is read by the value, and plain expressions are bound exactly |
| JS channel (`jscode/`, `scripts/js_parse.mjs`) | one Node process per batch | `parse_js_batch`, `compile_js_batch` | parser | answers belong to their sources; no dependency is lost or invented; shapes and effects are not guessed |
| AST graph (`ast_nodes/nodes.py`, `connection.py`) | nodes and connections | `predecessors`, `upstream_of` | all below | - |
| Validator (`checker/validator.py`) | issues; colours and stack of the search | five `validate_*`/`detect_*` passes | AST, symbol table | accepts nothing that breaks a later stage, reports nothing that is no fault |
| Reachability (`scope/symbol_table.py`) | stack, visited set | `can_reference` | validator | is the upstream closure, ends on any graph |
| Compiler (`compiler/workflow.py`, `dependency.py`) | counters, ready list, order | `resolve_all_dependencies`, `_execution_orders`, `_serialize_ir`, `check_workflow_settings` | all above | the order is the least topological one; the graph that validation lets through raises nowhere later |
| IR loader (`typed_ir.py`) | none | `validate_typed_ir`, digest | every consumer of the IR | accepts what the compiler emits; what it accepts has no dangling end and can be read |
| Types (`type_system/`, `node_decls.py`, `mappings.py`) | type trees | `_is_assignable`, (de)serialization | validator, loader | what is written is read back with its meaning; assignability |
| Manifest (`manifest.py`) | lists of resources, their binding states | `build_manifest` | compiler | each type of credential is listed once, as its first node gives it |
| Decompiler (`runtime/decompile.py`) | none | `decompile_to_workflow` | loader, deployment | is the inverse of parse and compile, up to a document that settles |
| Deployment (`runtime/deploy.py`) | the listing, the bindings, one HTTP exchange | `deploy_to_n8n` | an n8n instance, shared with editors and other deployers | no duplicates, credentials bound by name, nothing else overwritten |
| Matrix scripts (`scripts/execute_*.py`) | `ids.json`, result files, an ssh tunnel | deploy, execute, assert | deployment, remote host | a green assertion is about one round; retries redo only what failed |
| CLI (`cli.py`) | none | check, compile | all | exit code by kind of error, the output file survives a rejection |

The compiler itself is one sequential thread. What is hard in it is data
dependent: cyclic graphs, parallel connections, dropped notes, nodes that are in
the main flow and in AI connections at once, recursion depth, and that each
stage relies on the one before it. The same fields of a document are described
three times, by the writer, the loader and the reader, and the three can drift.
Concurrency, lost answers, timeouts and retries are in the deployment; crashes and
stale files between its commands in the matrix scripts; a process that may fail in
every way in the JS channel. `PROJECT.json` lists the hazards at their lines.

## 2. Modules

| Module | Models | Used by |
|---|---|---|
| `Ast` | nodes, main and non-main connections; reference definitions `Acyclic` and `Ancestors` | all graph modules |
| `TopoSort` | abstract specification of the execution order: place the least placeable node until none is left | `Kahn` refines it, `Compile` uses its step |
| `Kahn` | `_execution_orders`: counters, ready set, inner loop | `MCKahn`, `KahnProofs` |
| `DetectCycles` | `detect_cycles`: the recursive search in three colours, unrolled | `MCDetectCycles`, `DetectCyclesProofs` |
| `CanReference` | `SymbolTable.can_reference` | `MCCanReference`, `CanReferenceProofs` |
| `Compile` | `compile_ast` and the loader: Validate, Resolve, Place*, Emit, CheckSettings, Load | `MCCompile`, `CompileProofs` |
| `Parse` | `parse_workflow`: Adapt, Connect, Close, Bind | `MCParse`, `MCParser`, `ParserProofs` |
| `CodeBatch` | the Code nodes in `parse_workflow`: choice of script and mode, one Node.js process, adaptation | `MCCodeBatch`, `MCParser`, `ParserProofs` |
| `JsStatic` | the walks over a script: dependencies, warnings, effect, output shape, contract (operators only) | `CodeFlow` |
| `CodeFlow` | two Code nodes: binding of the dependencies, types of outputs, the issues about missing fields and lost dependencies | `MCCodeFlow`, `MCParser`, `ParserProofs` |
| `Expression` | `parse_value` and the binding of its result | `MCExpression`, `MCParser`, `ParserProofs` |
| `LoadIr` | `validate_typed_ir`, check by check, over a sound document and its edits | `MCLoadIr`, `MCDocument`, `DocumentProofs` |
| `NodeIr` | one node of a document as the compiler writes it, the loader describes it and `load_typed_node` reads it | `MCNodeIr`, `MCDocument`, `DocumentProofs` |
| `Manifest` | `build_manifest` | `MCManifest`, `MCDocument`, `DocumentProofs` |
| `Decompile` | `decompile_to_workflow`, in a loop with parsing and compiling | `MCDecompile`, `MCDocument`, `DocumentProofs` |
| `Cli` | `check` and `compile`: stages, exceptions, exit codes, the output file | `MCCli`, `MCDocument`, `DocumentProofs` |
| `WorkflowStore` | abstract specification of deployment: a call changes the store by one write at most, of its own document | `Deploy` implements it |
| `Deploy` | `deploy_to_n8n`, any number of callers, and an external n8n instance | `MCDeploy`, `DeployProofs` |
| `DeployMatrix` | `execute_deploy.py` and the assertion of `execute_matrix.py`: commands that share only files, crashes between any two steps | `MCDeployMatrix`, `DeployMatrixProofs` |
| `MCParser` | `Parse`, `Expression`, `CodeFlow` and `CodeBatch` in one run | run `parser` |
| `MCDocument` | `LoadIr`, `NodeIr`, `Manifest`, `Decompile` and `Cli` in one run | run `document` |

How state and actions correspond to the code:

- **Keys** are natural numbers; only equality and the order of Python's sort
  are used of the strings. **Lists of connections** are sets: no consumer
  depends on their order, and an identity listed twice is in the set `twice`.
- **Kahn.** `incoming`, `order` are the program's variables, `ready` its sorted
  list as a set whose least element is popped, `pending` what is left of
  `for successor in sorted(outgoing[current])`. The counters count connections.
- **DetectCycles.** `color` is `state`, `stack` the program's list, `todo[n]`
  the rest of the loop in the frame of `n`. Any order of nodes and successors is
  allowed. `MaxDepth` is the recursion limit; `Overflow` is `RecursionError`.
- **CanReference.** The stack is a set: duplicates on it are discarded when
  they are popped. Nodes may be missing, as dropped notes are.
- **Compile.** Each validator is the set of codes it reports; the graph
  algorithms inside appear as what the three modules above show them to compute.
  `fits` says whether path and type of a reference pass, `faulty` which Code
  nodes have an error. All validators run before anything is raised. `odd` are the values that no validator
  looks at: what `json.dumps` and `encode` refuse makes `Emit` end without a digest, and a setting that
  cannot be hashed makes `CheckSettings` raise. `Load` is the
  consumer's `validate_typed_ir`, which computes the main topology anew.
- **Parse.** `kind` keeps of a node what the parser tells apart, `rules` what
  `_declared_port_count` yields, `uses` the expressions, `fault` other errors of
  the JSON. Port `main_i` is `<<"main", i>>`.
- **Deploy.** `pc` is the request a call waits for, `channel` that request or
  its answer. `Fail` is every way a request ends in `ValueError`; it is possible at
  any time, before or after the instance has acted. `Late` lets a write whose
  client gave up be carried out later. Actions of the instance and of people in the
  editor are external: they do no more than the code reads out of the answers,
  and the instance's name filter is assumed to be exact.
- **CodeBatch.** A script is a model value or `Blank`; `Broken` scripts are the ones that
  get an error of their own: acorn refuses them, or they import or export. The answer of the process is any way it can fail (`Fail`) or the list of
  contracts by position. A node without a script in the batch gets its contract
  when it is adapted.
- **JsStatic, CodeFlow.** An access is a chain [root, arg, steps] with steps that are
  keys, indices, dynamic subscripts or calls; the walk of the tree meets the chain
  and each of its prefixes, so each is an access of its own (`Prefix`, `level_dep`). A
  return is the kind of its value and the scope it stands in; a literal is the sequence of its members, each of a
  `form`, for `object_props` takes a computed key for a name and skips a spread. What the script itself reads is
  defined apart from the code's unwrapping: `HasWrapper` says where n8n has the fields of an item, and a
  chain elsewhere (`items.length`, `item.binary.x`) is `Stray`. `CodeFlow` has the state
  of a parse (what is bound so far) and of the validators after it. `Visit` is one level of
  one chain, the outermost first; `Up` is the upstream node, kept to what it returns. What a level
  adds to the dependencies is a sequence of at most one.
- **Expression.** A value is text around a sequence of references, each a root, an
  accessor, the steps after it, each `.name`, `["name"]` or `[0]`, and whether something follows
  them (`more`); `Garbled` is the field name that the code makes of that rest. Where the code asks for a dot (`DotFirst`)
  a bracket leaves the expression unbound, or is read with `json` in front of it. `Pieces` is what `_split_path` makes of a
  name in brackets, `Words` the names that `_PURE_PATH_RE` takes.
- **LoadIr.** Each check is the set of its failures in the order of the code; `checked`
  lists the checks that passed. A document is kept to what relates its parts: keys, ends,
  types and ports of connections, scopes and orders, and for each part
  that is checked alone one value that passes and one that does not. The hierarchy and
  plain checks of JSON types are not in it.
- **NodeIr.** A JSON object is a function from its field names; an absent field is not in
  its domain. `Edit` changes a written node in up to `MaxEdits` places, as someone does who
  edits a document and signs it anew. `valid_*` is the loader, `*_from_dict` the reader.
  Code nodes are of three types (`CodeTypes`), and error policy
  and credentials are not read back. `ResolveOne` is one turn of the loop over the node's sources. A type is
  a tree, given by the set of its places, so that what recurses in `TypeInfo.to_dict` and `from_dict` is said of each place.
- **Manifest.** The sorted sets are sets, the list of credentials is a sequence,
  because its order decides which of two ids is kept. Both loops over the credentials are
  steps: `Credential` is the inner one, `NextNode` the outer.
- **Decompile.** `main_0` and `main` are different port names, numbers of ports come from
  the node's kind (`Multi`). A step is one round of a loop of the code: one port of `parse_workflow` is
  read, one open end joined to the exit, one connection restored, with the padding
  of the lists of its type; `Trips` trips are run.
- **Cli.** An input is the set of its faults. `Stage` raises for the first fault it
  meets in the order of the code; `Classes` gives the ancestors of an exception, `Clauses` the
  except clauses in their order, of which the first that matches gives the code.
- **DeployMatrix.** A call of `deploy_to_n8n` is its lookup and its write (`LookUp`, `Write`). A client that
  gives up (`GiveUp`: a timeout, a lost answer, a crash) may leave its write in `late`, from where it is carried out at any
  later time, in later commands too (`LateWrite`). `Clear` is `rmtree(ignore_errors=True)`:
  any of the old results may stay, and are then `kept`. The write of `ids.json` may fail (`FinishDeploy`).
  `Crash` ends a command between any two steps and leaves a torn file where it was writing.
  A result records the round, the id and the version of the workflow it was made from, which the files do not; a workflow
  the round that wrote it last, and the round and mode that created it; `lost` the writes that were given up
  while their fate was open. What a deployment prints is left out.

How the modules fit together:

- `Kahn` implements `TopoSort` (`ImplementsTopoSort`), and `Compile` places nodes by the steps
  of `TopoSort`. The mapping takes the placed nodes and the outcome as they are;
  inner-loop steps are stutters.
- `Deploy` implements `WorkflowStore` (`ImplementsStore`): Begin, Write and Return of a call,
  and deletions of others. `DeployMatrix` keeps of it the lookup and the write of a call, late
  writes included.
- `Compile` starts from what `Parse` ends in (`YieldsAst` states what `IsAst` asks).
- `CodeFlow` takes its contracts from `JsStatic`, as `parse_workflow` does from
  the batch of `CodeBatch`.
- `Compile` (topology), `LoadIr` (the document) and `NodeIr` (one node) are three views of the
  loader; each has the lines of `typed_ir.py` the others leave out.

- The stages of the parser share no variables with each other in the code: each takes what the one
  before it returned. So `MCParser` does not interleave them: its initial state picks one (`part`),
  whose actions run while the others rest. `MCDocument` is built in the same way. Every action of
  a stage is one disjunct of the next-state relation.

Each module keeps, before an operation, a faulty variant of it (`PopUnsorted`,
`StartByPredecessor`, ...). No run uses them; put in the place of the operation, each
makes a property fail, which shows that the property depends on the code.

## 3. Runs

| Run | Instance | States | Shows |
|---|---|---|---|
| `kahn` | all graphs on 4 nodes without self loops, one doubled edge, two possible sub-nodes | 122,224 | order least and topological, raise exact, implements `TopoSort`, its end included |
| `detect_cycles` | all graphs on 3 nodes with self loops and on 4 without, `MaxDepth = 3` | 476,194 | no issue iff acyclic, issues lie on cycles, one per knot, what a `RecursionError` means |
| `can_reference` | all graphs on 3 nodes, one may be missing, all pairs | 35,712 | answer is ancestry, ends |
| `can_reference_entry` | same | - | **violated**: docstrings say an entry node is referable from everywhere |
| `compile` | all graphs on 3 nodes and the exit, one AI connection, one reference, nothing or one connection out of the exit; without references, all odd values | 301,676 | late errors come from odd values alone, order respects references, the main flow loads |
| `compile_load` | same | - | **violated**: unknown connection types, and AI connections of notes, compile but do not load |
| `parser` | `Parse`: 3 nodes of any kind or one with the reserved name, which a connection may leave, up to 5 main connections on two outputs, one AI connection, one expression. `Expression`: all roots and accessors, up to two steps of the forms `.f`, `["f"]`, `["g.h"]` and `[0]`, alone, twice and in text. `CodeFlow`: 2 Code nodes, 24 chains (three of them stray), 14 returns (literals with spreads and computed keys among them), up to two of either. `CodeBatch`: up to 3 nodes out of 12 bodies, 4 kinds of edges | 2,407,970 | the AST is what `Compile` asks for, exactly the known ends stay open, what is bound is read and plain expressions are bound, reports are sound, each node has the contract of its own script, from one process |
| `parse_ends` | `Parse` as in `parser` | - | **violated**: an AI agent at the end of the flow is not joined to the exit |
| `deploy` | 2 deployers, 2 calls in all, 3 documents, all modes, up to 3 credentials, page size 1, 1 removal, late writes | 345,736 | bindings, implements `WorkflowStore` (one write per call, updates hit their name), calls end |
| `deploy_retry` | 1 deployer, 2 calls, late writes | - | **violated**: an upsert after a timeout makes a duplicate |
| `deploy_matrix` | 2 scenarios, 4 commands of either mode, one lost write, 3 workflows | 1,376,735 | green means what it says but for results that could not be removed, upserts duplicate nothing but lost POSTs, deployments end |
| `document` | `LoadIr`: a sound document and all that differ from it in up to two of 9 parts. `NodeIr`: generic and Code nodes (those of AI flows included) over 5 types, 4 references (up to 3 at once), 3 policies, 2 contracts, up to 2 edits. `Manifest`: all workflows of up to 3 nodes out of 15 shapes. `Decompile`: an IF node, a plain node, two ends, up to three groups of connections with gaps, 3 orders, 4 policies, 3 trips. `Cli`: up to two of 14 faults, with and without scripts, bridge working or not | 240,649 | accepted documents are sound, what is written is accepted and read with its meaning but for error policy and credentials, each type of credential is listed once, trips lose nothing and settle after two, check and compile agree, a rejected input leaves the file |

Why the bounds are enough to be interesting: four nodes hold a diamond, a cycle
beside an acyclic part, and a path that bypasses another; a counter needs three
connections into one node to be off by one, which four nodes and a doubled
edge give. Three nodes hold two cycles that share a node. One reference is enough
for `Compile`, because references are checked one by one. Credentials on
pages of one make three pages, so the list changes between them. `MaxCalls`,
`MaxCredentials`, `MaxRemovals` bound `Deploy` only in their guards; `MaxCalls` is of all deployers
together, so the two calls of `deploy` are one after the other or at once. Four commands of
`DeployMatrix` (`MaxCommands`) hold a deployment that fails or is killed, its repetition, an
execution and an assertion; two scenarios hold one that succeeds beside one that fails. `MaxLost` and
`MaxWorkflows` bound the writes that are given up and the instance, in their guards: one lost POST, carried out
during or after the repetition, makes the duplicate of an upsert, and three workflows hold it beside the two others. Two
accesses and two returns hold every order of a walk that keeps the first or the last of
them. Two faults hold every race between two checks or two clauses. Two edits of a document
hold a pair that each check accepts alone (a dropped connection and an order without its end).
Three references of a node hold two in one bucket beside one in the other. A decompiled
document settles after two trips, and a third shows that it does. Three nodes hold a
credential before, between and after the two of the same type.
Symmetry is not used: keys are ordered, or the instances are enumerated already.

Deadlock is checked in `parser` and `document`, whose stages end in a step that stutters
(`ExprFinished`, `LoadFinished`, ...), and not where the code or its operator simply stops (the cfg
says what stops).

Some properties are not in the runs because another one holds only if they do: that `Kahn` ends and
places no node twice is part of `ImplementsTopoSort`, that a call of `Deploy` writes at most once is
part of `ImplementsStore`. The inductive invariants of the proofs (`IInv`, `ParseInv`, `CountersExact` and their parts)
are proved rather than run.

**Fairness.** The sequential modules have `WF_vars(Next)`: one thread does not
stop between two statements; the modules of this kind without a liveness property state
none. In `Deploy` only the clients are fair,
`WF_vars(Client(d))`: `urlopen` has a timeout, so a client does not wait for ever;
nothing is assumed of the instance, which may never answer. That calls end also
rests on a bounded number of credentials: the listing follows cursors as long as it is
given any. In `DeployMatrix` fairness is of a deployment only: `WF_vars(Abort)`, for waiting
for the tunnel and the instance has a deadline, `WF_vars(DeployFails)`, for each request has a
timeout and a failure moves the loop on, and `WF_vars(FinishDeploy)`. Nothing is assumed of
success, nor of an execution, whose ssh has no timeout, nor of the operator.

### Divergences

The four violated runs are described in `PROJECT.json` under `findings`, with the lines of code and
the sentences they contradict. Others were met while the models were written. The models have
the behaviour of the code in each of them, and no run asks for what the text says:

| Code | What it does | What is said |
|---|---|---|
| `scripts/execute_deploy.py:101`, `:194` | a retry deploys every scenario again, in mode create by default | `:121`: a retry only fills in the failed scenarios |
| `scripts/execute_deploy.py:151` | `rmtree(ignore_errors=True)` leaves the results it cannot remove, and such a file may turn an assertion green | `:150`: no file of the last round is left for assert to misread; `:16` |
| `scripts/execute_deploy.py:124` | `len(ids) - failures`: one success and one failure are reported as 0/1 | `:125`: so many of so many succeeded |
| `parser/workflow.py:235`, `:257` | a sticky note named `__exit__` is dropped before the name is checked, and its connections then belong to the exit node | `:258-260`: a user's node of the reserved name must fail explicitly |
| `jscode/js_ast.py:73-121` | a chain through a call, `$input.first().json.x`, is dropped without a warning | `:77-79`: callers surface a warning instead of dropping it silently |
| `jscode/js_ast.py:32-41` | `axios()` is warned of as network access and classified as pure | `jscode/contract.py:16`: pure means no network |
| `checker/validator.py:262-270` | a field below a property of type any is reported as missing | `:259`: missing only if the properties are known |
| `checker/validator.py:254`, `jscode/js_ast.py:246-259` | the key of `{[k]: 1}` is taken for the name `k` and a spread is skipped, so fields that the literal has are reported as missing | `checker/validator.py:259`: missing only if the properties are known |
| `jscode/js_ast.py:117` | `items.length` and `item.binary.x` are bound as fields of the item | `docs/ir-schema.md:305`, `jscode/contract.py:40`: input dependencies with the path of a field |
| `parser/node_adaptors.py:57-60` | a `pythonNative` node with a left-over `jsCode` is compiled as JavaScript | `README.md:137`: not supported, with an exact error |
| `cli.py:24`, `parser/workflow.py:40` | `{"workflow": [1]}`, or a list directly in a list of parameters, ends with 1 by an `AttributeError` | `cli.py:81`: 2 for errors of the input |
| `cli.py:21` | `1e999` becomes infinity, passes check and fails at the digest in compile | `:19-20`: rejected up front, not late |
| `compiler/workflow.py:63` | a list in the settings makes the membership test raise and ends compile with 2 | `:48`: a warning that does not stop the compilation |
| `parser/expression.py:96-100` | `$node["A"].json.x + 1` is a reference to the field `x + 1` | `:8`: any other expression is UNKNOWN |
| `parser/expression.py:96`, `:136` | `$node["A"].json["x"]` and `$json["x"]` stay unknown | `:70`: brackets are read as dots; `:131`: a path of dots or subscripts |
| `parser/expression.py:147-155` | `$input.item.json["x"]` is the field `json.x` of the input, `$input.item.json + 1` the field `json + 1` | `:144`: `.json` may follow the item; `:8`: any other expression is UNKNOWN |
| `parser/expression.py:72` | a field in brackets is parted at the dots of its name | `:70`: `['a']['b']` and `.a.b` are the same path |
| `parser/expression.py:186` | a template of two references matches as one expression | `:182`: the first reference is taken |
| `typed_ir.py:341-351` | a document without a scope, or with two, is accepted | `docs/ir-schema.md:479` (R9): a single scope |
| `typed_ir.py:151-153` | a second node of type `synthetic.exit` is accepted | `docs/ir-schema.md:473` (R3): exactly one |
| `typed_ir.py:122` | the digest is verified after the header, before the rest | `docs/ir-schema.md:482` (R12): after all other validations |
| `ast_nodes/mappings.py:84-115` | error policy and credentials are not read back | `:111-112`: no dictionary need be kept beside the node |
| `typed_ir.py:206-208` | an effect, runtime or output kind outside the enumerations is accepted, and raises in the reader (`ast_nodes/mappings.py:123`) | `docs/ir-schema.md:17`: strict and self-validating |
| `typed_ir.py:237-240` | `"variable_type": null` is refused | `docs/ir-schema.md:200`: the schema's own example has it |
| `manifest.py:141-148` | a status may be `declared` or `not_required` | `docs/ir-schema.md:430`: all values are `lazy_deferred` |
| `manifest.py:69-74`, `:128-130` | a model or a webhook's path given as an object (a resource locator) is not listed, and its kind may be called `not_required` | `:4-6`: resource ids are taken from the parameters |
| `manifest.py:92-93` | of two credentials of one type the first is listed | `docs/ir-schema.md:437`: credential references by id |

## 4. Proofs

The theorems are about the graph algorithms, the compiler's pipeline, the four stages of the parser, the
loader, the node in a document, the manifest, the decompiler, the command line, the deployment and its matrix. They hold for every value of the constants that the named assumptions
allow, not only for the instances above: for every finite set of nodes and every graph on it
(`AstAssumption`), any workflow in JSON (`ParseAssumption`: the exit's key is a key, the markers are
none, the registry declares a Switch with two outputs or more), every value of a parameter
(`ExpressionAssumption`: a word is one piece), every list of nodes with scripts (`CodeBatchAssumption`: of two
scripts only LangChain Code nodes have both), any two scripts that are lists of chains and returns
(`CodeFlowAssumption`: the nodes differ, no property of a literal has the type that stands for none), any document whose nodes,
connections and orders are lists (`LoadIrAssumption`), every declaration of a node that the code's classes allow
(`NodeIrAssumption`: types are trees of the known data types and of any depth, variables, effects and kinds of
output are those of the enumerations, a Code node of any of the three types has a contract), every list of nodes with lists of credentials
(`ManifestAssumption`), any workflow whose connections are
lists under ports of its nodes (the assumption of `Decompile`), every combination of the faults of an input (`CliAssumption`: only scripts
can be too deep), any number of deployers, documents, modes and credential
maps (`DeployAssumption`), and any list of scenarios (`MatrixAssumption`). No assumption bounds a
set that the code does not; the caps `MaxCalls`, `MaxCredentials`, `MaxRemovals`, `MaxCommands`, `MaxLost`,
`MaxWorkflows` are arbitrary numbers. What is true of the sequential stages is a function of their input, so their
invariants say what each stage has made of it; those of the deployment say what other actors cannot take away.

- **Kahn.** `IInv` adds to the properties that the counter of a node is the
  number of its connections that are not yet accounted for (`Waiting`), that `ready`
  holds exactly the unplaced nodes with counter 0, that the source of a pending
  connection is placed, and that the placed nodes are acyclic. Without the first
  two nothing bounds the counters from below, and without the last the returned
  order would say nothing about cycles. A raise means that the unplaced nodes all
  have an unplaced predecessor, which is a cycle in the sense of `Acyclic`. From
  `IInv`, `Pop` is a step of `TopoSort` (`ready` is `Placeable` between two inner
  loops), `Relax` a stutter, `Finish` its `Stop`.
- **DetectCycles.** The stack is a path of different nodes, exactly the grey ones (`StackIsPath`). A
  connection that was looked at leads to a node that was left or to the next on the stack, unless
  its start is reported (`LookedAt`); hence the left nodes without the reported ones are acyclic. Without the
  exception for reported nodes the clause would not survive a back edge, and nothing could be said of
  what the search does after its first issue. From it: no issue means acyclic (`CleanIsAcyclic`),
  every knot of cycles has an issue of its own (`NoKnotIsMissed`: the nodes of a knot are a set without
  a source, so one of them is reported), an issue closes a path on the stack (`IssuesAreAlwaysOnCycles`), and
  an overflow leaves `MaxDepth` different nodes on it (`OverflowIsAlwaysDeep`).
- **CanReference.** What has been met lies upstream of the target and contains
  the predecessors of everything visited; when the stack is empty it is closed
  upstream and hence the whole closure.
- **Compile.** Neither Resolve nor Place can raise on a clean AST, so a late error is one of Emit's digest or of
  CheckSettings (`GraphErrorsAreFoundEarly`). `Clean` is what an AST without issues satisfies: ends known, acyclic,
  every reference upstream of its target, none to itself. It holds from
  validation on. The order built so far contains the predecessors of all it
  contains, which `AncestorsLeast` turns into "all ancestors stand earlier", and
  with it the theorem about dependencies over any number of hops.

- **Parse.** `ParseInv` gives the AST of each stage in terms of the raw workflow: `Drawn`, the user's
  connections under their port names, and `Closing`, those from the open ends to the exit. That renaming
  outputs merges nothing is a lemma about `main_connection` (`AsManyAsDrawn` counts), that exit connections
  hit none of the user's follows because an open end has no successor. `YieldsAst` is the hypothesis `IsAst` of
  `Compile`, so the theorems about the compiler start where those about the parser end.
- **Expression.** `ExprInv`: the parsed reference is `parse_value` of the value and the binding is a
  function of it. The proof is a case split over the roots (`ParsedIs`): of a root only one of the three
  parsers yields anything, and a path from `$json` is never a garbled one, nor one that is parted, for it consists of words. That
  a plain expression binds exactly what it reads follows from the dot in front of its first field.
- **CodeBatch.** `BatchInv` follows a node through the two loops: `Gathered`, each node looked at with a script
  has its job; `Cached`, the contract under a name is that of a job of the name; `Adapted`, the nodes adapted so
  far have different names. The last is what makes a cache by name sound: of two nodes of one name the second
  raises, so the one job of the name is the node's own (`ContractsAreOwn`). That the loops agree on which nodes
  have a script at all (`CodeSourceIs`), though they may disagree on which of two, gives `OneProcessAlways`.
- **CodeFlow.** `FlowInv` has one part for each of the three lists the stage builds, and each part has two
  halves, nothing is there without a reason and nothing with a reason is missing: `Found` of the dependencies against the levels
  visited, `Bound` of the sources against the dependencies, `Reported` of the issues against the sources. The first
  halves give `SourcesAreAlwaysReads`, by a lemma about the walk: of a chain that starts at the input only its tip
  records anything, for the accessors in front of the fields belong to the root (`LevelOfInput`); what it records is the
  field if the chain does not stray, and if some chain does, only that no read is missing is claimed. The
  second halves give `GhostsAreReported`, as level 0 of a named node is a dependency of its own. That an unknown
  shape is never reported, and a simple one exactly, are about the output shape: the last return
  with a literal that the scan meets has a greatest index (`GreatestIndex`), or there is none.
- **LoadIr.** `LoadInv`: the checks that were passed hold of the document, which does not change, and
  acceptance is behind all nine of them. What follows is about the checks: keys that differ from all earlier
  ones are as many as the nodes (`KeysAreDistinct`, a bijection), and a list without repetitions that
  contains exactly the main topology has one place for each of its nodes and none for another (`OnePlace`).
- **NodeIr.** `DependencyInv`: each bucket lists the sources resolved so far that belong there, in their order (`OneMoreListed`,
  `BucketGrows`). An object that was not edited is `node_to_dict` of the node, so what the loader says of it
  and what is read from it (`AllButPolicyAndCredentialsComesBack`) are lemmas about the writer: `NodePasses` goes through the loader's lists of fields,
  `NodeComesBack` through the reader's defaults. For types the argument is by places: a place is read if its parent's
  fields name its step, which the writer puts there for each place below (`StepIsWritten`), so no induction over
  the depth is needed (`TypeComesBack`). `EnumerationsHold` is for the edited objects: only the edits that set a value
  can bring an effect or a kind of output that the reader does not know, for a dropped field has a default that it knows (`DropLeaves`). Without
  that clause nothing would be known of an object with two edits.
- **Manifest.** `ManifestInv` says what m nodes and o credentials of the next one have come to: each type of credential met is
  listed (`EachTypeListed`), once (`OncePerType`), by the first node to use it (`GivenFirst`). The last needs the
  first of the three: a type that is not listed yet was used by no earlier node.
- **Decompile.** `TripInv` follows a connection from where it was drawn. A place is an entry, a port of it and a
  position in it; `Traced` says of a list of connections that each is that of its place, that the places
  are all those read so far, that none occurs twice, and that they come in their order, those of main before the others
  (`Precedes`). `ParseInv` has it of
  both lists while they are read, `RestoreInv` of the document, where places of different types never share a
  port, so joining the two lists keeps the order (`TracedConcat`). `Restoring` is the reverse: what an output has been given back is the beginning of
  what it had, as long as the connections of its places that were consumed. At the end the beginning is all of it, whichever
  order the sources came in. The targets are compared with those of the given workflow, so this holds over any number of
  trips without an induction over them.
  `SettleInv` adds the order of what the trip writes. A list with the members of a set in the order of their places
  is unique (`OneInOrder`), so one workflow has one document (`Written`, `WrittenOnce`), and it is enough that
  the workflow stays as it is from the second trip on. What `decompile_to_workflow` has built is `Canonical`,
  entries of a source next to each other, the main one first, sources without a main one last, and `Tight`, without an
  empty list at the end of its ports. Restored from a document of canonical entries, they come `InTurn`
  and keep their order (`OrderPut`), and entries with the same targets in the same order without empty ends are
  the same (`SameEntries`). Names, policy and settings of a decompiled workflow are their own decompilation
  (`Normal`, `DecompiledAgain`).
- **Cli.** `CliInv`: what a stage looks for is absent from the input when the next one is reached (`RuledOut`), and
  every exit code is deserved (`Deserved`): 1 only for a fault of the workflow, 0 only without one. As the
  input is the same for both commands, their codes cannot contradict each other, whichever ran first.
  `ExitCodes` gives the code of each exception through the classes and clauses of `main`.
- **Deploy.** `Addressed`: an id in a request, in an answer or in a write that is still under way is
  that of a workflow with the name its client meant; names and positions do not change, so no step of
  another can make it false. `OneWrite`: at most one write of a call is out or done. `Bindings`: what was
  listed is a prefix of the vault, which only grows, so the oldest credential of a name stays it. Together they
  give `BindingsAlwaysHold` and, step by step, `DeployImplementsStore`: a write that is carried out is the
  store's Write whether or not its client still waits.
- **DeployMatrix.** The invariant compares rounds. What a workflow was last written by is the deployment that `ids.json`
  is of, or an earlier one that gave up on the write (`Versions`, `Fresh`); results that are not kept are of one
  round, that of the execution that runs or ran last (`Kept`, `Ran`); `Asserted` keeps the verdict. `Named` is
  needed for both: a late write keeps the name of what it writes. `Told` says that a deployment that gave up on a write does not
  return 0, so the write is an earlier one's. `GreenIsAlwaysTrue` joins these. `UpsertsDuplicateLostPostsOnly` rests on `Once`: an upsert
  that found nothing posts, and a workflow of the name that turns up between its lookup and its write can only be
  a late one.

`ParseTypes`, `ExprTypes`, `BatchTypes`, `LoadTypes`, `NodeTypes`, `ManifestTypes`, `TripTypes` and `CliTypes` state the types of the
sequential stages; `ParseTypes` assumes that `Ports` and `Indices` hold what the editor can draw.

Only model checked, and why:

- all liveness properties (that the search and the order end, that calls and deployments end) and the
  liveness half of the refinements: the prover has neither fairness nor ENABLED;
- `FlowTypeOK`, the types of `CodeFlow`, which no other proof needs;
- `MCParser!TypesOK` and `MCDocument!TypesOK`, which join the types of several modules.

## 5. Not modelled, and the plan

Not modelled, and why:

- **Scopes and symbols** (`scope/scope.py`, `symbol.py`): filled by the parser and never
  looked up; only `can_reference` is.
- **`_is_assignable`** and the structural comparison of types: a pure function whose result is
  the flag `fits` of a reference.
- **`_entry_keys`** and the settings warnings' texts: no later stage depends on them. That the
  settings check can raise is in `Compile` and `Cli`.
- **The registry's tables** (`node_type.py`) and the scenarios of `execute_matrix.py`: data.
- **`execute_verify.py`**, ssh and docker commands: input and output only; how they fail is in
  `DeployMatrix`.
- **The payload of a script** and acorn itself: the tree is the input of `JsStatic`.
- **SHA-256 and canonical JSON**: a digest matches or does not; that `1e999` has none is in `Compile` and `Cli`.
- **Texts of messages, tests and coverage tooling.**

Next: the composition of parser and compiler as one theorem, that the AST of `Parse` satisfies `IsAst`.
