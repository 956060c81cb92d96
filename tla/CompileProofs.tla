---------------------------- MODULE CompileProofs ----------------------------
(***************************************************************************)
(* Proofs about Compile, for every AST the parser can return.              *)
(***************************************************************************)
EXTENDS Compile, SequenceTheorems, FiniteSetTheorems, TLAPS

(* The operators that depend on the AST alone do not change.               *)
LEMMA SameAst ==
  ASSUME UNCHANGED ast
  PROVE  /\ members' = members
         /\ IsAst' = IsAst
         /\ Clean' = Clean
         /\ \A n : predecessors(connections, n)' = predecessors(connections, n)
BY DEF ast, members, ai_only_subnodes, Endpoints, IsAst, IsConnections, Clean, Acyclic,
       predecessors, can_reference, UpstreamEdges, Ancestors, IsUpstreamClosed

(* The only use made of Acyclic: it is a property of any smaller set too.  *)
LEMMA FirstOf ==
  ASSUME Clean, NEW S \in SUBSET nodes, S # {}
  PROVE  \E n \in S : predecessors(connections, n) \cap S = {}
BY DEF Clean, Acyclic

LEMMA InitInv == Init => IInv
<1> SUFFICES ASSUME Init PROVE IInv
  OBVIOUS
<1>1. /\ IsAst /\ issues = {} /\ direct = {} /\ indirect = {}
      /\ order = <<>> /\ phase = "validate"
  BY DEF Init, Start
<1>2. Len(order) = 0 /\ Range(order) = {}
  BY <1>1 DEF Range
<1>3. Cardinality(Range(order)) = 0
  BY <1>2, FS_EmptySet
<1>4. TypeOK
  BY <1>1 DEF TypeOK
<1>5. QED BY <1>1, <1>2, <1>3, <1>4 DEF IInv, Emitted, OnlyValuesRaiseLate, LateError, RefusedOnlyForAi

(* A reference that passed every check is to another node of its closure.  *)
LEMMA CleanReference ==
  ASSUME NEW r \in Ref, r.target \in nodes, nodes \in SUBSET Nodes, reference_issue(r) = {}
  PROVE  /\ r.source # Global => can_reference(r.source, r.target)
         /\ r.source # r.target
<1>1. CASE r.source = Global
  BY <1>1, CompileAssumption
<1>2. CASE r.source # Global
  <2>1. r.source \in Nodes
    BY <1>2 DEF Ref
  <2>2. CASE r.source \notin nodes
    <3>1. reference_issue(r) = {"referenced_node_missing"}
      BY <1>2, <2>1, <2>2 DEF reference_issue
    <3>2. QED BY <3>1
  <2>3. CASE r.source = r.target
    <3>1. reference_issue(r) = {"self_reference_in_field_mapping"}
      BY <1>2, <2>3 DEF reference_issue
    <3>2. QED BY <3>1
  <2>4. CASE r.source \in nodes \ {r.target}
    <3>1. reference_issue(r) =
            IF ~ can_reference(r.source, r.target) THEN {"reference_not_reachable"}
            ELSE IF r.fits THEN {} ELSE {"type_mismatch"}
      BY <1>2, <2>4 DEF reference_issue
    <3>2. QED BY <2>4, <3>1
  <2>5. QED BY <2>1, <2>2, <2>3, <2>4
<1>3. QED BY <1>1, <1>2

(* What the validators leave.                                              *)
LEMMA NoIssuesMeansClean ==
  ASSUME IsAst,
         validate_syntax \cup validate_connections \cup detect_cycles
           \cup validate_references \cup validate_node_semantics = {}
  PROVE  Clean
<1>1. \A c \in connections : c.from_node \in nodes /\ c.to_node \in nodes
  <2>1. ASSUME NEW c \in connections, c.from_node \notin nodes PROVE FALSE
    <3>1. "unknown_source_node" \in validate_connections
      BY <2>1 DEF validate_connections
    <3>2. QED BY <3>1
  <2>2. ASSUME NEW c \in connections, c.from_node \in nodes, c.to_node \notin nodes PROVE FALSE
    <3>1. "unknown_target_node" \in validate_connections
      BY <2>2 DEF validate_connections
    <3>2. QED BY <3>1
  <2>3. QED BY <2>1, <2>2
<1>2. Endpoints(connections) \subseteq nodes
  BY <1>1 DEF Endpoints
<1>3. Acyclic(connections, nodes)
  <2>1. {c \in connections : c.from_node \in nodes /\ c.to_node \in nodes} = connections
    BY <1>1
  <2>2. detect_cycles = IF Acyclic(connections, nodes) THEN {} ELSE {"cycle_detected"}
    BY <2>1 DEF detect_cycles
  <2>3. QED BY <2>2
<1>4. \A r \in refs : /\ r.source # Global => can_reference(r.source, r.target)
                      /\ r.source # r.target
  <2> SUFFICES ASSUME NEW r \in refs
               PROVE  /\ r.source # Global => can_reference(r.source, r.target)
                      /\ r.source # r.target
    OBVIOUS
  <2>1. r \in Ref /\ r.target \in nodes /\ nodes \in SUBSET Nodes
    BY DEF IsAst
  <2>2. reference_issue(r) = {}
    BY DEF validate_references
  <2>3. QED BY <2>1, <2>2, CleanReference
<1>5. QED BY <1>2, <1>3, <1>4 DEF Clean

LEMMA ValidateInv == IInv /\ Validate => IInv'
<1> SUFFICES ASSUME IInv, Validate PROVE IInv'
  OBVIOUS
<1>1. /\ phase = "validate"
      /\ phase' \in {"resolve", "invalid"}
      /\ UNCHANGED <<ast, direct, indirect, order>>
      /\ issues' = validate_syntax \cup validate_connections \cup detect_cycles
                   \cup validate_references \cup validate_node_semantics
  BY DEF Validate
<1>2. IsAst
  BY DEF IInv, TypeOK
<1>3. phase' = "resolve" => Clean
  BY <1>2, NoIssuesMeansClean DEF Validate
<1>4. /\ validate_syntax \subseteq {"duplicate_edge", "self_referencing_edge"}
      /\ validate_connections \subseteq {"unknown_source_node", "unknown_target_node"}
      /\ detect_cycles \subseteq {"cycle_detected"}
      /\ validate_node_semantics \subseteq
           {"entry_node_has_input_sources", "self_reference_in_field_mapping", "code_error"}
  BY DEF validate_syntax, validate_connections, detect_cycles, validate_node_semantics
<1>5. validate_references \subseteq
        {"global_variable_path_empty", "referenced_node_missing",
         "self_reference_in_field_mapping", "reference_not_reachable", "type_mismatch"}
  <2> SUFFICES ASSUME NEW r \in refs
               PROVE  reference_issue(r) \subseteq
        {"global_variable_path_empty", "referenced_node_missing",
         "self_reference_in_field_mapping", "reference_not_reachable", "type_mismatch"}
    BY DEF validate_references
  <2>1. r.source = Global \/ r.source \in Nodes \ nodes \/ r.source = r.target
        \/ r.source \in nodes \ {r.target}
    BY <1>2 DEF IsAst, Ref
  <2>2. QED BY <2>1 DEF reference_issue
<1>6. TypeOK'
  <2>1. IsAst' /\ members' = members
    BY <1>1, <1>2, SameAst
  <2>2. (issues \subseteq {"duplicate_edge", "self_referencing_edge", "unknown_source_node",
                       "unknown_target_node", "cycle_detected", "referenced_node_missing",
                       "global_variable_path_empty", "self_reference_in_field_mapping",
                       "reference_not_reachable", "type_mismatch",
                       "entry_node_has_input_sources", "code_error"})'
    BY <1>1, <1>4, <1>5
  <2>3. (direct \subseteq refs /\ indirect \subseteq refs /\ order \in Seq(members))'
    BY <1>1, <2>1 DEF IInv, TypeOK, ast
  <2>4. (Emitted \/ Ended \/ phase \in {"validate", "resolve", "order"})'
    BY <1>1 DEF Ended
  <2>5. QED BY <2>1, <2>2, <2>3, <2>4 DEF TypeOK
<1>7. QED BY <1>1, <1>3, <1>6, SameAst
      DEF IInv, Emitted, OnlyValuesRaiseLate, LateError, RefusedOnlyForAi

LEMMA ResolveInv == IInv /\ Resolve => IInv'
<1> SUFFICES ASSUME IInv, Resolve PROVE IInv'
  OBVIOUS
<1>1. /\ phase = "resolve"
      /\ UNCHANGED <<ast, issues, order>>
      /\ direct' \cup indirect' = {r \in refs : r.source # Global}
  BY DEF Resolve
<1>2. Clean
  BY <1>1 DEF IInv
<1>3. phase' = "order"
  BY <1>2 DEF Resolve, Clean
<1>4. TypeOK'
  BY <1>1, <1>3, SameAst DEF IInv, TypeOK, Emitted, Ended, LateError, ast
<1>5. QED BY <1>1, <1>2, <1>3, <1>4, SameAst
      DEF IInv, Emitted, OnlyValuesRaiseLate, LateError, RefusedOnlyForAi

LEMMA PlaceInv == IInv /\ Place => IInv'
<1> SUFFICES ASSUME IInv, Place PROVE IInv'
  OBVIOUS
<1>1. PICK n \in Placeable : order' = Append(order, n)
  BY DEF Place
<1>2. /\ phase = "order"
      /\ UNCHANGED <<ast, issues, direct, indirect, phase>>
  BY DEF Place
<1>3. /\ n \in members /\ n \notin Range(order)
      /\ predecessors(connections, n) \cap members \subseteq Range(order)
      /\ order \in Seq(members) /\ Len(order) \in Nat
  BY <1>1 DEF Placeable, IInv, TypeOK
<1>4. /\ order' \in Seq(members)
      /\ Len(order') = Len(order) + 1
      /\ \A i \in 1..Len(order) : order'[i] = order[i]
      /\ order'[Len(order) + 1] = n
      /\ Range(order') = Range(order) \cup {n}
  <2>1. /\ Append(order, n) \in Seq(members)
        /\ Len(Append(order, n)) = Len(order) + 1
        /\ \A i \in 1..Len(order) : Append(order, n)[i] = order[i]
        /\ Append(order, n)[Len(order) + 1] = n
    BY <1>3, AppendProperties
  <2>2. Append(order, n) = order \o <<n>> /\ <<n>> \in Seq(members)
    BY <1>3, AppendIsConcat
  <2>3. Range(<<n>>) = {n}
    BY DEF Range
  <2>4. Range(Append(order, n)) = Range(order) \cup {n}
    <3>1. order \in Seq(members)
      BY <1>3
    <3>2. Range(order \o <<n>>) = Range(order) \cup Range(<<n>>)
      BY <2>2, <3>1, RangeConcatenation
    <3>3. QED BY <2>2, <2>3, <3>2
  <2>5. QED BY <1>1, <1>3, <2>1, <2>4, LenProperties
<1>5. TypeOK'
  BY <1>2, <1>4, SameAst DEF IInv, TypeOK, Emitted, Ended, LateError, ast
<1>6. (Len(order) = Cardinality(Range(order)))'
  <2>1. IsFiniteSet(Range(order))
    <3>1. Range(order) \subseteq Nodes
      BY <1>3, RangeOfSeq, RangeEquality DEF members, IInv, TypeOK, IsAst
    <3>2. QED BY <3>1, AstAssumption, FS_Subset
  <2>2. Cardinality(Range(order) \cup {n}) = Cardinality(Range(order)) + 1
    BY <1>3, <2>1, FS_AddElement
  <2>3. QED BY <1>4, <2>2 DEF IInv
<1>7. ASSUME NEW j \in 1..(Len(order) + 1),
             NEW p \in predecessors(connections, order'[j]) \cap members
      PROVE  \E i \in 1..(j - 1) : order'[i] = p
  <2>1. CASE j \in 1..Len(order)
    <3>1. PICK i \in 1..(j - 1) : order[i] = p
      BY <1>4, <1>7, <2>1 DEF IInv
    <3>2. i \in 1..Len(order)
      BY <1>3, <2>1
    <3>3. QED BY <1>4, <3>1, <3>2
  <2>2. CASE j = Len(order) + 1
    <3>1. p \in Range(order)
      BY <1>3, <1>4, <1>7, <2>2
    <3>2. PICK i \in 1..Len(order) : order[i] = p
      BY <1>3, <3>1, RangeOfSeq, RangeEquality
    <3>3. QED BY <1>3, <1>4, <2>2, <3>2
  <2>3. QED BY <1>3, <2>1, <2>2
<1>8. QED BY <1>2, <1>4, <1>5, <1>6, <1>7, SameAst
      DEF IInv, Emitted, OnlyValuesRaiseLate, LateError, RefusedOnlyForAi

LEMMA EmitInv == IInv /\ Emit => IInv'
<1> SUFFICES ASSUME IInv, Emit PROVE IInv'
  OBVIOUS
<1>1. /\ phase = "order" /\ Placeable = {}
      /\ UNCHANGED <<ast, issues, direct, indirect, order>>
  BY DEF Emit
<1>2. Clean /\ order \in Seq(members)
  BY <1>1 DEF IInv, TypeOK
<1>3. Range(order) = members
  <2>1. Range(order) \subseteq members
    BY <1>2, RangeOfSeq, RangeEquality
  <2>2. SUFFICES ASSUME members \ Range(order) # {} PROVE FALSE
    BY <2>1
  <2>3. members \ Range(order) \in SUBSET nodes
    BY DEF members
  <2>4. PICK n \in members \ Range(order) :
          predecessors(connections, n) \cap (members \ Range(order)) = {}
    BY <1>2, <2>2, <2>3, FirstOf
  <2>5. n \in Placeable
    BY <2>4 DEF Placeable
  <2>6. QED BY <1>1, <2>5
<1>4. phase' \in {"digest_error", "emitted"} /\ (phase' = "digest_error" => odd # {})
  BY <1>3 DEF Emit
<1>5. TypeOK'
  BY <1>1, <1>4, SameAst DEF IInv, TypeOK, Emitted, Ended, LateError, ast
<1>6. OnlyValuesRaiseLate'
  BY <1>1, <1>4 DEF OnlyValuesRaiseLate, LateError, ast
<1>7. QED BY <1>1, <1>2, <1>3, <1>4, <1>5, <1>6, SameAst DEF IInv, Emitted, RefusedOnlyForAi

LEMMA CheckSettingsInv == IInv /\ CheckSettings => IInv'
<1> SUFFICES ASSUME IInv, CheckSettings PROVE IInv'
  OBVIOUS
<1>1. /\ phase = "emitted" /\ phase' \in {"settings_error", "compiled"}
      /\ phase' = "settings_error" => odd # {}
      /\ UNCHANGED <<ast, issues, direct, indirect, order>>
  BY DEF CheckSettings
<1>2. TypeOK'
  BY <1>1, SameAst DEF IInv, TypeOK, Emitted, Ended, LateError, ast
<1>3. OnlyValuesRaiseLate'
  BY <1>1 DEF OnlyValuesRaiseLate, LateError, ast
<1>4. QED BY <1>1, <1>2, <1>3, SameAst DEF IInv, Emitted, RefusedOnlyForAi

LEMMA LoadInv == IInv /\ Load => IInv'
<1> SUFFICES ASSUME IInv, Load PROVE IInv'
  OBVIOUS
<1>1. /\ phase = "compiled" /\ phase' \in {"accepted", "refused"}
      /\ UNCHANGED <<ast, issues, direct, indirect, order>>
      /\ Loadable => phase' = "accepted"
  BY DEF Load
<1>2. Clean /\ Range(order) = members /\ Len(order) = Cardinality(Range(order)) /\ Exit \in nodes
  BY <1>1 DEF IInv, Emitted, TypeOK, IsAst
<1>3. members = main_topology_nodes
  BY DEF members, main_topology_nodes, ai_only_subnodes
<1>4. ~ Loadable => foreign # {} \/ ~ (Endpoints(ai_connections) \subseteq nodes)
  BY <1>2, <1>3 DEF Loadable, Clean
<1>5. TypeOK'
  BY <1>1, SameAst DEF IInv, TypeOK, Emitted, Ended, LateError, ast
<1>6. RefusedOnlyForAi'
  BY <1>1, <1>4 DEF RefusedOnlyForAi, ast, Endpoints
<1>7. QED BY <1>1, <1>2, <1>5, <1>6, SameAst DEF IInv, Emitted, OnlyValuesRaiseLate, LateError

LEMMA StutterInv == IInv /\ UNCHANGED vars => IInv'
<1> SUFFICES ASSUME IInv, UNCHANGED vars PROVE IInv'
  OBVIOUS
<1>1. UNCHANGED <<ast, issues, direct, indirect, order, phase>>
  BY DEF vars
<1>2. TypeOK'
  BY <1>1, SameAst DEF IInv, TypeOK, Emitted, Ended, LateError, ast
<1>3. RefusedOnlyForAi' /\ OnlyValuesRaiseLate'
  BY <1>1 DEF IInv, RefusedOnlyForAi, OnlyValuesRaiseLate, LateError, ast, Endpoints
<1>4. QED BY <1>1, <1>2, <1>3, SameAst DEF IInv, Emitted

(* The inductive invariant holds in every reachable state of a compilation.*)
THEOREM Invariance == Spec => []IInv
<1>1. Init => IInv
  BY InitInv
<1>2. IInv /\ [Next]_vars => IInv'
  BY ValidateInv, ResolveInv, PlaceInv, EmitInv, CheckSettingsInv, LoadInv, StutterInv DEF Next
<1>3. QED BY <1>1, <1>2, PTL DEF Spec

(* The variables keep their types.                                         *)
THEOREM TypeCorrect == Spec => []TypeOK
<1>1. IInv => TypeOK
  BY DEF IInv
<1>2. QED BY <1>1, Invariance, PTL

(* After validation compile_ast raises for values alone: no cycle and no   *)
(* reference of a node to itself reaches the later stages.                 *)
THEOREM GraphErrorsAreFoundEarly == Spec => []OnlyValuesRaiseLate
<1>1. IInv => OnlyValuesRaiseLate
  BY DEF IInv
<1>2. QED BY <1>1, Invariance, PTL

(* The nodes placed before n contain the whole upstream closure of n.      *)
LEMMA ClosurePlacedBefore ==
  ASSUME IInv, Clean, NEW j \in 1..Len(order), NEW s \in Ancestors(connections, order[j])
  PROVE  \E i \in 1..(j - 1) : order[i] = s
<1> DEFINE S == {order[i] : i \in 1..(j - 1)}
<1>1. order \in Seq(members) /\ Len(order) \in Nat /\ members \subseteq Nodes
  BY DEF IInv, TypeOK, IsAst, members
<1>2. S \in SUBSET Nodes
  BY <1>1
<1>3. \A n : predecessors(connections, n) \subseteq members
  <2>1. \A c \in connections : c.from_node \in Endpoints(connections)
    BY DEF Endpoints
  <2>2. \A c \in connections : c.from_node \in members
    BY <2>1 DEF Clean, members, ai_only_subnodes
  <2>3. QED BY <2>2 DEF predecessors
<1>4. \A k \in 1..j : predecessors(connections, order[k]) \subseteq S
  <2> SUFFICES ASSUME NEW k \in 1..j, NEW p \in predecessors(connections, order[k])
               PROVE  p \in S
    OBVIOUS
  <2>1. k \in 1..Len(order)
    BY <1>1
  <2>2. PICK i \in 1..(k - 1) : order[i] = p
    BY <1>3, <2>1 DEF IInv
  <2>3. i \in 1..(j - 1)
    BY <1>1
  <2>4. QED BY <2>2, <2>3
<1>5. IsUpstreamClosed(connections, order[j], S)
  <2>1. \A m \in S : predecessors(connections, m) \subseteq S
    BY <1>1, <1>4
  <2>2. j \in 1..j
    BY <1>1
  <2>3. QED BY <1>4, <2>1, <2>2 DEF IsUpstreamClosed
<1>6. s \in S
  BY <1>2, <1>5 DEF Ancestors
<1>7. QED BY <1>6

(* Every dependency of an emitted document is on an earlier node.          *)
THEOREM DependenciesComeFirst == Spec => []SourcesPrecedeConsumers
<1>1. IInv => SourcesPrecedeConsumers
  <2> SUFFICES ASSUME IInv, Emitted, NEW r \in direct \cup indirect,
                      NEW j \in 1..Len(order), order[j] = r.target
               PROVE  \E i \in 1..(j - 1) : order[i] = r.source
    BY DEF SourcesPrecedeConsumers
  <2>1. Clean /\ r \in refs /\ r.source # Global
    BY DEF IInv, TypeOK, Emitted
  <2>2. UpstreamEdges = connections
    BY <2>1 DEF UpstreamEdges, Clean, Endpoints
  <2>3. r.source \in Ancestors(connections, r.target)
    BY <2>1, <2>2 DEF Clean, can_reference
  <2>4. QED BY <2>1, <2>3, ClosurePlacedBefore
<1>2. QED BY <1>1, Invariance, PTL

(* Both ends of every dependency are scheduled: a node with something      *)
(* upstream takes part in the main topology, and so does all of its        *)
(* closure.                                                                *)
THEOREM NoDependencyOnSubnodes == Spec => []DependenciesAreScheduled
<1>1. IInv => DependenciesAreScheduled
  <2> SUFFICES ASSUME IInv, Emitted, NEW r \in direct \cup indirect
               PROVE  {r.source, r.target} \subseteq Range(order)
    BY DEF DependenciesAreScheduled
  <2>1. /\ Clean /\ r \in refs /\ r.source # Global /\ r.target \in nodes
        /\ Range(order) = members /\ members \in SUBSET Nodes
    BY DEF IInv, TypeOK, Emitted, IsAst, members
  <2>2. UpstreamEdges = connections
    BY <2>1 DEF UpstreamEdges, Clean, Endpoints
  <2>3. r.source \in Ancestors(connections, r.target)
    BY <2>1, <2>2 DEF Clean, can_reference
  <2>4. \A c \in connections : c.from_node \in members /\ c.to_node \in members
    <3>1. \A c \in connections : c.from_node \in Endpoints(connections)
                                 /\ c.to_node \in Endpoints(connections)
      BY DEF Endpoints
    <3>2. QED BY <2>1, <3>1 DEF Clean, members, ai_only_subnodes
  <2>5. r.source \in members
    <3>1. IsUpstreamClosed(connections, r.target, members)
      BY <2>4 DEF IsUpstreamClosed, predecessors
    <3>2. QED BY <2>1, <2>3, <3>1 DEF Ancestors
  <2>6. r.target \in members
    <3>1. CASE predecessors(connections, r.target) = {}
      <4>1. IsUpstreamClosed(connections, r.target, {})
        BY <3>1 DEF IsUpstreamClosed
      <4>2. QED BY <2>3, <4>1 DEF Ancestors
    <3>2. CASE predecessors(connections, r.target) # {}
      BY <2>4, <3>2 DEF predecessors
    <3>3. QED BY <3>1, <3>2
  <2>7. QED BY <2>1, <2>5, <2>6
<1>2. QED BY <1>1, Invariance, PTL

(* The loader of the typed IR refuses an emitted document only for its     *)
(* non-main connections.                                                   *)
THEOREM MainFlowLoads == Spec => []RefusedOnlyForAi
<1>1. IInv => RefusedOnlyForAi
  BY DEF IInv
<1>2. QED BY <1>1, Invariance, PTL
=============================================================================
