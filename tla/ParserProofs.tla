---------------------------- MODULE ParserProofs ----------------------------
(***************************************************************************)
(* Proofs about four stages of the parser: Parse, for any number of        *)
(* nodes, connections and outputs; Expression, for any value of a          *)
(* parameter; CodeBatch, for any number of Code nodes and scripts;         *)
(* CodeFlow, for scripts with any number of accesses and returns.          *)
(***************************************************************************)
EXTENDS Parse, Expression, CodeBatch, CodeFlow, FiniteSetTheorems, FunctionTheorems,
  SequenceTheorems, WellFoundedInduction, TLAPS

-----------------------------------------------------------------------------
(***************************************************************************)
(* Parse.  Every stage is a function of what was read, so the inductive    *)
(* invariant says what each stage has made of it.                          *)
(***************************************************************************)
PortNames == {<<"main">>} \cup {<<"main", i>> : i \in Nat}

Edge ==
  [from_node : Nodes, from_port : PortNames, to_node : Nodes, to_index : Indices \cup {0}]

Read ==
  /\ DOMAIN kind \subseteq Nodes
  /\ kind \in [DOMAIN kind -> Kinds]
  /\ rules \in Int \cup {None}
  /\ main \subseteq RawConnection /\ IsFiniteSet(main)
  /\ again \subseteq main
  /\ ai \subseteq RawConnection /\ IsFiniteSet(ai)
  /\ uses \subseteq (DOMAIN kind) \X (Nodes \cup {Json, Global})

Typed ==
  /\ nodes \subseteq Nodes
  /\ connections \subseteq Edge /\ IsFiniteSet(connections)
  /\ twice \subseteq connections
  /\ ai_connections \subseteq Edge /\ IsFiniteSet(ai_connections)
  /\ refs \subseteq (DOMAIN kind) \X (Nodes \cup {Global})
  /\ phase \in {"adapt", "connect", "close", "bind", "parsed", "rejected", "crashed"}

(* The nodes that are no notes, the connections the user drew, and those   *)
(* that lead to the exit node.                                             *)
Real == {n \in DOMAIN kind : kind[n] # "note"}

Drawn == {main_connection(e) : e \in main}

DrawnAi == {ai_connection(e) : e \in ai}

Open ==
  {n \in Real :
     /\ predecessors(Drawn, n) # {} /\ successors(Drawn, n) = {}
     /\ kind[n] # "respond" /\ n \notin Endpoints(DrawnAi)}

ToExit(n, p) == [from_node |-> n, from_port |-> p, to_node |-> Exit, to_index |-> 0]

Closing == UNION {{ToExit(n, p) : p \in output_ports(n)} : n \in Open}

Joined ==
  /\ \A e \in main \cup ai : {e.from_node, e.to_node} \subseteq DOMAIN kind
  /\ twice \subseteq Drawn
  /\ twice = {} <=> again = {}
  /\ ai_connections = DrawnAi

Stages ==
  /\ phase = "adapt" => connections = {} /\ twice = {} /\ ai_connections = {} /\ refs = {}
  /\ phase = "connect" =>
       /\ nodes = DOMAIN kind
       /\ connections = {} /\ twice = {} /\ ai_connections = {} /\ refs = {}
  /\ phase = "close" =>
       nodes = DOMAIN kind /\ Joined /\ connections = Drawn /\ refs = {}
  /\ phase \in {"bind", "parsed"} =>
       /\ Exit \notin Real
       /\ nodes = Real \cup {Exit}
       /\ Joined
       /\ connections = Drawn \cup Closing
  /\ phase = "parsed" => refs = UNION {{<<u[1], s>> : s \in sources(u)} : u \in bindable}

ParseInv == Read /\ Typed /\ Stages

-----------------------------------------------------------------------------
(* A port name is one of the editor's, and those of a node are finite.     *)
LEMMA PortsAreNames ==
  ASSUME Read, NEW n \in DOMAIN kind
  PROVE  /\ output_ports(n) \subseteq PortNames
         /\ IsFiniteSet(output_ports(n))
         /\ output_ports(n) = {} => kind[n] = "switch" /\ rules \in Int /\ rules < 0
<1> DEFINE top == (IF rules \in {None, 0} THEN RegistryPorts ELSE rules) - 1
           port == [i \in 0..top |-> <<"main", i>>]
<1>1. top \in Int
  BY ParseAssumption DEF Read
<1>2. IsFiniteSet(0..top)
  BY <1>1, FS_Interval
<1>3. \A i \in 0..top : i \in Nat
  BY <1>1
<1>4. CASE kind[n] = "switch"
  <2>1. output_ports(n) = {<<"main", i>> : i \in 0..top}
    BY <1>4 DEF output_ports
  <2>2. output_ports(n) \subseteq PortNames
    BY <2>1, <1>3 DEF PortNames
  <2>3. port \in Surjection(0..top, output_ports(n))
    BY <2>1 DEF Surjection
  <2>4. IsFiniteSet(output_ports(n))
    BY <1>2, <2>3, FS_Surjection
  <2>5. ASSUME output_ports(n) = {} PROVE rules \in Int /\ rules < 0
    <3>1. 0 \notin 0..top
      BY <2>1, <2>5
    <3>2. top < 0
      BY <1>1, <3>1
    <3>3. rules \notin {None, 0}
      BY <3>2, ParseAssumption
    <3>4. QED BY <3>2, <3>3 DEF Read
  <2>6. QED BY <1>4, <2>2, <2>4, <2>5
<1>5. CASE kind[n] # "switch"
  <2>1. output_ports(n) = {<<"main">>}
    BY <1>5 DEF output_ports
  <2>2. QED BY <2>1, FS_Singleton DEF PortNames
<1>6. QED BY <1>4, <1>5

(* Connections of the editor keep their ends, and different ones stay      *)
(* different.                                                              *)
LEMMA Renamed ==
  ASSUME NEW e \in RawConnection
  PROVE  /\ main_connection(e) \in Edge
         /\ main_connection(e).from_node = e.from_node
         /\ main_connection(e).to_node = e.to_node
         /\ ai_connection(e) \in Edge
         /\ ai_connection(e).from_node = e.from_node
         /\ ai_connection(e).to_node = e.to_node
<1>1. /\ e.from_node \in Nodes /\ e.to_node \in Nodes /\ e.index \in Nat
      /\ e.to_index \in Indices
  BY DEF RawConnection
<1>2. port_name(e.from_node, e.index) \in PortNames
  BY <1>1 DEF port_name, PortNames
<1>3. (IF e.index # 0 THEN <<"main", e.index>> ELSE <<"main">>) \in PortNames
  BY <1>1 DEF PortNames
<1>4. QED BY <1>1, <1>2, <1>3 DEF main_connection, ai_connection, Edge

LEMMA StayDifferent ==
  ASSUME NEW e \in RawConnection, NEW f \in RawConnection,
         main_connection(e) = main_connection(f)
  PROVE  e = f
<1>1. /\ e.from_node = f.from_node /\ e.to_node = f.to_node /\ e.to_index = f.to_index
      /\ port_name(e.from_node, e.index) = port_name(f.from_node, f.index)
  BY DEF main_connection
<1>2. e.index = f.index
  BY <1>1 DEF port_name
<1>3. QED BY <1>1, <1>2 DEF RawConnection

(* An image of a finite set of connections is finite.                      *)
LEMMA DrawnIsFinite ==
  ASSUME Read
  PROVE  /\ Drawn \subseteq Edge /\ IsFiniteSet(Drawn)
         /\ DrawnAi \subseteq Edge /\ IsFiniteSet(DrawnAi)
<1>1. Drawn \subseteq Edge /\ DrawnAi \subseteq Edge
  BY Renamed DEF Read, Drawn, DrawnAi
<1>2. [e \in main |-> main_connection(e)] \in Surjection(main, Drawn)
  BY DEF Surjection, Drawn
<1>3. [e \in ai |-> ai_connection(e)] \in Surjection(ai, DrawnAi)
  BY DEF Surjection, DrawnAi
<1>4. QED BY <1>1, <1>2, <1>3, FS_Surjection DEF Read

(* What is joined to the exit node.                                        *)
LEMMA ClosingIs ==
  ASSUME Read
  PROVE  /\ Closing \subseteq Edge /\ IsFiniteSet(Closing)
         /\ \A c \in Closing : c.to_node = Exit /\ c.from_node \in Open
<1>1. Open \subseteq DOMAIN kind /\ Open \subseteq Nodes
  BY DEF Open, Real, Read
<1>2. IsFiniteSet(Open)
  BY <1>1, AstAssumption, FS_Subset
<1> DEFINE Group(n) == {ToExit(n, p) : p \in output_ports(n)}
<1>3. ASSUME NEW n \in Open PROVE Group(n) \subseteq Edge /\ IsFiniteSet(Group(n))
  <2>1. output_ports(n) \subseteq PortNames /\ IsFiniteSet(output_ports(n))
    BY <1>1, PortsAreNames
  <2>2. Group(n) \subseteq Edge
    BY <1>1, <2>1, ParseAssumption DEF ToExit, Edge
  <2>3. [p \in output_ports(n) |-> ToExit(n, p)] \in Surjection(output_ports(n), Group(n))
    BY DEF Surjection
  <2>4. QED BY <2>1, <2>2, <2>3, FS_Surjection
<1> DEFINE groups == {Group(n) : n \in Open}
<1>4. [n \in Open |-> Group(n)] \in Surjection(Open, groups)
  BY DEF Surjection
<1>5. IsFiniteSet(groups)
  BY <1>2, <1>4, FS_Surjection
<1>6. \A T \in groups : IsFiniteSet(T)
  BY <1>3
<1>7. Closing = UNION groups
  BY DEF Closing
<1>8. IsFiniteSet(Closing)
  BY <1>5, <1>6, <1>7, FS_UNION
<1>9. \A c \in Closing : \E n \in Open : \E p \in output_ports(n) : c = ToExit(n, p)
  BY DEF Closing
<1>10. Closing \subseteq Edge
  BY <1>3, <1>7
<1>11. QED BY <1>8, <1>9, <1>10 DEF ToExit

-----------------------------------------------------------------------------
(* What the user said is not changed, nor is anything derived from it.     *)
LEMMA SameReading ==
  ASSUME UNCHANGED raw
  PROVE  /\ Read' = Read
         /\ Real' = Real
         /\ Drawn' = Drawn
         /\ DrawnAi' = DrawnAi
         /\ Open' = Open
         /\ Closing' = Closing
BY DEF raw, Read, Real, Drawn, DrawnAi, Open, Closing, main_connection, ai_connection,
       port_name, output_ports, predecessors, successors, Endpoints, ToExit, RawConnection

LEMMA ParseInitInv == Init => ParseInv
<1> SUFFICES ASSUME Init PROVE ParseInv
  OBVIOUS
<1>1. PICK S \in SUBSET Nodes : kind \in [S -> Kinds]
  BY DEF Init
<1>2. DOMAIN kind = S
  BY <1>1
<1>3. Read
  BY <1>1, <1>2 DEF Init, Read
<1>4. Typed
  BY FS_EmptySet DEF Init, Start, Typed
<1>5. Stages
  BY DEF Init, Start, Stages
<1>6. QED BY <1>3, <1>4, <1>5 DEF ParseInv

LEMMA AdaptInv == ParseInv /\ Adapt => ParseInv'
<1> SUFFICES ASSUME ParseInv, Adapt PROVE ParseInv'
  OBVIOUS
<1>1. /\ nodes' = DOMAIN kind /\ phase = "adapt" /\ phase' \in {"rejected", "connect"}
      /\ UNCHANGED <<raw, connections, twice, ai_connections, refs>>
  BY DEF Adapt, Continue
<1>2. Read' /\ DOMAIN kind' = DOMAIN kind
  BY <1>1, SameReading DEF ParseInv, raw
<1>3. connections = {} /\ twice = {} /\ ai_connections = {} /\ refs = {}
  BY <1>1 DEF ParseInv, Stages
<1>4. Typed'
  BY <1>1, <1>2, <1>3 DEF ParseInv, Typed, Read
<1>5. Stages'
  BY <1>1, <1>2, <1>3 DEF Stages
<1>6. QED BY <1>2, <1>4, <1>5 DEF ParseInv

LEMMA ConnectInv == ParseInv /\ Connect => ParseInv'
<1> SUFFICES ASSUME ParseInv, Connect PROVE ParseInv'
  OBVIOUS
<1> DEFINE unknown == \E e \in main \cup ai : ~ ({e.from_node, e.to_node} \subseteq nodes)
           collide == {main_connection(e) : e \in
                         {d \in main : \E f \in main \ {d} :
                                         main_connection(f) = main_connection(d)}}
<1>1. /\ phase = "connect"
      /\ UNCHANGED raw
      /\ nodes = DOMAIN kind /\ connections = {} /\ twice = {} /\ ai_connections = {}
      /\ refs = {}
  BY DEF Connect, ParseInv, Stages
<1>2. Read /\ Typed /\ Read' /\ DOMAIN kind' = DOMAIN kind
  BY <1>1, SameReading DEF ParseInv, raw
<1>3. CASE unknown
  <2>1. phase' = "rejected" /\ UNCHANGED ast
    BY <1>3 DEF Connect, Continue
  <2>2. Typed'
    BY <1>2, <2>1 DEF Typed, ast
  <2>3. Stages'
    BY <2>1 DEF Stages
  <2>4. QED BY <1>2, <2>2, <2>3 DEF ParseInv
<1>4. CASE ~ unknown
  <2>1. /\ phase' = "close"
        /\ connections' = Drawn
        /\ twice' = {main_connection(e) : e \in again} \cup collide
        /\ ai_connections' = DrawnAi
        /\ nodes' = nodes /\ refs' = refs
    BY <1>4 DEF Connect, Continue, Drawn, DrawnAi
  <2>2. collide = {}
    BY <1>2, StayDifferent DEF Read
  <2>3. twice' = {main_connection(e) : e \in again}
    BY <2>1, <2>2
  <2>4. twice' \subseteq Drawn /\ (twice' = {} <=> again = {})
    BY <1>2, <2>3 DEF Read, Drawn
  <2>5. Typed'
    BY <1>2, <2>1, <2>4, DrawnIsFinite DEF Typed
  <2>6. Drawn' = Drawn /\ DrawnAi' = DrawnAi /\ main' = main /\ ai' = ai /\ again' = again
    BY <1>1, SameReading DEF raw
  <2>7. Joined'
    BY <1>1, <1>2, <1>4, <2>1, <2>4, <2>6 DEF Joined
  <2>8. Stages'
    BY <1>1, <1>2, <2>1, <2>6, <2>7 DEF Stages
  <2>9. QED BY <1>2, <2>5, <2>8 DEF ParseInv
<1>5. QED BY <1>3, <1>4

LEMMA CloseInv == ParseInv /\ Close => ParseInv'
<1> SUFFICES ASSUME ParseInv, Close PROVE ParseInv'
  OBVIOUS
<1>1. /\ phase = "close"
      /\ UNCHANGED <<raw, twice, ai_connections, refs>>
      /\ nodes' = kept \cup {Exit}
      /\ phase' = IF Exit \in kept THEN "rejected" ELSE "bind"
  BY DEF Close, Continue
<1>2. nodes = DOMAIN kind /\ Joined /\ connections = Drawn /\ refs = {}
  BY <1>1 DEF ParseInv, Stages
<1>3. Read /\ Typed /\ Read' /\ DOMAIN kind' = DOMAIN kind
  BY <1>1, SameReading DEF ParseInv, raw
<1>4. kept = Real
  BY <1>2 DEF kept, Real
<1>5. terminals = Open
  BY <1>2, <1>4 DEF terminals, DeadEnds, Open, ai_referenced, Joined
<1>6. connections' = Drawn \cup Closing
  BY <1>2, <1>5 DEF Close, Closing, ToExit
<1>7. Drawn' = Drawn /\ DrawnAi' = DrawnAi /\ Closing' = Closing /\ Real' = Real
  BY <1>1, SameReading
<1>8. Joined'
  BY <1>1, <1>2, <1>7 DEF Joined, raw
<1>9. IsFiniteSet(Drawn \cup Closing)
  BY <1>3, DrawnIsFinite, ClosingIs, FS_Union
<1>10. Drawn \cup Closing \subseteq Edge
  BY <1>3, DrawnIsFinite, ClosingIs
<1>11. nodes' \subseteq Nodes
  BY <1>1, <1>3, <1>4, ParseAssumption DEF Real, Read
<1>12. Typed'
  BY <1>1, <1>2, <1>3, <1>6, <1>9, <1>10, <1>11 DEF Typed
<1>13. phase' = "bind" => Exit \notin Real /\ nodes' = Real \cup {Exit}
  BY <1>1, <1>4
<1>14. Stages'
  BY <1>1, <1>6, <1>7, <1>8, <1>13 DEF Stages
<1>15. QED BY <1>3, <1>12, <1>14 DEF ParseInv

(* What an expression is bound to is a node, or the global variables.      *)
LEMMA SourcesAre ==
  ASSUME Read, Typed, NEW u \in uses, NEW s \in sources(u)
  PROVE  /\ u[1] \in DOMAIN kind /\ u = <<u[1], u[2]>>
         /\ s \in Nodes \cup {Global}
         /\ u[2] # Json => s = u[2]
         /\ u[2] = Json => predecessors(connections, u[1]) = {s}
<1>1. /\ u[1] \in DOMAIN kind /\ u = <<u[1], u[2]>> /\ u[2] \in Nodes \cup {Json, Global}
  BY DEF Read
<1>2. CASE u[2] # Json
  BY <1>1, <1>2 DEF sources
<1>3. CASE u[2] = Json
  <2> DEFINE into == {c \in connections : c.to_node = u[1]}
  <2>1. s \in single_upstream(u[1])
    BY <1>3 DEF sources
  <2>2. Cardinality(into) = 1 /\ s \in predecessors(connections, u[1])
    BY <2>1 DEF single_upstream
  <2>3. IsFiniteSet(into)
    BY FS_Subset DEF Typed
  <2>4. PICK c : into = {c}
    BY <2>2, <2>3, FS_Singleton
  <2>5. predecessors(connections, u[1]) = {c.from_node}
    BY <2>4 DEF predecessors
  <2>6. c \in Edge
    BY <2>4 DEF Typed
  <2>7. QED BY <1>1, <1>3, <2>2, <2>5, <2>6 DEF Edge
<1>4. QED BY <1>2, <1>3

LEMMA BindInv == ParseInv /\ Bind => ParseInv'
<1> SUFFICES ASSUME ParseInv, Bind PROVE ParseInv'
  OBVIOUS
<1> DEFINE all == UNION {{<<u[1], s>> : s \in sources(u)} : u \in bindable}
<1>1. /\ phase = "bind" /\ phase' \in {"crashed", "rejected", "parsed"}
      /\ phase' = "parsed" => fault # "list"
      /\ refs' = IF fault = "list" THEN refs ELSE all
      /\ UNCHANGED <<raw, nodes, connections, twice, ai_connections>>
  BY DEF Bind
<1>2. Read /\ Typed /\ Read' /\ DOMAIN kind' = DOMAIN kind
  BY <1>1, SameReading DEF ParseInv, raw
<1>3. all \subseteq (DOMAIN kind) \X (Nodes \cup {Global})
  BY <1>2, SourcesAre DEF bindable
<1>4. Typed'
  BY <1>1, <1>2, <1>3 DEF Typed
<1>5. Drawn' = Drawn /\ DrawnAi' = DrawnAi /\ Closing' = Closing /\ Real' = Real
  BY <1>1, SameReading
<1>6. bindable' = bindable
  BY <1>1 DEF bindable, raw
<1>7. \A u : sources(u)' = sources(u)
  BY <1>1 DEF sources, single_upstream, predecessors
<1>8. all' = all
  BY <1>6, <1>7
<1>9. phase' = "parsed" => refs' = all'
  BY <1>1, <1>8
<1>10. Joined' = Joined
  BY <1>1, <1>5 DEF Joined, raw
<1>11. Stages'
  BY <1>1, <1>5, <1>9, <1>10 DEF Stages, ParseInv
<1>12. QED BY <1>2, <1>4, <1>11 DEF ParseInv

LEMMA ParseStutterInv == ParseInv /\ UNCHANGED vars => ParseInv'
<1> SUFFICES ASSUME ParseInv, UNCHANGED vars PROVE ParseInv'
  OBVIOUS
<1>1. UNCHANGED raw /\ UNCHANGED ast /\ phase' = phase
  BY DEF vars
<1>2. UNCHANGED <<kind, main, ai, again, uses>>
  BY <1>1 DEF raw
<1>3. UNCHANGED <<nodes, connections, twice, ai_connections, refs>>
  BY <1>1 DEF ast
<1>4. Read' /\ Drawn' = Drawn /\ DrawnAi' = DrawnAi /\ Closing' = Closing /\ Real' = Real
  BY <1>1, SameReading DEF ParseInv
<1>5. Typed'
  BY <1>1, <1>2, <1>3 DEF Typed, ParseInv
<1>6. bindable' = bindable
  BY <1>2, <1>3 DEF bindable
<1>7. \A u : sources(u)' = sources(u)
  BY <1>3 DEF sources, single_upstream, predecessors
<1>8. Joined' = Joined
  BY <1>2, <1>3, <1>4 DEF Joined
<1>9. Stages'
  BY <1>1, <1>2, <1>3, <1>4, <1>6, <1>7, <1>8 DEF Stages, ParseInv
<1>10. QED BY <1>4, <1>5, <1>9 DEF ParseInv

(* The state of the parser is what its stages have made of the input.      *)
THEOREM ParseInvariance == Spec => []ParseInv
<1>1. ParseInv /\ [Next]_vars => ParseInv'
  BY AdaptInv, ConnectInv, CloseInv, BindInv, ParseStutterInv DEF Next
<1>2. QED BY <1>1, ParseInitInv, PTL DEF Spec

-----------------------------------------------------------------------------
(* The types of the AST, for port names of which there are enough: of a    *)
(* node the editor may draw any number of outputs.                         *)
THEOREM ParseTypes ==
  ASSUME PortNames \subseteq Ports, 0 \in Indices
  PROVE  Spec => []TypeOK
<1>1. Edge \subseteq Connection
  BY DEF Edge, Connection
<1>2. ParseInv => TypeOK
  BY <1>1 DEF ParseInv, Typed, TypeOK, IsConnections
<1>3. QED BY <1>2, ParseInvariance, PTL

(* In a parsed workflow a connection joins the ends it joined, or leads    *)
(* from a terminal to the exit node.                                       *)
LEMMA ParsedConnections ==
  ASSUME ParseInv, phase = "parsed"
  PROVE  /\ Read /\ Typed /\ Joined
         /\ nodes = Real \cup {Exit} /\ Exit \notin Real
         /\ connections = Drawn \cup Closing
         /\ \A c \in Drawn : {c.from_node, c.to_node} \subseteq DOMAIN kind
         /\ \A c \in DrawnAi : {c.from_node, c.to_node} \subseteq DOMAIN kind
         /\ \A c \in Closing : c.to_node = Exit /\ c.from_node \in Open
<1>1. /\ Read /\ Typed /\ Joined
      /\ nodes = Real \cup {Exit} /\ Exit \notin Real
      /\ connections = Drawn \cup Closing
  BY DEF ParseInv, Stages
<1>2. \A c \in Drawn : {c.from_node, c.to_node} \subseteq DOMAIN kind
  BY <1>1, Renamed DEF Drawn, Joined, Read
<1>3. \A c \in DrawnAi : {c.from_node, c.to_node} \subseteq DOMAIN kind
  BY <1>1, Renamed DEF DrawnAi, Joined, Read
<1>4. QED BY <1>1, <1>2, <1>3, ClosingIs

(* The connections that do not lead to the exit node are as many as the    *)
(* user drew.                                                              *)
LEMMA AsManyAsDrawn ==
  ASSUME ParseInv, phase = "parsed"
  PROVE  Cardinality({c \in connections : c.to_node # Exit}) =
         Cardinality({e \in main : e.to_node # Exit})
<1> DEFINE before == {e \in main : e.to_node # Exit}
           after == {c \in connections : c.to_node # Exit}
           map == [e \in before |-> main_connection(e)]
<1>1. /\ Read /\ connections = Drawn \cup Closing
      /\ \A c \in Closing : c.to_node = Exit
  BY ParsedConnections
<1>2. \A e \in main : e \in RawConnection /\ main_connection(e).to_node = e.to_node
  BY <1>1, Renamed DEF Read
<1>3. \A e \in before : main_connection(e) \in after
  BY <1>1, <1>2 DEF Drawn
<1>4. \A c \in after : \E e \in before : main_connection(e) = c
  BY <1>1, <1>2 DEF Drawn
<1>5. \A e, f \in before : main_connection(e) = main_connection(f) => e = f
  BY <1>2, StayDifferent
<1>6. IsFiniteSet(before)
  BY <1>1, FS_Subset DEF Read
<1> HIDE DEF before, after
<1>7. map \in Injection(before, after)
  BY <1>3, <1>5 DEF Injection, IsInjective
<1>8. map \in Surjection(before, after)
  BY <1>3, <1>4 DEF Surjection
<1>9. Cardinality(after) = Cardinality(before)
  BY <1>6, <1>7, <1>8, FS_Surjection
<1>10. QED BY <1>9 DEF before, after

(* What parse_workflow returns is what the compiler starts from.           *)
THEOREM AstIsAlwaysYielded == Spec => []YieldsAst
<1>1. ParseInv => YieldsAst
  <2> SUFFICES ASSUME ParseInv, phase = "parsed" PROVE YieldsAst
    BY DEF YieldsAst, Parsed
  <2>1. /\ Read /\ Typed /\ Joined
        /\ nodes = Real \cup {Exit} /\ Exit \notin Real
        /\ connections = Drawn \cup Closing
        /\ \A c \in Drawn : {c.from_node, c.to_node} \subseteq DOMAIN kind
        /\ \A c \in DrawnAi : {c.from_node, c.to_node} \subseteq DOMAIN kind
        /\ \A c \in Closing : c.to_node = Exit /\ c.from_node \in Open
    BY ParsedConnections
  <2>2. ASSUME successors(connections, Exit) # {}
        PROVE  Exit \in DOMAIN kind /\ kind[Exit] = "note"
    <3>1. PICK c \in connections : c.from_node = Exit
      BY <2>2 DEF successors
    <3>2. c \notin Closing
      BY <2>1, <3>1 DEF Open
    <3>3. Exit \in DOMAIN kind
      BY <2>1, <3>1, <3>2
    <3>4. QED BY <2>1, <3>3 DEF Real
  <2>3. \A r \in refs : r[1] \in nodes \ {Exit}
    <3>1. refs = UNION {{<<u[1], s>> : s \in sources(u)} : u \in bindable}
      BY DEF ParseInv, Stages
    <3>2. \A r \in refs : \E u \in bindable : r[1] = u[1]
      BY <3>1
    <3>3. QED BY <3>2 DEF bindable
  <2>4. ASSUME NEW n \in Endpoints(connections \cup ai_connections) \ nodes
        PROVE  kind[n] = "note"
    <3>1. ai_connections = DrawnAi
      BY <2>1 DEF Joined
    <3>2. PICK c \in connections \cup ai_connections : n \in {c.from_node, c.to_node}
      BY <2>4 DEF Endpoints
    <3>3. CASE c \in Closing
      BY <2>1, <2>4, <3>2, <3>3 DEF Open
    <3>4. CASE c \notin Closing
      <4>1. n \in DOMAIN kind
        BY <2>1, <3>1, <3>2, <3>4
      <4>2. QED BY <2>1, <2>4, <4>1 DEF Real
    <3>5. QED BY <3>3, <3>4
  <2>5. twice = {} <=> again = {}
    BY <2>1 DEF Joined
  <2>6. QED BY <2>1, <2>2, <2>3, <2>4, <2>5, AsManyAsDrawn DEF YieldsAst, Parsed
<1>2. QED BY <1>1, ParseInvariance, PTL

(* The main flow ends in the exit node, or where the code leaves it open.  *)
THEOREM EndsAreAlwaysClosed == Spec => []EndsAreClosed
<1>1. ParseInv => EndsAreClosed
  <2> SUFFICES ASSUME ParseInv, phase = "parsed",
                      NEW n \in nodes \ {Exit},
                      predecessors(connections, n) # {}, successors(connections, n) = {}
               PROVE  \/ kind[n] = "respond"
                      \/ n \in ai_referenced
                      \/ kind[n] = "switch" /\ rules \in Int /\ rules < 0
    BY DEF EndsAreClosed, Parsed
  <2>1. /\ Read /\ Joined
        /\ nodes = Real \cup {Exit}
        /\ connections = Drawn \cup Closing
        /\ \A c \in Closing : c.to_node = Exit /\ c.from_node \in Open
    BY ParsedConnections
  <2>2. n \in Real
    BY <2>1
  <2>3. PICK c \in connections : c.to_node = n
    BY DEF predecessors
  <2>4. c \in Drawn
    BY <2>1, <2>3
  <2>5. predecessors(Drawn, n) # {}
    BY <2>3, <2>4 DEF predecessors
  <2>6. successors(Drawn, n) = {}
    BY <2>1 DEF successors
  <2>7. SUFFICES ASSUME kind[n] # "respond", n \notin ai_referenced
                 PROVE  kind[n] = "switch" /\ rules \in Int /\ rules < 0
    OBVIOUS
  <2>8. n \in Open
    BY <2>1, <2>2, <2>5, <2>6, <2>7 DEF Open, ai_referenced, Joined
  <2>9. output_ports(n) = {}
    <3>1. SUFFICES ASSUME NEW p \in output_ports(n) PROVE FALSE
      OBVIOUS
    <3>2. ToExit(n, p) \in connections
      BY <2>1, <2>8 DEF Closing
    <3>3. ToExit(n, p).to_node \in successors(connections, n)
      BY <3>2 DEF successors, ToExit
    <3>4. QED BY <3>3
  <2>10. QED BY <2>1, <2>2, <2>9, PortsAreNames DEF Real
<1>2. QED BY <1>1, ParseInvariance, PTL

(* $json is bound to the only node that can supply it.                     *)
THEOREM JsonIsAlwaysTheOnlySource == Spec => []JsonIsTheOnlySource
<1>1. ParseInv => JsonIsTheOnlySource
  <2> SUFFICES ASSUME ParseInv, phase = "parsed", NEW r \in refs, r \notin uses
               PROVE  /\ <<r[1], Json>> \in uses
                      /\ predecessors(connections, r[1]) = {r[2]}
    BY DEF JsonIsTheOnlySource, Parsed
  <2>1. refs = UNION {{<<u[1], s>> : s \in sources(u)} : u \in bindable}
    BY DEF ParseInv, Stages
  <2>2. PICK u \in bindable : \E s \in sources(u) : r = <<u[1], s>>
    BY <2>1
  <2>3. u \in uses /\ Read /\ Typed
    BY <2>2 DEF bindable, ParseInv
  <2> PICK s \in sources(u) : r = <<u[1], s>>
    BY <2>2
  <2>4. /\ u = <<u[1], u[2]>>
        /\ u[2] # Json => s = u[2]
        /\ u[2] = Json => predecessors(connections, u[1]) = {s}
    BY <2>3, SourcesAre
  <2>5. u[2] = Json
    BY <2>3, <2>4
  <2>6. QED BY <2>3, <2>4, <2>5
<1>2. QED BY <1>1, ParseInvariance, PTL

-----------------------------------------------------------------------------
(***************************************************************************)
(* Expression.  The binding is a function of the value.                    *)
(***************************************************************************)
BoundTo(n, path, global) == <<[from |-> n, path |-> path, global |-> global]>>

Binding(p) ==
  IF p.kind = "node" THEN BoundTo(p.node, p.path, FALSE)
  ELSE IF p.kind = "input" THEN BoundTo(Upstream, p.path, FALSE)
  ELSE IF p.kind = "global" THEN BoundTo(Nowhere, p.path, TRUE)
  ELSE <<>>

ExprInv ==
  /\ value \in Values
  /\ expr_phase \in {"parse", "bind", "done"}
  /\ expr_phase = "parse" => parsed = Unknown
  /\ expr_phase \in {"parse", "bind"} => source = <<>>
  /\ expr_phase \in {"bind", "done"} => parsed = parse_value(value)
  /\ expr_phase = "done" => source = Binding(parsed)

(* The reference that is taken out of an expression is what it reads, and  *)
(* an expression that is nothing but fields is taken whole.                *)
FieldsOf(e) == [i \in DOMAIN e.path |-> e.path[i].name]

Extracted(e, p) ==
  /\ \/ p = Unknown
     \/ p.kind = "node" /\ e.root = "node" /\ p.node = e.node
     \/ p.kind = "global" /\ e.root = "global"
     \/ p.kind = "input" /\ e.root = "json" /\ p.path = FieldsOf(e)
     \/ p.kind = "input" /\ e.root = "input"
  /\ Plain(e) => p # Unknown /\ p.path = FieldsOf(e)

LEMMA RefIs ==
  ASSUME NEW k, NEW n, NEW path
  PROVE  Ref(k, n, path).kind = k /\ Ref(k, n, path).node = n /\ Ref(k, n, path).path = path
BY DEF Ref

(* Names that stay whole are taken as they are.                            *)
LEMMA WholePath ==
  ASSUME NEW e, ~ e.more, \A i \in DOMAIN e.path : Pieces[e.path[i].name] = e.path[i].name
  PROVE  split_path(e.path, e.more) = FieldsOf(e)
BY DEF split_path, FieldsOf

LEMMA PureIsWhole ==
  ASSUME NEW e, IsExpression(e), PurePath(e.path)
  PROVE  \A i \in DOMAIN e.path : Pieces[e.path[i].name] = e.path[i].name
<1>1. \A w \in Words : Pieces[w] = w
  BY ExpressionAssumption
<1>2. \A i \in DOMAIN e.path : e.path[i].name \in Words
  BY DEF IsExpression, PurePath
<1>3. QED BY <1>1, <1>2

LEMMA ExtractedIs ==
  ASSUME NEW e, IsExpression(e)
  PROVE  Extracted(e, parse_expression(e))
<1>1. e.more \in BOOLEAN /\ e.root \in {"node", "json", "input", "global", "other"}
  BY DEF IsExpression
<1> DEFINE p == parse_expression(e)
           split == split_path(e.path, e.more)
<1>2. Unknown # Ref("node", e.node, split) /\ Unknown # Ref("global", Nowhere, split)
      /\ Unknown # Ref("input", Nowhere, split)
  BY DEF Unknown, Ref
<1>3. Plain(e) => split = FieldsOf(e)
  BY WholePath DEF Plain
<1>4. CASE e.root = "node"
  <2>1. parse_global_ref(e) = Unknown /\ parse_input_ref(e) = Unknown
    BY <1>4 DEF parse_global_ref, parse_input_ref
  <2>2. p = parse_node_ref(e)
    BY <2>1 DEF parse_expression
  <2>3. p \in {Unknown, Ref("node", e.node, split)}
    BY <2>2 DEF parse_node_ref
  <2>4. Plain(e) => p = Ref("node", e.node, split)
    BY <1>4, <2>2 DEF parse_node_ref, Plain, Alone, IsExpression
  <2> HIDE DEF p, split
  <2>5. QED BY <1>2, <1>3, <1>4, <2>3, <2>4, RefIs DEF Extracted, p
<1>5. CASE e.root = "global"
  <2>1. parse_node_ref(e) = Unknown /\ parse_input_ref(e) = Unknown
    BY <1>5 DEF parse_node_ref, parse_input_ref
  <2>2. p = parse_global_ref(e)
    BY <2>1 DEF parse_expression
  <2>3. p \in {Unknown, Ref("global", Nowhere, split)}
    BY <2>2 DEF parse_global_ref
  <2>4. Plain(e) => p = Ref("global", Nowhere, split)
    BY <1>5, <2>2 DEF parse_global_ref, Plain, Alone
  <2> HIDE DEF p, split
  <2>5. QED BY <1>2, <1>3, <1>5, <2>3, <2>4, RefIs DEF Extracted, p
<1>6. CASE e.root = "json"
  <2>1. parse_node_ref(e) = Unknown /\ parse_global_ref(e) = Unknown
    BY <1>6 DEF parse_node_ref, parse_global_ref
  <2>2. p = parse_input_ref(e)
    BY <2>1 DEF parse_expression
  <2>3. p = IF ~e.more /\ PurePath(e.path) THEN Ref("input", Nowhere, split) ELSE Unknown
    BY <1>6, <2>2 DEF parse_input_ref
  <2>4. ~e.more /\ PurePath(e.path) => split = FieldsOf(e)
    BY WholePath, PureIsWhole
  <2>5. Plain(e) => ~e.more /\ PurePath(e.path)
    BY <1>6 DEF Plain
  <2> HIDE DEF p, split
  <2>6. QED BY <1>2, <1>6, <2>3, <2>4, <2>5, RefIs DEF Extracted, p
<1>7. CASE e.root = "input"
  <2> DEFINE longer == split_path(<<[name |-> JsonName, by |-> "dot"]>> \o e.path, e.more)
  <2>1. parse_node_ref(e) = Unknown /\ parse_global_ref(e) = Unknown
    BY <1>7 DEF parse_node_ref, parse_global_ref
  <2>2. p = parse_input_ref(e)
    BY <2>1 DEF parse_expression
  <2>3. p \in {Unknown, Ref("input", Nowhere, split), Ref("input", Nowhere, longer)}
    BY <2>2 DEF parse_input_ref
  <2>4. Plain(e) => p = Ref("input", Nowhere, split)
    BY <1>7, <2>2 DEF parse_input_ref, Plain, Alone
  <2> HIDE DEF p, split, longer
  <2>5. QED BY <1>2, <1>3, <1>7, <2>3, <2>4, RefIs DEF Extracted, p
<1>8. CASE e.root = "other"
  <2>1. p = Unknown
    BY <1>8 DEF parse_expression, parse_node_ref, parse_global_ref, parse_input_ref
  <2>2. QED BY <1>8, <2>1 DEF Extracted, Plain
<1>9. QED BY <1>1, <1>4, <1>5, <1>6, <1>7, <1>8

(* What a value is parsed to comes out of its first expression.            *)
Wrapped(v) == ~ v.text /\ ~ v.tail /\ Len(v.parts) > 1

LEMMA LongerIs ==
  ASSUME NEW e, IsExpression(e)
  PROVE  [e EXCEPT !.more = TRUE] =
           [root |-> e.root, node |-> e.node, accessor |-> e.accessor,
            path |-> e.path, more |-> TRUE]
<1> DEFINE Alike == [root : {e.root}, node : {e.node}, accessor : {e.accessor},
                    path : {e.path}, more : BOOLEAN]
           longer == [e EXCEPT !.more = TRUE]
<1>1. e \in Alike
  BY DEF IsExpression
<1>2. longer \in Alike /\ longer.more = TRUE
  BY <1>1
<1> HIDE DEF longer
<1>3. longer = [root |-> e.root, node |-> e.node, accessor |-> e.accessor,
                path |-> e.path, more |-> TRUE]
  BY <1>2
<1>4. QED BY <1>3 DEF longer

LEMMA ValueIs ==
  ASSUME NEW v \in Values, v.parts # <<>>
  PROVE  /\ 1 \in DOMAIN v.parts /\ Head(v.parts) = v.parts[1]
         /\ IsExpression(v.parts[1])
         /\ ~ Wrapped(v) => Extracted(v.parts[1], parse_value(v))
         /\ Wrapped(v) =>
              \E e : /\ IsExpression(e)
                     /\ e.root = v.parts[1].root /\ e.node = v.parts[1].node
                     /\ e.path = v.parts[1].path
                     /\ Extracted(e, parse_value(v))
<1> DEFINE h == v.parts[1]
           longer == [h EXCEPT !.more = TRUE]
<1>1. /\ v.parts \in Seq(ToSet(v.parts))
      /\ \A e \in ToSet(v.parts) : IsExpression(e)
  BY ExpressionAssumption
<1>2. 1 \in DOMAIN v.parts /\ Head(v.parts) = h
  BY <1>1
<1>3. IsExpression(h)
  BY <1>1, <1>2 DEF ToSet
<1>4. ASSUME ~ Wrapped(v) PROVE parse_value(v) = parse_expression(h)
  BY <1>2, <1>4 DEF parse_value, Wrapped
<1>5. ASSUME Wrapped(v) PROVE parse_value(v) = parse_expression(longer)
  BY <1>2, <1>5 DEF parse_value, Wrapped
<1>6. /\ longer = [root |-> h.root, node |-> h.node, accessor |-> h.accessor,
                   path |-> h.path, more |-> TRUE]
  BY <1>3, LongerIs
<1>7. /\ longer.root = h.root /\ longer.node = h.node /\ longer.path = h.path
      /\ longer.accessor = h.accessor /\ longer.more = TRUE
  BY <1>6
<1>8. IsExpression(longer)
  BY <1>3, <1>6, <1>7 DEF IsExpression
<1> HIDE DEF longer
<1>9. QED BY <1>2, <1>3, <1>4, <1>5, <1>7, <1>8, ExtractedIs

(* A value without an expression is a literal, and every other one comes   *)
(* out of one of its expressions, which reads what is bound.               *)
LEMMA ParsedIs ==
  ASSUME NEW v \in Values
  PROVE  \/ parse_value(v).kind \in {"unknown", "literal"}
         \/ /\ parse_value(v).kind \in {"node", "input", "global"}
            /\ v.parts # <<>>
            /\ LET e == v.parts[1]
                   p == parse_value(v)
               IN  /\ p.kind = "node" => e.root = "node" /\ p.node = e.node
                   /\ p.kind = "global" => e.root = "global"
                   /\ p.kind = "input" => e.root \in {"json", "input"}
                   /\ e.root = "json" => p.path = FieldsOf(e)
<1> DEFINE p == parse_value(v)
<1>1. CASE v.parts = <<>>
  <2>1. p = Ref("literal", Nowhere, <<>>)
    BY <1>1 DEF parse_value
  <2>2. QED BY <2>1, RefIs
<1>2. CASE v.parts # <<>>
  <2>1. PICK e : /\ e.root = v.parts[1].root /\ e.node = v.parts[1].node
                 /\ e.path = v.parts[1].path
                 /\ Extracted(e, p)
    BY <1>2, ValueIs, Zenon
  <2>2. Unknown.kind = "unknown"
    BY DEF Unknown
  <2>3. FieldsOf(e) = FieldsOf(v.parts[1])
    BY <2>1 DEF FieldsOf
  <2> HIDE DEF p
  <2>4. QED BY <1>2, <2>1, <2>2, <2>3 DEF Extracted, p
<1>3. QED BY <1>1, <1>2

LEMMA BindingIs ==
  ASSUME NEW p
  PROVE  /\ p.kind = "node" => Binding(p) = BoundTo(p.node, p.path, FALSE)
         /\ p.kind = "input" => Binding(p) = BoundTo(Upstream, p.path, FALSE)
         /\ p.kind = "global" => Binding(p) = BoundTo(Nowhere, p.path, TRUE)
         /\ p.kind \notin {"node", "input", "global"} => Binding(p) = <<>>
BY DEF Binding

LEMMA ExprInitInv == ExprInit => ExprInv
BY DEF ExprInit, ExprInv

LEMMA ExprStepInv == ExprInv /\ [ExprNext]_expr_vars => ExprInv'
<1> SUFFICES ASSUME ExprInv, [ExprNext]_expr_vars PROVE ExprInv'
  OBVIOUS
<1>1. CASE ParseValue
  BY <1>1 DEF ExprInv, ParseValue
<1>2. CASE BindExpr
  <2>1. source' = Binding(parsed)
    <3>1. CASE parsed.kind = "node"
      BY <1>2, <3>1 DEF BindExpr, Binding, BoundTo
    <3>2. CASE parsed.kind = "input"
      BY <1>2, <3>2 DEF BindExpr, Binding, BoundTo
    <3>3. CASE parsed.kind = "global"
      BY <1>2, <3>3 DEF BindExpr, Binding, BoundTo
    <3>4. CASE parsed.kind \notin {"node", "input", "global"}
      BY <1>2, <3>4 DEF BindExpr, Binding
    <3>5. QED BY <3>1, <3>2, <3>3, <3>4
  <2>2. /\ expr_phase = "bind" /\ expr_phase' = "done"
        /\ value' = value /\ parsed' = parsed
    BY <1>2 DEF BindExpr
  <2>3. QED BY <2>1, <2>2 DEF ExprInv
<1>3. CASE ExprFinished \/ UNCHANGED expr_vars
  BY <1>3 DEF ExprInv, ExprFinished, expr_vars
<1>4. QED BY <1>1, <1>2, <1>3 DEF ExprNext

(* What is parsed and bound is a function of the value.                    *)
THEOREM ExprInvariance == ExprSpec => []ExprInv
BY ExprInitInv, ExprStepInv, PTL DEF ExprSpec

(* What is bound, of each kind of reference.                               *)
LEMMA SourceIs ==
  ASSUME ExprInv
  PROVE  \/ source = <<>>
         \/ \E n, path : \E g \in BOOLEAN :
              /\ source = BoundTo(n, path, g)
              /\ value.parts # <<>>
              /\ LET e == value.parts[1]
                 IN  /\ Reads(e).from = n /\ Reads(e).global = g
                     /\ e.root = "json" => path = FieldsOf(e)
                     /\ n = Nowhere <=> g
<1>1. SUFFICES ASSUME expr_phase = "done"
               PROVE  \/ source = <<>>
                      \/ \E n, path : \E g \in BOOLEAN :
                           /\ source = BoundTo(n, path, g)
                           /\ value.parts # <<>>
                           /\ LET e == value.parts[1]
                              IN  /\ Reads(e).from = n /\ Reads(e).global = g
                                  /\ e.root = "json" => path = FieldsOf(e)
                                  /\ n = Nowhere <=> g
  BY DEF ExprInv
<1>2. parsed = parse_value(value) /\ source = Binding(parsed) /\ value \in Values
  BY <1>1 DEF ExprInv
<1>3. CASE parsed.kind \in {"unknown", "literal"}
  BY <1>2, <1>3, BindingIs
<1>4. CASE parsed.kind \notin {"unknown", "literal"}
  <2> DEFINE e == value.parts[1]
  <2>1. /\ parsed.kind \in {"node", "input", "global"}
        /\ value.parts # <<>>
        /\ parsed.kind = "node" => e.root = "node" /\ parsed.node = e.node
        /\ parsed.kind = "global" => e.root = "global"
        /\ parsed.kind = "input" => e.root \in {"json", "input"}
        /\ e.root = "json" => parsed.path = FieldsOf(e)
    BY <1>2, <1>4, ParsedIs, Zenon
  <2>2. IsExpression(e)
    BY <1>2, <2>1, ValueIs
  <2>3. Upstream # Nowhere /\ e.node # Nowhere
    BY <2>2, ExpressionAssumption DEF IsExpression
  <2>4. CASE parsed.kind = "node"
    BY <1>2, <2>1, <2>3, <2>4, BindingIs DEF Reads
  <2>5. CASE parsed.kind = "input"
    BY <1>2, <2>1, <2>3, <2>5, BindingIs DEF Reads
  <2>6. CASE parsed.kind = "global"
    BY <1>2, <2>1, <2>3, <2>6, BindingIs DEF Reads
  <2>7. QED BY <2>1, <2>4, <2>5, <2>6
<1>5. QED BY <1>3, <1>4

(* The types of a binding: only the global variables name no node.         *)
THEOREM ExprTypes == ExprSpec => []ExprTypeOK
<1>1. ExprInv => ExprTypeOK
  <2> SUFFICES ASSUME ExprInv PROVE ExprTypeOK
    OBVIOUS
  <2>1. parsed.kind \in {"unknown", "literal", "node", "input", "global"}
    <3>1. Unknown.kind = "unknown"
      BY DEF Unknown
    <3>2. CASE parsed = Unknown
      BY <3>1, <3>2
    <3>3. CASE parsed = parse_value(value)
      BY <3>3, ParsedIs DEF ExprInv
    <3>4. QED BY <3>2, <3>3 DEF ExprInv
  <2>2. Len(source) <= 1 /\ \A s \in ToSet(source) : s.from = Nowhere <=> s.global
    <3>1. CASE source = <<>>
      BY <3>1 DEF ToSet
    <3>2. CASE source # <<>>
      <4>1. PICK n, path : \E g \in BOOLEAN :
              source = BoundTo(n, path, g) /\ (n = Nowhere <=> g)
        BY <3>2, SourceIs
      <4>2. PICK g \in BOOLEAN : source = BoundTo(n, path, g) /\ (n = Nowhere <=> g)
        BY <4>1
      <4> DEFINE b == [from |-> n, path |-> path, global |-> g]
      <4>3. source = <<b>> /\ b.from = n /\ b.global = g
        BY <4>2 DEF BoundTo
      <4> HIDE DEF b
      <4>4. QED BY <4>2, <4>3 DEF ToSet
    <3>3. QED BY <3>1, <3>2
  <2>3. QED BY <2>1, <2>2 DEF ExprTypeOK, ExprInv
<1>2. QED BY <1>1, ExprInvariance, PTL

(* A binding is never made up and never lost, for any value.               *)
THEOREM BindingsAreAlwaysReads == ExprSpec => []BindingsAreReads
<1>1. ExprInv => BindingsAreReads
  <2> SUFFICES ASSUME ExprInv PROVE BindingsAreReads
    OBVIOUS
  <2> DEFINE h == value.parts[1]
  <2>1. ASSUME NEW s \in ToSet(source)
        PROVE  /\ 1 \in DOMAIN value.parts
               /\ Reads(h).from = s.from /\ Reads(h).global = s.global
               /\ h.root = "json" => s.path = FieldsOf(h)
    <3>1. source # <<>>
      BY DEF ToSet
    <3>2. PICK n, path : \E g \in BOOLEAN :
            /\ source = BoundTo(n, path, g)
            /\ value.parts # <<>>
            /\ Reads(h).from = n /\ Reads(h).global = g
            /\ h.root = "json" => path = FieldsOf(h)
      BY <3>1, SourceIs
    <3>3. PICK g \in BOOLEAN :
            /\ source = BoundTo(n, path, g)
            /\ value.parts # <<>>
            /\ Reads(h).from = n /\ Reads(h).global = g
            /\ h.root = "json" => path = FieldsOf(h)
      BY <3>2
    <3>4. s = [from |-> n, path |-> path, global |-> g]
      BY <3>3 DEF ToSet, BoundTo
    <3>5. 1 \in DOMAIN value.parts
      BY <3>3, ValueIs DEF ExprInv
    <3>6. s.from = n /\ s.path = path /\ s.global = g
      BY <3>4
    <3>7. QED BY <3>3, <3>5, <3>6
  <2>2. ASSUME expr_phase = "done", value.parts # <<>>, Plain(h),
               Len(value.parts) = 1 \/ value.text \/ value.tail
        PROVE  source = <<Reads(h)>>
    <3>1. value \in Values /\ parsed = parse_value(value) /\ source = Binding(parsed)
      BY <2>2 DEF ExprInv
    <3>2. ~ Wrapped(value)
      <4>1. CASE Len(value.parts) = 1
        BY <4>1 DEF Wrapped
      <4>2. CASE value.text \/ value.tail
        BY <4>2, Zenon DEF Wrapped
      <4>3. QED BY <2>2, <4>1, <4>2
    <3>3. Extracted(h, parsed) /\ IsExpression(h)
      BY <2>2, <3>1, <3>2, ValueIs
    <3>4. parsed # Unknown /\ parsed.path = FieldsOf(h)
      BY <2>2, <3>3 DEF Extracted
    <3>5. CASE parsed.kind = "node" /\ h.root = "node" /\ parsed.node = h.node
      BY <3>1, <3>4, <3>5, BindingIs DEF Reads, BoundTo, FieldsOf
    <3>6. CASE parsed.kind = "global" /\ h.root = "global"
      BY <3>1, <3>4, <3>6, BindingIs DEF Reads, BoundTo, FieldsOf
    <3>7. CASE parsed.kind = "input" /\ h.root \in {"json", "input"}
      BY <3>1, <3>4, <3>7, BindingIs DEF Reads, BoundTo, FieldsOf
    <3>8. QED BY <3>3, <3>4, <3>5, <3>6, <3>7 DEF Extracted
  <2>3. value.parts # <<>> => Head(value.parts) = h
    BY ValueIs DEF ExprInv
  <2> HIDE DEF h
  <2>4. \A s \in ToSet(source) :
          \E i \in DOMAIN value.parts :
            /\ Reads(value.parts[i]).from = s.from /\ Reads(value.parts[i]).global = s.global
            /\ value.parts[i].root = "json" => s.path = Reads(value.parts[i]).path
    BY <2>1 DEF h, Reads, FieldsOf
  <2>5. QED BY <2>2, <2>3, <2>4 DEF BindingsAreReads
<1>2. QED BY <1>1, ExprInvariance, PTL

-----------------------------------------------------------------------------
(***************************************************************************)
(* CodeBatch.  A node is followed from the loop that collects the scripts  *)
(* to the loop that adapts the nodes.                                      *)
(***************************************************************************)
Choice(i) == code_source(raw_nodes[i], active_branch(raw_nodes[i]))

HasJob(i) == raw_nodes[i].type # "plain" /\ Choice(i).source # Blank

Job(i) == [name |-> raw_nodes[i].name, source |-> Choice(i).source, mode |-> Choice(i).mode]

AllJobs == {Job(i) : i \in {k \in 1..Len(raw_nodes) : HasJob(k)}}

(* The first k nodes have been looked at, and their scripts collected.     *)
Gathered(k) ==
  \A i \in 1..k :
    /\ raw_nodes[i].type # "plain" => Choice(i) # Unsupported
    /\ HasJob(i) => \E j \in 1..Len(jobs) : jobs[j] = Job(i)

Cached ==
  /\ DOMAIN cache = {jobs[j].name : j \in 1..Len(jobs)}
  /\ \A x \in DOMAIN cache : \E j \in 1..Len(jobs) :
       jobs[j].name = x /\ cache[x] = Contract(jobs[j].source, jobs[j].mode)

(* The first k nodes have been adapted, each under a name of its own.      *)
Outcome(i) ==
  IF raw_nodes[i].type = "plain" \/ code_source(raw_nodes[i], "none").source = Blank
  THEN NoSource ELSE cache[raw_nodes[i].name]

Adapted(k) ==
  /\ DOMAIN adapted = {raw_nodes[i].name : i \in 1..k}
  /\ \A i \in 1..k : adapted[raw_nodes[i].name] = Outcome(i)
  /\ \A i, j \in 1..k : raw_nodes[i].name = raw_nodes[j].name => i = j

Raw ==
  /\ raw_nodes \in Seq(ToSet(raw_nodes))
  /\ \A i \in 1..Len(raw_nodes) : IsRawNode(raw_nodes[i])

BatchInv ==
  /\ Raw
  /\ jobs \in Seq(AllJobs)
  /\ batch_phase \in {"collect", "bridge", "batch", "adapt",
                      "done", "duplicate", "unsupported", "infra"}
  /\ at \in 1..(Len(raw_nodes) + 1)
  /\ bridges \in {0, 1}
  /\ batch_phase \in {"collect", "bridge"} => bridges = 0
  /\ batch_phase = "collect" => Gathered(at - 1)
  /\ batch_phase \in {"bridge", "batch", "adapt", "done"} => Gathered(Len(raw_nodes))
  /\ batch_phase \in {"bridge", "batch"} => at = 1
  /\ batch_phase = "batch" =>
       answer = [i \in DOMAIN jobs |-> [ok |-> jobs[i].source \notin Broken]]
  /\ IF batch_phase \in {"adapt", "done", "duplicate"} THEN Cached
     ELSE cache = <<>> /\ adapted = <<>>
  /\ batch_phase \in {"adapt", "done"} => Adapted(at - 1)
  /\ batch_phase = "done" => at = Len(raw_nodes) + 1
  /\ \A x \in DOMAIN adapted : adapted[x].source \in Sources \cup {Blank}

-----------------------------------------------------------------------------
(* Which of its scripts a node is compiled from depends on its edges, that *)
(* it has one does not.                                                    *)
Own(n) == {n.js, n.execute, n.supplyData} \ {Blank}

LEMMA TakenIs ==
  ASSUME NEW src, NEW mode
  PROVE  Taken(src, mode).source = src /\ Taken(src, mode).mode = mode
BY DEF Taken

LEMMA LangchainIs ==
  ASSUME NEW n, NEW b
  PROVE  /\ langchain_code_source(n, b).source \in {n.js, n.execute, n.supplyData}
         /\ langchain_code_source(n, b).source = Blank <=> Own(n) = {}
         /\ Blank \notin {n.execute, n.supplyData} =>
              langchain_code_source(n, b).source =
                IF b = "execute" THEN n.execute ELSE n.supplyData
<1>1. CASE b = "execute"
  <2>1. CASE n.execute # Blank
    BY <1>1, <2>1, TakenIs DEF langchain_code_source, Own
  <2>2. CASE n.execute = Blank /\ n.supplyData # Blank
    BY <1>1, <2>2, TakenIs DEF langchain_code_source, Own
  <2>3. CASE n.execute = Blank /\ n.supplyData = Blank
    BY <1>1, <2>3, TakenIs DEF langchain_code_source, Own
  <2>4. QED BY <2>1, <2>2, <2>3
<1>2. CASE b # "execute"
  <2>1. CASE n.supplyData # Blank
    BY <1>2, <2>1, TakenIs DEF langchain_code_source, Own
  <2>2. CASE n.supplyData = Blank /\ n.execute # Blank
    BY <1>2, <2>2, TakenIs DEF langchain_code_source, Own
  <2>3. CASE n.execute = Blank /\ n.supplyData = Blank
    BY <1>2, <2>3, TakenIs DEF langchain_code_source, Own
  <2>4. QED BY <2>1, <2>2, <2>3
<1>3. QED BY <1>1, <1>2

LEMMA CodeSourceIs ==
  ASSUME NEW n, IsRawNode(n), n.type # "plain", NEW b, code_source(n, b) # Unsupported
  PROVE  /\ code_source(n, b).source \in {n.js, n.execute, n.supplyData}
         /\ code_source(n, b).source = Blank <=> Own(n) = {}
         /\ code_source(n, "none").source = Blank <=> Own(n) = {}
         /\ n.type = "langchain" /\ Blank \notin {n.execute, n.supplyData} =>
              code_source(n, b).source =
                IF b = "execute" THEN n.execute ELSE n.supplyData
<1>1. CASE n.type = "langchain"
  <2>1. \A c : code_source(n, c) = langchain_code_source(n, c)
    BY <1>1 DEF code_source
  <2>2. QED BY <2>1, LangchainIs
<1>2. CASE n.type # "langchain"
  <2>1. n.execute = Blank /\ n.supplyData = Blank
    BY <1>2 DEF IsRawNode
  <2>2. n.type \in {"code", "tool"}
    BY <1>2 DEF IsRawNode, Types
  <2>3. ASSUME NEW c PROVE code_source(n, c).source = n.js /\ code_source(n, c) = code_source(n, b)
    <3>1. CASE n.type = "tool"
      <4>1. \A d : code_source(n, d) =
                   IF n.language = "javaScript" THEN Taken(n.js, "tool") ELSE Unsupported
        BY <3>1 DEF code_source
      <4>2. QED BY <4>1, TakenIs
    <3>2. CASE n.type = "code"
      <4>1. \A d : code_source(n, d) =
                   IF n.js = Blank /\ n.language = "python" THEN Unsupported
                   ELSE Taken(n.js, "runOnceForAllItems")
        BY <3>2 DEF code_source
      <4>2. QED BY <4>1, TakenIs
    <3>3. QED BY <2>2, <3>1, <3>2
  <2>4. QED BY <1>2, <2>1, <2>3 DEF Own
<1>3. QED BY <1>1, <1>2

(* Of the jobs with a name one is the last.                                *)
LEMMA LastNamed ==
  ASSUME NEW S, NEW s \in Seq(S), NEW x, \E i \in 1..Len(s) : s[i].name = x
  PROVE  \E i \in DOMAIN s : s[i].name = x /\ \A k \in (i + 1)..Len(s) : s[k].name # x
<1> DEFINE R == OpToRel(<, Nat)
           Behind == {Len(s) - i : i \in {k \in 1..Len(s) : s[k].name = x}}
<1>1. \A a, b \in Nat : <<a, b>> \in R <=> a < b
  BY DEF OpToRel
<1>2. IsWellFoundedOn(R, Nat)
  BY NatLessThanWellFounded
<1> HIDE DEF R
<1>3. Len(s) \in Nat /\ DOMAIN s = 1..Len(s)
  OBVIOUS
<1>4. Behind \subseteq Nat /\ Behind # {}
  BY <1>3
<1>5. PICK m \in Behind : \A y \in Behind : <<y, m>> \notin R
  BY <1>2, <1>4, WFMin
<1>6. \A y \in Behind : ~ (y < m)
  BY <1>1, <1>4, <1>5, Zenon
<1>7. PICK i \in 1..Len(s) : s[i].name = x /\ m = Len(s) - i
  BY <1>5
<1>8. ASSUME NEW k \in (i + 1)..Len(s), s[k].name = x PROVE FALSE
  <2>1. k \in 1..Len(s) /\ Len(s) - k \in Behind
    BY <1>3, <1>7, <1>8
  <2>2. Len(s) - k < m
    BY <1>3, <1>7, <1>8
  <2>3. QED BY <1>6, <2>1, <2>2
<1>9. QED BY <1>3, <1>7, <1>8

LEMMA CollectInv == BatchInv /\ Collect => BatchInv'
<1> SUFFICES ASSUME BatchInv, Collect PROVE BatchInv'
  OBVIOUS
<1> DEFINE n == raw_nodes[at]
           job == Choice(at)
           new == [name |-> n.name, source |-> job.source, mode |-> job.mode]
<1>1. /\ batch_phase = "collect" /\ at <= Len(raw_nodes) /\ at' = at + 1
      /\ UNCHANGED <<raw_nodes, flow, answer, cache, adapted, bridges>>
  BY DEF Collect
<1>2. /\ Raw /\ jobs \in Seq(AllJobs) /\ bridges = 0 /\ Gathered(at - 1)
      /\ cache = <<>> /\ adapted = <<>>
      /\ at \in 1..Len(raw_nodes) /\ Len(raw_nodes) \in Nat
  BY <1>1 DEF BatchInv, Raw
<1>3. \A i : Choice(i)' = Choice(i)
  BY <1>1 DEF Choice, code_source, active_branch
<1>4. AllJobs' = AllJobs /\ \A i : HasJob(i)' = HasJob(i) /\ Job(i)' = Job(i)
  BY <1>1, <1>3 DEF AllJobs, HasJob, Job
<1>5. CASE n.type # "plain" /\ job = Unsupported
  <2>1. batch_phase' = "unsupported" /\ jobs' = jobs
    BY <1>5 DEF Collect, Choice
  <2>2. QED BY <1>1, <1>2, <1>4, <2>1 DEF BatchInv, Raw
<1>6. CASE ~ (n.type # "plain" /\ job = Unsupported)
  <2>1. /\ batch_phase' = "collect"
        /\ jobs' = IF n.type = "plain" \/ job.source = Blank THEN jobs ELSE Append(jobs, new)
    BY <1>1, <1>6 DEF Collect, Choice
  <2>2. HasJob(at) <=> ~ (n.type = "plain" \/ job.source = Blank)
    BY DEF HasJob
  <2>3. new = Job(at)
    BY DEF Job
  <2>4. jobs' = IF HasJob(at) THEN Append(jobs, Job(at)) ELSE jobs
    BY <2>1, <2>2, <2>3
  <2>5. HasJob(at) => Job(at) \in AllJobs
    BY <1>2 DEF AllJobs
  <2>6. jobs' \in Seq(AllJobs)
    BY <1>2, <2>4, <2>5
  <2>7. \A j \in 1..Len(jobs) : j \in 1..Len(jobs') /\ jobs'[j] = jobs[j]
    BY <1>2, <2>4, <2>5
  <2>8. HasJob(at) => \E j \in 1..Len(jobs') : jobs'[j] = Job(at)
    BY <1>2, <2>4, <2>5
  <2>9. ASSUME NEW i \in 1..at
        PROVE  /\ raw_nodes[i].type # "plain" => Choice(i) # Unsupported
               /\ HasJob(i) => \E j \in 1..Len(jobs') : jobs'[j] = Job(i)
    <3>1. CASE i = at
      BY <1>6, <2>8, <3>1
    <3>2. CASE i # at
      <4>1. i \in 1..(at - 1)
        BY <1>2, <3>2
      <4>2. QED BY <1>2, <2>7, <4>1 DEF Gathered
    <3>3. QED BY <3>1, <3>2
  <2>10. at' - 1 = at
    BY <1>1, <1>2
  <2>11. Gathered(at - 1)'
    BY <1>1, <1>3, <1>4, <2>9, <2>10 DEF Gathered
  <2>12. QED BY <1>1, <1>2, <1>4, <2>1, <2>6, <2>11 DEF BatchInv, Raw
<1>7. QED BY <1>5, <1>6

(* Where the nodes and the scripts stay, what is said of them stays.       *)
LEMMA BatchSame ==
  ASSUME UNCHANGED <<raw_nodes, flow, jobs>>
  PROVE  /\ Raw' = Raw
         /\ AllJobs' = AllJobs
         /\ \A i : Choice(i)' = Choice(i)
         /\ \A k : Gathered(k)' = Gathered(k)
<1>1. \A i : Choice(i)' = Choice(i)
  BY DEF Choice, code_source, active_branch
<1>2. AllJobs' = AllJobs /\ \A i : HasJob(i)' = HasJob(i) /\ Job(i)' = Job(i)
  BY <1>1 DEF AllJobs, HasJob, Job
<1>3. \A k : Gathered(k)' = Gathered(k)
  BY <1>1, <1>2 DEF Gathered
<1>4. QED BY <1>1, <1>2, <1>3 DEF Raw

LEMMA CollectedInv == BatchInv /\ Collected => BatchInv'
<1> SUFFICES ASSUME BatchInv, Collected PROVE BatchInv'
  OBVIOUS
<1>1. /\ batch_phase = "collect" /\ at > Len(raw_nodes) /\ at' = 1
      /\ batch_phase' = IF jobs = <<>> THEN "adapt" ELSE "bridge"
      /\ UNCHANGED <<raw_nodes, flow, jobs, answer, cache, adapted, bridges>>
  BY DEF Collected
<1>2. /\ Raw /\ jobs \in Seq(AllJobs) /\ bridges = 0 /\ Gathered(at - 1)
      /\ cache = <<>> /\ adapted = <<>>
      /\ at \in 1..(Len(raw_nodes) + 1) /\ Len(raw_nodes) \in Nat
  BY <1>1 DEF BatchInv, Raw
<1>3. Raw' /\ AllJobs' = AllJobs /\ \A k : Gathered(k)' = Gathered(k)
  BY <1>1, <1>2, BatchSame
<1>4. at - 1 = Len(raw_nodes)
  BY <1>1, <1>2
<1>5. Gathered(Len(raw_nodes))
  BY <1>2, <1>4
<1>6. Gathered(Len(raw_nodes))'
  BY <1>1, <1>3, <1>5 DEF Gathered
<1>7. at' \in 1..(Len(raw_nodes') + 1)
  BY <1>1, <1>2
<1>8. jobs = <<>> => Cached'
  BY <1>1, <1>2 DEF Cached
<1>9. Adapted(at - 1)'
  BY <1>1, <1>2 DEF Adapted
<1>10. \A x \in DOMAIN adapted' : adapted'[x].source \in Sources \cup {Blank}
  BY <1>1, <1>2
<1>11. CASE jobs = <<>>
  BY <1>1, <1>2, <1>3, <1>6, <1>7, <1>8, <1>9, <1>10, <1>11 DEF BatchInv
<1>12. CASE jobs # <<>>
  BY <1>1, <1>2, <1>3, <1>6, <1>7, <1>10, <1>12 DEF BatchInv
<1>13. QED BY <1>11, <1>12

LEMMA BridgeInv == BatchInv /\ (Run \/ Fail) => BatchInv'
<1> SUFFICES ASSUME BatchInv, Run \/ Fail PROVE BatchInv'
  OBVIOUS
<1>1. /\ batch_phase = "bridge" /\ bridges' = bridges + 1
      /\ batch_phase' \in {"batch", "infra"}
      /\ UNCHANGED <<raw_nodes, flow, jobs, cache, adapted, at>>
      /\ batch_phase' = "batch" =>
           answer' = [i \in DOMAIN jobs |-> [ok |-> jobs[i].source \notin Broken]]
  BY DEF Run, Fail
<1>2. /\ Raw /\ jobs \in Seq(AllJobs) /\ bridges = 0 /\ Gathered(Len(raw_nodes))
      /\ cache = <<>> /\ adapted = <<>> /\ at = 1
      /\ at \in 1..(Len(raw_nodes) + 1)
  BY <1>1 DEF BatchInv
<1>3. Raw' /\ AllJobs' = AllJobs /\ \A k : Gathered(k)' = Gathered(k)
  BY <1>1, <1>2, BatchSame
<1>4. Gathered(Len(raw_nodes))'
  BY <1>1, <1>2, <1>3 DEF Gathered
<1>5. bridges' = 1
  BY <1>1, <1>2
<1>6. QED BY <1>1, <1>2, <1>3, <1>4, <1>5 DEF BatchInv

(* The verdict of the process on a script is the script's own.             *)
LEMMA ContractIs ==
  ASSUME NEW src, NEW mode, NEW ok, ok = (src \notin Broken)
  PROVE  [Contract(src, mode) EXCEPT !.ok = ok] = Contract(src, mode)
<1> DEFINE c == Contract(src, mode)
           d == [c EXCEPT !.ok = ok]
           Alike == [source : {src}, mode : {mode}, ok : BOOLEAN]
<1>1. c \in Alike /\ c.ok = ok
  BY DEF Contract
<1>2. d \in Alike /\ d.ok = ok
  <2>1. ok \in BOOLEAN
    OBVIOUS
  <2> HIDE DEF c
  <2>2. QED BY <1>1, <2>1
<1> HIDE DEF c, d
<1>3. d = c
  BY <1>1, <1>2
<1>4. QED BY <1>3 DEF c, d

LEMMA BatchStepInv == BatchInv /\ Batch => BatchInv'
<1> SUFFICES ASSUME BatchInv, Batch PROVE BatchInv'
  OBVIOUS
<1> DEFINE names == {jobs[i].name : i \in DOMAIN jobs}
           last(x) == CHOOSE i \in DOMAIN jobs :
                        /\ jobs[i].name = x
                        /\ \A k \in i + 1 .. Len(jobs) : jobs[k].name # x
           kept_for(x) == [Contract(jobs[last(x)].source, jobs[last(x)].mode) EXCEPT
                             !.ok = answer[last(x)].ok]
<1>1. /\ batch_phase = "batch" /\ batch_phase' = "adapt"
      /\ UNCHANGED <<raw_nodes, flow, jobs, answer, adapted, bridges, at>>
      /\ cache' = [x \in names |-> kept_for(x)]
  BY DEF Batch
<1>2. /\ Raw /\ jobs \in Seq(AllJobs) /\ Gathered(Len(raw_nodes))
      /\ answer = [i \in DOMAIN jobs |-> [ok |-> jobs[i].source \notin Broken]]
      /\ adapted = <<>> /\ at = 1 /\ at \in 1..(Len(raw_nodes) + 1) /\ bridges \in {0, 1}
  BY <1>1 DEF BatchInv
<1>3. Raw' /\ AllJobs' = AllJobs /\ \A k : Gathered(k)' = Gathered(k)
  BY <1>1, <1>2, BatchSame
<1>4. Gathered(Len(raw_nodes))'
  BY <1>1, <1>2, <1>3 DEF Gathered
<1>5. DOMAIN jobs = 1..Len(jobs)
  BY <1>2
<1>6. ASSUME NEW x \in names
      PROVE  /\ last(x) \in 1..Len(jobs) /\ jobs[last(x)].name = x
             /\ kept_for(x) = Contract(jobs[last(x)].source, jobs[last(x)].mode)
  <2>1. \E i \in 1..Len(jobs) : jobs[i].name = x
    BY <1>5
  <2>2. \E i \in DOMAIN jobs : /\ jobs[i].name = x
                               /\ \A k \in (i + 1)..Len(jobs) : jobs[k].name # x
    BY <1>2, <2>1, LastNamed
  <2>3. last(x) \in DOMAIN jobs /\ jobs[last(x)].name = x
    BY <2>2
  <2> HIDE DEF last
  <2>4. answer[last(x)].ok = (jobs[last(x)].source \notin Broken)
    BY <1>2, <2>3
  <2>5. QED BY <1>5, <2>3, <2>4, ContractIs
<1> HIDE DEF last, kept_for
<1>7. DOMAIN cache' = {jobs[j].name : j \in 1..Len(jobs)}
  BY <1>1, <1>5
<1>8. \A x \in DOMAIN cache' : \E j \in 1..Len(jobs) :
        jobs[j].name = x /\ cache'[x] = Contract(jobs[j].source, jobs[j].mode)
  BY <1>1, <1>6
<1>9. Cached'
  <2> DEFINE Says(x, j) ==
        /\ jobs[j].name = x
        /\ cache'[x] = [source |-> jobs[j].source, mode |-> jobs[j].mode,
                         ok |-> jobs[j].source \notin Broken]
  <2>1. \A x \in DOMAIN cache' : \E j \in 1..Len(jobs) : Says(x, j)
    BY <1>8 DEF Contract
  <2>2. jobs' = jobs
    BY <1>1
  <2>3. (\A x \in DOMAIN cache : \E j \in 1..Len(jobs) :
           jobs[j].name = x /\ cache[x] = Contract(jobs[j].source, jobs[j].mode))'
    BY <2>1, <2>2 DEF Contract
  <2>4. (DOMAIN cache = {jobs[j].name : j \in 1..Len(jobs)})'
    BY <1>7, <2>2
  <2>5. QED BY <2>3, <2>4 DEF Cached
<1>10. Adapted(at - 1)'
  BY <1>1, <1>2 DEF Adapted
<1>11. \A x \in DOMAIN adapted' : adapted'[x].source \in Sources \cup {Blank}
  BY <1>1, <1>2
<1>12. QED BY <1>1, <1>2, <1>3, <1>4, <1>9, <1>10, <1>11 DEF BatchInv

(* The contract in the cache under the name of a job is that of a job.     *)
LEMMA CacheIs ==
  ASSUME Raw, jobs \in Seq(AllJobs), Cached, NEW x \in DOMAIN cache
  PROVE  \E i \in 1..Len(raw_nodes) :
           /\ HasJob(i) /\ raw_nodes[i].name = x
           /\ cache[x] = Contract(Choice(i).source, Choice(i).mode)
<1>1. PICK j \in 1..Len(jobs) :
        jobs[j].name = x /\ cache[x] = Contract(jobs[j].source, jobs[j].mode)
  BY DEF Cached
<1>2. jobs[j] \in AllJobs
  BY <1>1
<1>3. PICK i \in 1..Len(raw_nodes) : HasJob(i) /\ jobs[j] = Job(i)
  BY <1>2 DEF AllJobs
<1>4. /\ jobs[j].name = raw_nodes[i].name /\ jobs[j].source = Choice(i).source
      /\ jobs[j].mode = Choice(i).mode
  BY <1>3 DEF Job
<1>5. QED BY <1>1, <1>3, <1>4

(* No node is compiled alone: the cache has a contract for each that has a *)
(* script.                                                                 *)
LEMMA NeverAlone ==
  ASSUME Raw, jobs \in Seq(AllJobs), Cached, Gathered(Len(raw_nodes)),
         NEW i \in 1..Len(raw_nodes), raw_nodes[i].type # "plain"
  PROVE  /\ Choice(i) # Unsupported
         /\ code_source(raw_nodes[i], "none").source = Blank <=> ~ HasJob(i)
         /\ HasJob(i) => raw_nodes[i].name \in DOMAIN cache
<1>1. IsRawNode(raw_nodes[i]) /\ Choice(i) # Unsupported
  BY DEF Raw, Gathered
<1>2. code_source(raw_nodes[i], "none").source = Blank <=> Choice(i).source = Blank
  BY <1>1, CodeSourceIs DEF Choice
<1>3. ASSUME HasJob(i) PROVE raw_nodes[i].name \in DOMAIN cache
  <2>1. PICK j \in 1..Len(jobs) : jobs[j] = Job(i)
    BY <1>3 DEF Gathered
  <2>2. jobs[j].name = raw_nodes[i].name
    BY <2>1 DEF Job
  <2>3. QED BY <2>2 DEF Cached
<1>4. QED BY <1>1, <1>2, <1>3 DEF HasJob

LEMMA AdaptCodeInv == BatchInv /\ AdaptCode => BatchInv'
<1> SUFFICES ASSUME BatchInv, AdaptCode PROVE BatchInv'
  OBVIOUS
<1> DEFINE n == raw_nodes[at]
           found == code_source(n, "none")
           alone == found.source # Blank /\ n.name \notin DOMAIN cache
           contract == IF n.type = "plain" \/ found.source = Blank THEN NoSource
                       ELSE IF alone THEN Contract(found.source, found.mode)
                       ELSE cache[n.name]
           extended == [x \in DOMAIN adapted \cup {n.name} |->
                          IF x = n.name THEN contract ELSE adapted[x]]
<1>1. /\ batch_phase = "adapt" /\ at <= Len(raw_nodes) /\ at' = at + 1
      /\ UNCHANGED <<raw_nodes, flow, jobs, answer, cache>>
      /\ bridges' = IF n.type # "plain" /\ alone
                    THEN bridges + (IF found.source \in Broken THEN 1 ELSE 2) ELSE bridges
      /\ IF n.name \in DOMAIN adapted
         THEN batch_phase' = "duplicate" /\ UNCHANGED adapted
         ELSE adapted' = extended /\ UNCHANGED batch_phase
  BY DEF AdaptCode
<1>2. /\ Raw /\ jobs \in Seq(AllJobs) /\ Gathered(Len(raw_nodes)) /\ Cached
      /\ Adapted(at - 1) /\ bridges \in {0, 1}
      /\ \A x \in DOMAIN adapted : adapted[x].source \in Sources \cup {Blank}
      /\ at \in 1..Len(raw_nodes) /\ Len(raw_nodes) \in Nat
  BY <1>1 DEF BatchInv, Raw
<1>3. Raw' /\ AllJobs' = AllJobs /\ \A k : Gathered(k)' = Gathered(k)
  BY <1>1, <1>2, BatchSame
<1>4. Gathered(Len(raw_nodes))' /\ Cached'
  <2>1. \A i : Choice(i)' = Choice(i) /\ HasJob(i)' = HasJob(i) /\ Job(i)' = Job(i)
    BY <1>1 DEF Choice, HasJob, Job, code_source, active_branch
  <2>2. QED BY <1>1, <1>2, <2>1 DEF Gathered, Cached
<1>5. \A i : Outcome(i)' = Outcome(i)
  BY <1>1 DEF Outcome, code_source
<1>6. n.type # "plain" => ~ alone
  BY <1>2, NeverAlone
<1>7. bridges' = bridges
  BY <1>1, <1>6
<1>8. contract = Outcome(at)
  <2>1. CASE n.type = "plain" \/ found.source = Blank
    BY <2>1 DEF Outcome
  <2>2. CASE ~ (n.type = "plain" \/ found.source = Blank)
    BY <1>6, <2>2 DEF Outcome
  <2>3. QED BY <2>1, <2>2
<1>9. contract.source \in Sources \cup {Blank}
  <2>1. CASE n.type = "plain" \/ found.source = Blank
    BY <2>1 DEF NoSource
  <2>2. CASE ~ (n.type = "plain" \/ found.source = Blank)
    <3>1. n.name \in DOMAIN cache /\ contract = cache[n.name]
      BY <1>6, <2>2
    <3>2. PICK i \in 1..Len(raw_nodes) :
            HasJob(i) /\ cache[n.name] = Contract(Choice(i).source, Choice(i).mode)
      BY <1>2, <3>1, CacheIs
    <3>3. IsRawNode(raw_nodes[i]) /\ raw_nodes[i].type # "plain" /\ Choice(i) # Unsupported
      BY <1>2, <3>2, NeverAlone DEF HasJob, Raw
    <3>4. Choice(i).source \in Sources \cup {Blank}
      BY <3>3, CodeSourceIs DEF IsRawNode, Choice
    <3>5. Contract(Choice(i).source, Choice(i).mode).source = Choice(i).source
      BY DEF Contract
    <3>6. QED BY <3>1, <3>2, <3>4, <3>5
  <2>3. QED BY <2>1, <2>2
<1> HIDE DEF contract, alone, found
<1>10. CASE n.name \in DOMAIN adapted
  <2>1. batch_phase' = "duplicate" /\ adapted' = adapted
    BY <1>1, <1>10
  <2>2. at' \in 1..(Len(raw_nodes) + 1)
    BY <1>1, <1>2
  <2>3. QED BY <1>1, <1>2, <1>3, <1>4, <1>7, <2>1, <2>2 DEF BatchInv
<1>11. CASE n.name \notin DOMAIN adapted
  <2>1. batch_phase' = "adapt" /\ adapted' = extended
    BY <1>1, <1>11
  <2>2. at' - 1 = at /\ at' \in 1..(Len(raw_nodes) + 1)
    BY <1>1, <1>2
  <2>3. /\ DOMAIN adapted' = DOMAIN adapted \cup {n.name}
        /\ adapted'[n.name] = contract
        /\ \A x \in DOMAIN adapted : adapted'[x] = adapted[x]
    BY <1>11, <2>1
  <2>4. \A i \in 1..at : i = at \/ i \in 1..(at - 1)
    BY <1>2
  <2>5. 1..at = 1..(at - 1) \cup {at}
    BY <1>2
  <2>6. DOMAIN adapted' = {raw_nodes[i].name : i \in 1..at}
    BY <1>2, <2>3, <2>5 DEF Adapted
  <2>7. \A i \in 1..at : adapted'[raw_nodes[i].name] = Outcome(i)
    BY <1>2, <1>8, <2>3, <2>4 DEF Adapted
  <2>8. \A i \in 1..(at - 1) : raw_nodes[i].name # n.name
    BY <1>2, <1>11 DEF Adapted
  <2>9. \A i, j \in 1..at : raw_nodes[i].name = raw_nodes[j].name => i = j
    BY <1>2, <2>4, <2>8 DEF Adapted
  <2>10. Adapted(at - 1)'
    BY <1>1, <1>5, <2>2, <2>6, <2>7, <2>9 DEF Adapted
  <2>11. \A x \in DOMAIN adapted' : adapted'[x].source \in Sources \cup {Blank}
    BY <1>2, <1>9, <2>3
  <2>12. QED BY <1>1, <1>2, <1>3, <1>4, <1>7, <2>1, <2>2, <2>10, <2>11 DEF BatchInv
<1>12. QED BY <1>10, <1>11

LEMMA RestInv == BatchInv /\ (AdaptDone \/ BatchFinished \/ UNCHANGED batch_vars) => BatchInv'
<1> SUFFICES ASSUME BatchInv, AdaptDone \/ BatchFinished \/ UNCHANGED batch_vars
             PROVE  BatchInv'
  OBVIOUS
<1>1. UNCHANGED <<raw_nodes, flow, jobs, answer, cache, adapted, bridges, at>>
  BY DEF AdaptDone, BatchFinished, batch_vars
<1>2. Raw /\ Raw' /\ AllJobs' = AllJobs /\ \A k : Gathered(k)' = Gathered(k)
  BY <1>1, BatchSame DEF BatchInv
<1>3. /\ Gathered(Len(raw_nodes))' = Gathered(Len(raw_nodes))
      /\ Gathered(at - 1)' = Gathered(at - 1)
      /\ Cached' = Cached
  <2>1. \A i : Choice(i)' = Choice(i) /\ HasJob(i)' = HasJob(i) /\ Job(i)' = Job(i)
    BY <1>1 DEF Choice, HasJob, Job, code_source, active_branch
  <2>2. QED BY <1>1, <2>1 DEF Gathered, Cached
<1>4. Adapted(at - 1)' = Adapted(at - 1)
  <2>1. \A i : Outcome(i)' = Outcome(i)
    BY <1>1 DEF Outcome, code_source
  <2>2. QED BY <1>1, <2>1 DEF Adapted
<1>5. CASE batch_phase' = batch_phase
  BY <1>1, <1>2, <1>3, <1>4, <1>5 DEF BatchInv
<1>6. CASE AdaptDone
  <2>1. batch_phase = "adapt" /\ batch_phase' = "done" /\ at > Len(raw_nodes)
    BY <1>6 DEF AdaptDone
  <2>2. at = Len(raw_nodes) + 1
    BY <2>1, <1>2 DEF BatchInv, Raw
  <2>3. QED BY <1>1, <1>2, <1>3, <1>4, <2>1, <2>2 DEF BatchInv
<1>7. QED BY <1>5, <1>6 DEF BatchFinished, batch_vars

LEMMA BatchInitInv == BatchInit => BatchInv
<1> SUFFICES ASSUME BatchInit PROVE BatchInv
  OBVIOUS
<1>1. PICK w \in Workflows : raw_nodes = w.nodes
  BY DEF BatchInit
<1>2. raw_nodes \in Seq(ToSet(raw_nodes)) /\ \A n \in ToSet(raw_nodes) : IsRawNode(n)
  BY <1>1, CodeBatchAssumption
<1>3. Raw
  BY <1>2 DEF Raw, ToSet
<1>4. at \in 1..(Len(raw_nodes) + 1) /\ at - 1 = 0
  BY <1>2 DEF BatchInit
<1>5. Gathered(at - 1)
  BY <1>4 DEF Gathered
<1>6. QED BY <1>3, <1>4, <1>5 DEF BatchInit, BatchInv

(* The cache and the adapted nodes are what the scripts collected so far   *)
(* make of them, and no node has parsed a script alone.                    *)
THEOREM BatchInvariance == BatchSpec => []BatchInv
<1>1. BatchInv /\ [BatchNext]_batch_vars => BatchInv'
  BY CollectInv, CollectedInv, BridgeInv, BatchStepInv, AdaptCodeInv, RestInv DEF BatchNext
<1>2. QED BY <1>1, BatchInitInv, PTL DEF BatchSpec

(* The types of the batch: no contract is of a script nobody wrote.        *)
THEOREM BatchTypes == BatchSpec => []BatchTypeOK
<1>1. BatchInv => BatchTypeOK
  <2> SUFFICES ASSUME BatchInv PROVE BatchTypeOK
    OBVIOUS
  <2>1. Raw /\ jobs \in Seq(AllJobs)
    BY DEF BatchInv
  <2>2. ASSUME NEW k \in 1..Len(raw_nodes), HasJob(k) PROVE Choice(k).source \in Sources
    <3>1. IsRawNode(raw_nodes[k]) /\ raw_nodes[k].type # "plain" /\ Choice(k).source # Blank
      BY <2>1, <2>2 DEF Raw, HasJob
    <3>2. CASE Choice(k) = Unsupported
      BY <3>1, <3>2 DEF Unsupported, Taken
    <3>3. CASE Choice(k) # Unsupported
      BY <3>1, <3>3, CodeSourceIs DEF Choice, IsRawNode
    <3>4. QED BY <3>2, <3>3
  <2>3. \A i \in DOMAIN jobs : jobs[i].source \in Sources
    <3>1. TAKE i \in DOMAIN jobs
    <3>2. jobs[i] \in AllJobs
      BY <2>1
    <3>3. PICK k \in 1..Len(raw_nodes) : HasJob(k) /\ jobs[i] = Job(k)
      BY <3>2 DEF AllJobs
    <3>4. jobs[i].source = Choice(k).source
      BY <3>3 DEF Job
    <3>5. QED BY <2>2, <3>3, <3>4
  <2>4. DOMAIN cache \subseteq {raw_nodes[i].name : i \in DOMAIN raw_nodes}
    <3>1. CASE batch_phase \in {"adapt", "done", "duplicate"}
      <4>1. Cached
        BY <3>1 DEF BatchInv
      <4>2. ASSUME NEW x \in DOMAIN cache PROVE x \in {raw_nodes[i].name : i \in DOMAIN raw_nodes}
        <5>1. PICK i \in 1..Len(raw_nodes) : raw_nodes[i].name = x
          BY <2>1, <4>1, CacheIs
        <5>2. DOMAIN raw_nodes = 1..Len(raw_nodes)
          BY <2>1 DEF Raw
        <5>3. QED BY <5>1, <5>2
      <4>3. QED BY <4>2
    <3>2. CASE batch_phase \notin {"adapt", "done", "duplicate"}
      BY <3>2 DEF BatchInv
    <3>3. QED BY <3>1, <3>2
  <2>5. QED BY <2>3, <2>4 DEF BatchTypeOK, BatchInv
<1>2. QED BY <1>1, BatchInvariance, PTL

(* However many scripts a workflow has, one process parses them all.       *)
THEOREM OneProcessAlways == BatchSpec => []OneProcess
<1>1. BatchInv => OneProcess
  BY DEF BatchInv, OneProcess
<1>2. QED BY <1>1, BatchInvariance, PTL

LEMMA ContractSays ==
  ASSUME NEW s, NEW m
  PROVE  Contract(s, m).source = s /\ (Contract(s, m).ok <=> s \notin Broken)
BY Zenon DEF Contract

(* A contract is that of a script of its own node, the one its edges call  *)
(* for, for any number of nodes and whatever names they share.             *)
THEOREM ContractsAreOwn == BatchSpec => []ContractIsOwn
<1>1. BatchInv => ContractIsOwn
  <2> SUFFICES ASSUME BatchInv, batch_phase = "done",
                      NEW i \in DOMAIN raw_nodes, raw_nodes[i].type # "plain"
               PROVE  LET n == raw_nodes[i]
                          c == adapted[n.name]
                          own == {n.js, n.execute, n.supplyData} \ {Blank}
                          both == n.type = "langchain" /\ Blank \notin {n.execute, n.supplyData}
                      IN  /\ own = {} => c = NoSource
                          /\ own # {} => c.source \in own /\ (c.ok <=> c.source \notin Broken)
                          /\ both /\ "main" \in flow[n.name] => c.source = n.execute
                          /\ both /\ flow[n.name] = {"ai"} => c.source = n.supplyData
    BY DEF ContractIsOwn
  <2> DEFINE n == raw_nodes[i]
             c == adapted[n.name]
             both == n.type = "langchain" /\ Blank \notin {n.execute, n.supplyData}
  <2>1. /\ Raw /\ jobs \in Seq(AllJobs) /\ Cached /\ Gathered(Len(raw_nodes))
        /\ Adapted(at - 1) /\ at = Len(raw_nodes) + 1
    BY DEF BatchInv
  <2>2. at - 1 = Len(raw_nodes) /\ DOMAIN raw_nodes = 1..Len(raw_nodes)
    BY <2>1 DEF Raw
  <2>3. i \in 1..Len(raw_nodes) /\ Adapted(Len(raw_nodes))
    BY <2>1, <2>2
  <2>4. c = Outcome(i)
    BY <2>3 DEF Adapted
  <2>5. IsRawNode(n)
    BY <2>1, <2>3 DEF Raw
  <2>6. /\ Choice(i) # Unsupported
        /\ code_source(n, "none").source = Blank <=> ~ HasJob(i)
        /\ HasJob(i) => n.name \in DOMAIN cache
    BY <2>1, <2>3, NeverAlone
  <2>7. /\ Choice(i).source \in {n.js, n.execute, n.supplyData}
        /\ Choice(i).source = Blank <=> Own(n) = {}
        /\ both => Choice(i).source =
                     IF active_branch(n) = "execute" THEN n.execute ELSE n.supplyData
    BY <2>5, <2>6, CodeSourceIs DEF Choice
  <2>8. CASE ~ HasJob(i)
    <3>1. c = NoSource /\ Own(n) = {}
      BY <2>4, <2>6, <2>7, <2>8 DEF Outcome, HasJob
    <3>2. ~ both
      BY <3>1 DEF Own
    <3>3. QED BY <3>1, <3>2 DEF Own
  <2>9. CASE HasJob(i)
    <3>1. c = cache[n.name]
      BY <2>4, <2>6, <2>9 DEF Outcome
    <3>2. PICK k \in 1..Len(raw_nodes) :
            /\ HasJob(k) /\ raw_nodes[k].name = n.name
            /\ cache[n.name] = Contract(Choice(k).source, Choice(k).mode)
      BY <2>1, <2>6, <2>9, CacheIs
    <3>3. k = i
      BY <2>3, <3>2 DEF Adapted
    <3>4. c = Contract(Choice(i).source, Choice(i).mode)
      BY <3>1, <3>2, <3>3
    <3>5. c.source = Choice(i).source /\ (c.ok <=> c.source \notin Broken)
      BY <3>4, ContractSays
    <3>6. Own(n) # {} /\ c.source \in Own(n)
      BY <2>7, <2>9, <3>5 DEF HasJob, Own
    <3>7. ASSUME both PROVE /\ "main" \in flow[n.name] => c.source = n.execute
                            /\ flow[n.name] = {"ai"} => c.source = n.supplyData
      <4>1. "main" \in flow[n.name] => active_branch(n) = "execute"
        BY <3>7 DEF active_branch
      <4>2. flow[n.name] = {"ai"} => active_branch(n) = "supplyData"
        BY <3>7 DEF active_branch
      <4>3. QED BY <2>7, <3>5, <3>7, <4>1, <4>2
    <3>8. QED BY <3>5, <3>6, <3>7 DEF Own
  <2>10. QED BY <2>8, <2>9
<1>2. QED BY <1>1, BatchInvariance, PTL

-----------------------------------------------------------------------------
(***************************************************************************)
(* CodeFlow.  The walk has found what the levels visited so far record,    *)
(* what is bound comes from what was found, and what is reported from what *)
(* is bound; in each of the three nothing is left out either.              *)
(***************************************************************************)
Chains == script[Down].accesses

Visited(k, i) == k <= walked \/ (k = walked + 1 /\ i > Tip(Chains[k]) - inward)

Walk ==
  /\ walked \in 0 .. Len(Chains)
  /\ inward \in Nat
  /\ walked < Len(Chains) => inward <= Tip(Chains[walked + 1])
  /\ walked = Len(Chains) => inward = 0
  /\ IsSequence(deps)

Found ==
  /\ \A d \in ToSet(deps) :
       \E k \in DOMAIN Chains : \E i \in 0 .. Tip(Chains[k]) : d \in ToSet(level_dep(Chains[k], i))
  /\ \A k \in DOMAIN Chains : \A i \in 0 .. Tip(Chains[k]) :
       Visited(k, i) => ToSet(level_dep(Chains[k], i)) \subseteq ToSet(deps)

(* What the phases know of the contracts and of what they have to do.      *)
Stage ==
  /\ flow_phase \in {"precompile", "bind", "validate", "done"}
  /\ flow_phase = "precompile" => input_sources = <<>> /\ issues = {}
  /\ flow_phase # "precompile" =>
       /\ walked = Len(Chains)
       /\ contracts = [n \in {Up, Down} |->
                        contract_from_ast(script[n], IF n = Down THEN deps ELSE <<>>)]
  /\ flow_phase = "bind" => ToSet(todo) \subseteq ToSet(deps) /\ issues = {}
  /\ flow_phase = "validate" => ToSet(todo) \subseteq ToSet(input_sources)
  /\ IsSequence(todo)

Bound ==
  /\ IsSequence(input_sources)
  /\ \A s \in ToSet(input_sources) : \E d \in ToSet(deps) : s \in ToSet(bind(d))
  /\ flow_phase # "precompile" =>
       \A d \in ToSet(deps) :
         \/ flow_phase = "bind" /\ d \in ToSet(todo)
         \/ ToSet(bind(d)) \subseteq ToSet(input_sources)

CodeErrors == {<<"code_syntax_error", [from |-> n, path |-> <<>>]>> :
             n \in {m \in {Up, Down} : contracts[m].errors # {}}}

Reported ==
  flow_phase \in {"validate", "done"} =>
    /\ \A p \in issues :
         \/ \E s \in ToSet(input_sources) : p = <<issue(s), s>> /\ issue(s) # "none"
         \/ flow_phase = "done" /\ p \in CodeErrors
    /\ \A s \in ToSet(input_sources) :
         \/ flow_phase = "validate" /\ s \in ToSet(todo)
         \/ issue(s) = "none"
         \/ <<issue(s), s>> \in issues

Given == script \in Programs /\ inputs \in {{Up}, {Up, Other}}

FlowInv == Given /\ Walk /\ Found /\ Stage /\ Bound /\ Reported

-----------------------------------------------------------------------------
(* What sequences and the operators on them hold.                          *)

LEMMA SetOfConcat ==
  ASSUME NEW s, NEW t, IsSequence(s), IsSequence(t)
  PROVE  IsSequence(s \o t) /\ ToSet(s \o t) = ToSet(s) \cup ToSet(t)
<1> DEFINE S == ToSet(s)
           T == ToSet(t)
<1>1. s \in Seq(S) /\ t \in Seq(T) /\ S = {s[i] : i \in DOMAIN s} /\ T = {t[i] : i \in DOMAIN t}
  BY DEF IsSequence, ToSet
<1> HIDE DEF S, T
<1>2. s \o t \in Seq(S \cup T)
  BY <1>1
<1>3. \A i \in DOMAIN (s \o t) : (s \o t)[i] \in S \cup T
  BY <1>2
<1>4. \A i \in DOMAIN s : i \in DOMAIN (s \o t) /\ (s \o t)[i] = s[i]
  BY <1>1
<1>5. \A i \in DOMAIN t : Len(s) + i \in DOMAIN (s \o t) /\ (s \o t)[Len(s) + i] = t[i]
  BY <1>1
<1> DEFINE r == s \o t
           R == ToSet(r)
<1>6. R = {r[i] : i \in DOMAIN r}
  BY DEF ToSet
<1>7. /\ \A i \in DOMAIN r : r[i] \in S \cup T
      /\ \A i \in DOMAIN s : i \in DOMAIN r /\ r[i] = s[i]
      /\ \A i \in DOMAIN t : Len(s) + i \in DOMAIN r /\ r[Len(s) + i] = t[i]
  BY <1>3, <1>4, <1>5
<1>8. S = {s[i] : i \in DOMAIN s} /\ T = {t[i] : i \in DOMAIN t}
  BY <1>1
<1> HIDE DEF r, R
<1>9. R \subseteq S \cup T
  BY <1>6, <1>7
<1>10. S \subseteq R /\ T \subseteq R
  BY <1>6, <1>7, <1>8
<1>11. R = S \cup T
  BY <1>9, <1>10
<1>12. r \in Seq(R)
  BY <1>2, <1>11 DEF r
<1>13. QED BY <1>11, <1>12 DEF IsSequence, S, T, R, r

LEMMA SetOfTail ==
  ASSUME NEW s, IsSequence(s), s # <<>>
  PROVE  /\ IsSequence(Tail(s))
         /\ Head(s) \in ToSet(s)
         /\ ToSet(Tail(s)) \subseteq ToSet(s)
         /\ ToSet(s) = {Head(s)} \cup ToSet(Tail(s))
<1>1. ToSet(s) = {s[i] : i \in DOMAIN s}
  BY DEF ToSet
<1> DEFINE S == ToSet(s)
<1>2. s \in Seq(S)
  BY DEF IsSequence
<1> HIDE DEF S
<1>3. Tail(s) \in Seq(S) /\ Len(s) \in Nat \ {0} /\ Len(Tail(s)) = Len(s) - 1 /\ Head(s) = s[1] /\ 1 \in DOMAIN s
  BY <1>2
<1>4. \A i \in DOMAIN Tail(s) : Tail(s)[i] = s[i + 1] /\ i + 1 \in DOMAIN s
  BY <1>2, <1>3
<1>5. \A i \in DOMAIN s : i # 1 => i - 1 \in DOMAIN Tail(s) /\ Tail(s)[i - 1] = s[i]
  BY <1>2, <1>3
<1> DEFINE t == Tail(s)
           T == ToSet(t)
<1>6. S = {s[i] : i \in DOMAIN s}
  BY <1>1 DEF S
<1>7. T = {t[i] : i \in DOMAIN t}
  BY DEF ToSet
<1>8. /\ t \in Seq(S) /\ Head(s) = s[1] /\ 1 \in DOMAIN s
      /\ \A i \in DOMAIN t : t[i] = s[i + 1] /\ i + 1 \in DOMAIN s
      /\ \A i \in DOMAIN s : i # 1 => i - 1 \in DOMAIN t /\ t[i - 1] = s[i]
  BY <1>3, <1>4, <1>5
<1> HIDE DEF t, T
<1>9. T \subseteq S /\ Head(s) \in S
  BY <1>6, <1>7, <1>8
<1>10. S \subseteq {Head(s)} \cup T
  <2>1. SUFFICES ASSUME NEW i \in DOMAIN s PROVE s[i] \in {Head(s)} \cup T
    BY <1>6
  <2>2. CASE i = 1
    BY <1>8, <2>2
  <2>3. CASE i # 1
    BY <1>6, <1>7, <1>8, <2>3
  <2>4. QED BY <2>2, <2>3
<1>11. t \in Seq(T)
  <2>1. \A i \in DOMAIN t : t[i] \in T
    BY <1>7
  <2>2. QED BY <1>8, <2>1
<1>12. S = {Head(s)} \cup T
  BY <1>9, <1>10
<1>13. QED BY <1>9, <1>11, <1>12 DEF IsSequence, S, T, t

LEMMA SetOfOne ==
  /\ IsSequence(<<>>) /\ ToSet(<<>>) = {}
  /\ \A x : IsSequence(<<x>>) /\ ToSet(<<x>>) = {x}
<1>1. IsSequence(<<>>) /\ ToSet(<<>>) = {}
  BY DEF IsSequence, ToSet
<1>2. ASSUME NEW x PROVE IsSequence(<<x>>) /\ ToSet(<<x>>) = {x}
  BY DEF IsSequence, ToSet
<1>3. QED BY <1>1, <1>2

(* A level records one dependency or none.                                 *)
LEMMA OneDependency ==
  ASSUME NEW c, NEW i
  PROVE  level_dep(c, i) = NoDep \/ \E d : level_dep(c, i) = <<d>>
<1>1. member_chain(c) = NoDep \/ \E d : member_chain(c) = <<d>>
  BY Zenon DEF member_chain, Dep
<1>2. QED BY <1>1, Zenon DEF level_dep, Dep

LEMMA AddKeeps ==
  ASSUME NEW s, IsSequence(s), NEW c, NEW i
  PROVE  /\ IsSequence(Add(s, level_dep(c, i)))
         /\ ToSet(Add(s, level_dep(c, i))) = ToSet(s) \cup ToSet(level_dep(c, i))
<1>1. CASE level_dep(c, i) = NoDep
  <2>1. ToSet(level_dep(c, i)) = {}
    BY <1>1, SetOfOne DEF NoDep
  <2>2. Add(s, level_dep(c, i)) = s
    BY <1>1 DEF Add
  <2>3. QED BY <2>1, <2>2
<1>2. CASE level_dep(c, i) # NoDep
  <2>1. PICK d : level_dep(c, i) = <<d>>
    BY <1>2, OneDependency
  <2>2. IsSequence(<<d>>) /\ ToSet(<<d>>) = {d} /\ <<d>>[1] = d
    BY SetOfOne
  <2>3. CASE Contains(s, d)
    <3>1. d \in ToSet(s)
      BY <2>3 DEF Contains, ToSet, IsSequence
    <3>2. Add(s, level_dep(c, i)) = s
      BY <2>1, <2>2, <2>3 DEF Add
    <3>3. QED BY <2>1, <2>2, <3>1, <3>2
  <2>4. CASE ~ Contains(s, d)
    <3>1. Add(s, level_dep(c, i)) = s \o <<d>>
      BY <1>2, <2>1, <2>2, <2>4 DEF Add
    <3>2. IsSequence(s \o <<d>>) /\ ToSet(s \o <<d>>) = ToSet(s) \cup {d}
      BY <2>2, SetOfConcat
    <3>3. QED BY <2>1, <2>2, <3>1, <3>2
  <2>5. QED BY <2>3, <2>4
<1>3. QED BY <1>1, <1>2

(* A dependency is bound to one source or to none.                         *)
LEMMA OneSource ==
  ASSUME NEW d
  PROVE  IsSequence(bind(d))
<1>1. bind(d) = <<>> \/ \E s : bind(d) = <<s>>
  BY Zenon DEF bind
<1>2. QED BY <1>1, SetOfOne

LEMMA ProgramFacts ==
  ASSUME Given
  PROVE  /\ DOMAIN script = {Up, Down} /\ Up # Down
         /\ script[Up].accesses = <<>>
         /\ IsSequence(Chains) /\ Len(Chains) \in Nat /\ DOMAIN Chains = 1 .. Len(Chains)
         /\ \A k \in DOMAIN Chains : IsSequence(Chains[k].steps) /\ Tip(Chains[k]) \in Nat
         /\ IsSequence(script[Up].returns)
<1>1. /\ DOMAIN script = {Up, Down} /\ Up # Down
      /\ script[Up].accesses = <<>>
      /\ IsSequence(Chains)
      /\ \A c \in ToSet(Chains) : IsSequence(c.steps)
      /\ IsSequence(script[Up].returns)
  BY CodeFlowAssumption DEF Given, Chains
<1>2. Len(Chains) \in Nat /\ DOMAIN Chains = 1 .. Len(Chains)
  BY <1>1 DEF IsSequence
<1>3. \A k \in DOMAIN Chains : IsSequence(Chains[k].steps)
  BY <1>1 DEF ToSet
<1>4. \A k \in DOMAIN Chains : Tip(Chains[k]) \in Nat
  BY <1>3 DEF Tip, IsSequence
<1>5. QED BY <1>1, <1>2, <1>3, <1>4

(* The steps of a chain are a sequence.                                    *)
LEMMA StepsAreSequences ==
  ASSUME Given
  PROVE  \A c \in Accesses : IsSequence(c.steps)
<1>1. \A k \in DOMAIN Chains : IsSequence(Chains[k].steps)
  BY ProgramFacts
<1>2. \A c \in ToSet(Chains) : \E k \in DOMAIN Chains : c = Chains[k]
  BY DEF ToSet
<1>3. Accesses = ToSet(Chains)
  BY DEF Accesses, Chains
<1>4. QED BY <1>1, <1>2, <1>3

-----------------------------------------------------------------------------
(* The walk visits one level after the other and leaves none out.          *)
LEMMA VisitKeeps ==
  ASSUME FlowInv, Visit
  PROVE  FlowInv'
<1> DEFINE c == Chains[walked + 1]
           next == Tip(c) - inward
<1>1. /\ flow_phase = "precompile" /\ walked < Len(Chains)
      /\ deps' = Add(deps, level_dep(c, next))
      /\ IF inward < Tip(c) THEN inward' = inward + 1 /\ UNCHANGED walked
                            ELSE inward' = 0 /\ walked' = walked + 1
      /\ UNCHANGED <<script, inputs, contracts, input_sources, issues, todo, flow_phase>>
  BY DEF Visit, Chains
<1>2. /\ DOMAIN script = {Up, Down} /\ Len(Chains) \in Nat /\ DOMAIN Chains = 1 .. Len(Chains)
      /\ \A k \in DOMAIN Chains : Tip(Chains[k]) \in Nat
  BY ProgramFacts DEF FlowInv
<1>3. Given' /\ Chains' = Chains
  BY <1>1 DEF FlowInv, Given, Chains
<1>4. /\ walked \in 0 .. Len(Chains) /\ inward \in Nat /\ inward <= Tip(c) /\ IsSequence(deps)
      /\ walked + 1 \in DOMAIN Chains /\ Tip(c) \in Nat /\ next \in 0 .. Tip(c)
  <2>1. walked \in 0 .. Len(Chains) /\ inward \in Nat /\ inward <= Tip(c) /\ IsSequence(deps)
    BY <1>1 DEF FlowInv, Walk
  <2>2. Len(Chains) \in Nat /\ DOMAIN Chains = 1 .. Len(Chains) /\ walked < Len(Chains)
    BY <1>1, <1>2
  <2>3. walked + 1 \in DOMAIN Chains
    BY <2>1, <2>2
  <2>4. Tip(c) \in Nat
    BY <1>2, <2>3
  <2> HIDE DEF c
  <2>5. next \in 0 .. Tip(c)
    BY <2>1, <2>4
  <2>6. QED BY <2>1, <2>3, <2>4, <2>5 DEF c
<1>5. IsSequence(deps') /\ ToSet(deps') = ToSet(deps) \cup ToSet(level_dep(c, next))
  BY <1>1, <1>4, AddKeeps
<1>6. Walk'
  <2>1. CASE inward < Tip(c)
    <3>1. inward' = inward + 1 /\ walked' = walked
      BY <1>1, <2>1
    <3>2. inward' \in Nat /\ inward' <= Tip(c)
      <4> HIDE DEF c
      <4>1. QED BY <1>4, <2>1, <3>1
    <3>3. walked' \in 0 .. Len(Chains) /\ walked' # Len(Chains)
      BY <1>1, <1>4, <3>1
    <3>4. QED BY <1>3, <1>5, <3>1, <3>2, <3>3 DEF Walk
  <2>2. CASE inward = Tip(c)
    <3>1. inward' = 0 /\ walked' = walked + 1
      BY <1>1, <1>4, <2>2
    <3>2. walked' \in 0 .. Len(Chains) /\ inward' \in Nat
      BY <1>1, <1>2, <1>4, <3>1
    <3>3. walked' < Len(Chains) => walked' + 1 \in DOMAIN Chains
      <4>1. Len(Chains) \in Nat /\ DOMAIN Chains = 1 .. Len(Chains)
        BY <1>2
      <4>2. \A m \in Nat : \A n \in 0 .. m : n < m => n + 1 \in 1 .. m
        OBVIOUS
      <4>3. QED BY <3>2, <4>1, <4>2
    <3>4. walked' < Len(Chains) => inward' <= Tip(Chains[walked' + 1])
      BY <1>2, <3>1, <3>3
    <3>5. QED BY <1>3, <1>5, <3>1, <3>2, <3>4 DEF Walk
  <2>3. QED BY <1>4, <2>1, <2>2
<1>7. Found'
  <2>1. ASSUME NEW d \in ToSet(deps')
        PROVE  \E k \in DOMAIN Chains : \E i \in 0 .. Tip(Chains[k]) :
                 d \in ToSet(level_dep(Chains[k], i))
    <3>1. CASE d \in ToSet(deps)
      BY <3>1 DEF FlowInv, Found
    <3>2. CASE d \in ToSet(level_dep(c, next))
      BY <1>4, <3>2
    <3>3. QED BY <1>5, <2>1, <3>1, <3>2
  <2>2. ASSUME NEW k \in DOMAIN Chains, NEW i \in 0 .. Tip(Chains[k]),
               k <= walked' \/ (k = walked' + 1 /\ i > Tip(Chains[k]) - inward')
        PROVE  ToSet(level_dep(Chains[k], i)) \subseteq ToSet(deps')
    <3>1. k \in Nat /\ i \in Nat /\ Tip(Chains[k]) \in Nat /\ i <= Tip(Chains[k])
      BY <1>2
    <3>2. Visited(k, i) \/ (k = walked + 1 /\ i = next)
      BY <1>1, <1>4, <2>2, <3>1 DEF Visited
    <3>3. CASE Visited(k, i)
      BY <1>5, <3>3 DEF FlowInv, Found
    <3>4. CASE k = walked + 1 /\ i = next
      BY <1>5, <3>4
    <3>5. QED BY <3>2, <3>3, <3>4
  <2>3. QED BY <1>3, <2>1, <2>2 DEF Found, Visited
<1>8. Stage'
  BY <1>1 DEF FlowInv, Stage
<1>9. Bound'
  BY <1>1, SetOfOne DEF FlowInv, Bound, Stage
<1>10. Reported'
  BY <1>1 DEF Reported
<1>11. QED BY <1>3, <1>6, <1>7, <1>8, <1>9, <1>10 DEF FlowInv

(* What is found does not change any more.                                 *)
LEMMA WalkRests ==
  ASSUME FlowInv, UNCHANGED <<script, inputs, walk_vars>>
  PROVE  Given' /\ Walk' /\ Found' /\ Chains' = Chains
<1>1. Given' /\ Chains' = Chains /\ UNCHANGED <<walked, inward, deps>>
  BY DEF FlowInv, Given, Chains, walk_vars
<1>2. Walk'
  BY <1>1 DEF FlowInv, Walk
<1>3. Found'
  BY <1>1 DEF FlowInv, Found, Visited
<1>4. QED BY <1>1, <1>2, <1>3

LEMMA PrecompileKeeps ==
  ASSUME FlowInv, Precompile
  PROVE  FlowInv'
<1>1. /\ flow_phase = "precompile" /\ flow_phase' = "bind" /\ walked = Len(Chains)
      /\ contracts' = [n \in {Up, Down} |->
                         contract_from_ast(script[n], IF n = Down THEN deps ELSE <<>>)]
      /\ todo' = contracts'[Down].deps
      /\ UNCHANGED <<script, inputs, input_sources, issues>> /\ UNCHANGED walk_vars
  BY DEF Precompile, Chains
<1>2. Given' /\ Walk' /\ Found' /\ Chains' = Chains
  BY <1>1, WalkRests
<1>3. todo' = deps
  BY <1>1 DEF contract_from_ast
<1>4. deps' = deps /\ walked' = walked /\ IsSequence(deps) /\ input_sources' = <<>> /\ issues' = {}
  BY <1>1 DEF walk_vars, FlowInv, Walk, Stage
<1>5. Stage'
  BY <1>1, <1>2, <1>3, <1>4 DEF Stage
<1>6. Bound'
  <2>1. IsSequence(input_sources') /\ ToSet(input_sources') = {}
    BY <1>4, SetOfOne
  <2>2. QED BY <1>1, <1>3, <1>4, <2>1 DEF Bound
<1>7. Reported'
  BY <1>1 DEF Reported
<1>8. QED BY <1>2, <1>5, <1>6, <1>7 DEF FlowInv

LEMMA BindOneKeeps ==
  ASSUME FlowInv, BindOne
  PROVE  FlowInv'
<1>1. /\ flow_phase = "bind" /\ flow_phase' = "bind" /\ todo # <<>>
      /\ input_sources' = input_sources \o bind(Head(todo))
      /\ todo' = Tail(todo)
      /\ UNCHANGED <<script, inputs, contracts, issues>> /\ UNCHANGED walk_vars
  BY DEF BindOne
<1>2. Given' /\ Walk' /\ Found' /\ Chains' = Chains
  BY <1>1, WalkRests
<1>3. /\ deps' = deps /\ walked' = walked /\ ToSet(todo) \subseteq ToSet(deps)
      /\ IsSequence(todo) /\ IsSequence(input_sources)
  BY <1>1 DEF walk_vars, FlowInv, Stage, Bound
<1>4. /\ IsSequence(todo') /\ Head(todo) \in ToSet(deps) /\ ToSet(todo') \subseteq ToSet(deps)
      /\ ToSet(todo) = {Head(todo)} \cup ToSet(todo')
  BY <1>1, <1>3, SetOfTail
<1>5. /\ IsSequence(input_sources')
      /\ ToSet(input_sources') = ToSet(input_sources) \cup ToSet(bind(Head(todo)))
  BY <1>1, <1>3, OneSource, SetOfConcat
<1>6. ASSUME NEW d PROVE bind(d)' = bind(d)
  BY <1>1 DEF bind, only_input
<1>7. Stage'
  BY <1>1, <1>2, <1>3, <1>4 DEF FlowInv, Stage
<1>8. Bound'
  <2>1. \A s \in ToSet(input_sources') : \E d \in ToSet(deps') : s \in ToSet(bind(d))
    BY <1>3, <1>4, <1>5 DEF FlowInv, Bound
  <2>2. \A d \in ToSet(deps') : d \in ToSet(todo') \/ ToSet(bind(d)) \subseteq ToSet(input_sources')
    BY <1>1, <1>3, <1>4, <1>5 DEF FlowInv, Bound
  <2>3. QED BY <1>1, <1>5, <1>6, <2>1, <2>2 DEF Bound
<1>9. Reported'
  BY <1>1 DEF Reported
<1>10. QED BY <1>2, <1>7, <1>8, <1>9 DEF FlowInv

LEMMA BindDoneKeeps ==
  ASSUME FlowInv, BindDone
  PROVE  FlowInv'
<1>1. /\ flow_phase = "bind" /\ flow_phase' = "validate" /\ todo = <<>> /\ todo' = input_sources
      /\ UNCHANGED <<script, inputs, contracts, input_sources, issues>> /\ UNCHANGED walk_vars
  BY DEF BindDone
<1>2. Given' /\ Walk' /\ Found' /\ Chains' = Chains
  BY <1>1, WalkRests
<1>3. deps' = deps /\ walked' = walked /\ IsSequence(input_sources) /\ issues' = {}
  BY <1>1 DEF walk_vars, FlowInv, Stage, Bound
<1>4. ASSUME NEW d PROVE bind(d)' = bind(d)
  BY <1>1 DEF bind, only_input
<1>5. Stage'
  BY <1>1, <1>2, <1>3 DEF FlowInv, Stage
<1>6. \A d \in ToSet(deps) : ToSet(bind(d)) \subseteq ToSet(input_sources)
  BY <1>1, SetOfOne DEF FlowInv, Bound
<1>7. Bound'
  BY <1>1, <1>3, <1>4, <1>6 DEF FlowInv, Bound
<1>8. Reported'
  BY <1>1, <1>3 DEF Reported
<1>9. QED BY <1>2, <1>5, <1>7, <1>8 DEF FlowInv

LEMMA CheckOneKeeps ==
  ASSUME FlowInv, CheckOne
  PROVE  FlowInv'
<1>1. /\ flow_phase = "validate" /\ flow_phase' = "validate" /\ todo # <<>>
      /\ issues' = IF issue(Head(todo)) = "none" THEN issues
                   ELSE issues \cup {<<issue(Head(todo)), Head(todo)>>}
      /\ todo' = Tail(todo)
      /\ UNCHANGED <<script, inputs, contracts, input_sources>> /\ UNCHANGED walk_vars
  BY DEF CheckOne
<1>2. Given' /\ Walk' /\ Found' /\ Chains' = Chains
  BY <1>1, WalkRests
<1>3. /\ deps' = deps /\ walked' = walked /\ IsSequence(todo)
      /\ ToSet(todo) \subseteq ToSet(input_sources)
  BY <1>1 DEF walk_vars, FlowInv, Stage
<1>4. /\ IsSequence(todo') /\ Head(todo) \in ToSet(input_sources)
      /\ ToSet(todo') \subseteq ToSet(input_sources)
      /\ ToSet(todo) = {Head(todo)} \cup ToSet(todo')
  BY <1>1, <1>3, SetOfTail
<1>5. ASSUME NEW d PROVE bind(d)' = bind(d)
  BY <1>1 DEF bind, only_input
<1>6. ASSUME NEW s PROVE issue(s)' = issue(s)
  BY <1>1 DEF issue, TypeOf, output_type
<1>7. Stage'
  BY <1>1, <1>2, <1>3, <1>4 DEF FlowInv, Stage
<1>8. Bound'
  BY <1>1, <1>3, <1>5 DEF FlowInv, Bound
<1>9. Reported'
  <2>1. \A p \in issues' : \E s \in ToSet(input_sources) : p = <<issue(s), s>> /\ issue(s) # "none"
    <3>1. \A p \in issues : \E s \in ToSet(input_sources) : p = <<issue(s), s>> /\ issue(s) # "none"
      BY <1>1 DEF FlowInv, Reported
    <3>2. QED BY <1>1, <1>4, <3>1
  <2>2. \A s \in ToSet(input_sources) :
          s \in ToSet(todo') \/ issue(s) = "none" \/ <<issue(s), s>> \in issues'
    <3>1. \A s \in ToSet(input_sources) :
            s \in ToSet(todo) \/ issue(s) = "none" \/ <<issue(s), s>> \in issues
      BY <1>1 DEF FlowInv, Reported
    <3>2. QED BY <1>1, <1>4, <3>1
  <2>3. QED BY <1>1, <1>6, <2>1, <2>2 DEF Reported
<1>10. QED BY <1>2, <1>7, <1>8, <1>9 DEF FlowInv

LEMMA CheckContractsKeeps ==
  ASSUME FlowInv, CheckContracts
  PROVE  FlowInv'
<1>1. /\ flow_phase = "validate" /\ flow_phase' = "done" /\ todo = <<>>
      /\ issues' = issues \cup CodeErrors
      /\ UNCHANGED <<script, inputs, contracts, input_sources, todo>> /\ UNCHANGED walk_vars
  BY DEF CheckContracts, CodeErrors
<1>2. Given' /\ Walk' /\ Found' /\ Chains' = Chains
  BY <1>1, WalkRests
<1>3. deps' = deps /\ walked' = walked /\ ToSet(todo) = {}
  BY <1>1, SetOfOne DEF walk_vars
<1>4. ASSUME NEW d PROVE bind(d)' = bind(d)
  BY <1>1 DEF bind, only_input
<1>5. ASSUME NEW s PROVE issue(s)' = issue(s)
  BY <1>1 DEF issue, TypeOf, output_type
<1>6. Stage'
  BY <1>1, <1>2, <1>3 DEF FlowInv, Stage
<1>7. Bound'
  BY <1>1, <1>3, <1>4 DEF FlowInv, Bound
<1>8. Reported'
  <2>1. CodeErrors' = CodeErrors
    BY <1>1 DEF CodeErrors
  <2>2. \A p \in issues : \E s \in ToSet(input_sources) : p = <<issue(s), s>> /\ issue(s) # "none"
    BY <1>1 DEF FlowInv, Reported
  <2>3. \A s \in ToSet(input_sources) : issue(s) = "none" \/ <<issue(s), s>> \in issues
    BY <1>1, <1>3 DEF FlowInv, Reported
  <2>4. QED BY <1>1, <1>5, <2>1, <2>2, <2>3 DEF Reported
<1>9. QED BY <1>2, <1>6, <1>7, <1>8 DEF FlowInv

(* Init, each step and a stutter keep the invariant.                       *)
THEOREM FlowInvariance == FlowSpec => []FlowInv
<1>1. FlowInit => FlowInv
  <2>1. SUFFICES ASSUME FlowInit PROVE FlowInv
    OBVIOUS
  <2>2. Given /\ walked = 0 /\ inward = 0 /\ deps = <<>> /\ input_sources = <<>> /\ issues = {}
        /\ todo = <<>> /\ flow_phase = "precompile"
    BY <2>1 DEF FlowInit, Given
  <2>3. /\ Len(Chains) \in Nat /\ DOMAIN Chains = 1 .. Len(Chains)
        /\ \A k \in DOMAIN Chains : Tip(Chains[k]) \in Nat
    BY <2>2, ProgramFacts
  <2>4. IsSequence(<<>>) /\ ToSet(<<>>) = {}
    BY SetOfOne
  <2>5. Walk
    <3>1. 0 < Len(Chains) => 0 <= Tip(Chains[1])
      BY <2>3
    <3>2. QED BY <2>2, <2>3, <2>4, <3>1 DEF Walk
  <2>6. Found
    <3>1. \A k \in DOMAIN Chains : \A i \in 0 .. Tip(Chains[k]) : ~ Visited(k, i)
      BY <2>2, <2>3 DEF Visited
    <3>2. QED BY <2>2, <2>4, <3>1 DEF Found
  <2>7. Stage /\ Bound /\ Reported
    BY <2>2, <2>4 DEF Stage, Bound, Reported
  <2>8. QED BY <2>2, <2>5, <2>6, <2>7 DEF FlowInv
<1>2. FlowInv /\ [FlowNext]_flow_vars => FlowInv'
  <2>1. SUFFICES ASSUME FlowInv, [FlowNext]_flow_vars PROVE FlowInv'
    OBVIOUS
  <2>2. CASE UNCHANGED flow_vars
    <3>1. UNCHANGED <<script, inputs, contracts, input_sources, issues, todo, flow_phase>>
          /\ UNCHANGED walk_vars
      BY <2>2 DEF flow_vars
    <3>2. Given' /\ Walk' /\ Found' /\ Chains' = Chains /\ deps' = deps /\ walked' = walked
      BY <2>1, <3>1, WalkRests DEF walk_vars
    <3>3. ASSUME NEW d PROVE bind(d)' = bind(d)
      BY <3>1 DEF bind, only_input
    <3>4. ASSUME NEW s PROVE issue(s)' = issue(s)
      BY <3>1 DEF issue, TypeOf, output_type
    <3>5. Stage'
      BY <2>1, <3>1, <3>2 DEF FlowInv, Stage
    <3>6. Bound'
      BY <2>1, <3>1, <3>2, <3>3 DEF FlowInv, Bound
    <3>7. Reported'
      <4>1. CodeErrors' = CodeErrors
        BY <3>1 DEF CodeErrors
      <4>2. QED BY <2>1, <3>1, <3>4, <4>1 DEF FlowInv, Reported
    <3>8. QED BY <3>2, <3>5, <3>6, <3>7 DEF FlowInv
  <2>3. CASE Visit
    BY <2>1, <2>3, VisitKeeps
  <2>4. CASE Precompile
    BY <2>1, <2>4, PrecompileKeeps
  <2>5. CASE BindOne
    BY <2>1, <2>5, BindOneKeeps
  <2>6. CASE BindDone
    BY <2>1, <2>6, BindDoneKeeps
  <2>7. CASE CheckOne
    BY <2>1, <2>7, CheckOneKeeps
  <2>8. CASE CheckContracts
    BY <2>1, <2>8, CheckContractsKeeps
  <2>9. FlowFinished => UNCHANGED flow_vars
    BY DEF FlowFinished
  <2>10. QED BY <2>1, <2>2, <2>3, <2>4, <2>5, <2>6, <2>7, <2>8, <2>9 DEF FlowNext
<1>3. QED BY <1>1, <1>2, PTL DEF FlowSpec

-----------------------------------------------------------------------------
(* What a chain from the input records, and which source comes of it.      *)

LEMMA FieldsAreASequence ==
  ASSUME NEW steps, IsSequence(steps)
  PROVE  IsSequence(Fields(steps))
<1> DEFINE keys == {i \in DOMAIN steps : steps[i].kind = "key"}
           n == Cardinality(keys)
           nth(k) == CHOOSE i \in keys : Cardinality({j \in keys : j <= i}) = k
           fields == [k \in 1 .. n |-> steps[nth(k)].name]
<1>1. DOMAIN steps = 1 .. Len(steps) /\ Len(steps) \in Nat
  BY DEF IsSequence
<1>2. IsFiniteSet(1 .. Len(steps))
  BY <1>1, FS_Interval
<1>3. n \in Nat
  <2>1. keys \subseteq 1 .. Len(steps)
    BY <1>1
  <2> HIDE DEF keys
  <2>2. IsFiniteSet(keys)
    BY <1>2, <2>1, FS_Subset
  <2>3. QED BY <2>2, FS_CardinalityType
<1>4. Fields(steps) = fields
  BY Zenon DEF Fields
<1> HIDE DEF keys, n, nth
<1>5. DOMAIN fields = 1 .. n
  OBVIOUS
<1> HIDE DEF fields
<1>6. ToSet(fields) = {fields[k] : k \in DOMAIN fields}
  BY DEF ToSet
<1>7. fields \in [1 .. n -> ToSet(fields)]
  <2>1. fields = [k \in 1 .. n |-> fields[k]]
    BY DEF fields
  <2>2. QED BY <1>5, <1>6, <2>1
<1>8. fields \in Seq(ToSet(fields))
  BY <1>3, <1>7
<1>9. QED BY <1>4, <1>8 DEF IsSequence

(* The first step that is a field gives the first name.                    *)
LEMMA FirstField ==
  ASSUME NEW steps, IsSequence(steps), NEW m \in DOMAIN steps, steps[m].kind = "key",
         \A j \in DOMAIN steps : j < m => steps[j].kind # "key"
  PROVE  Fields(steps) # <<>> /\ Head(Fields(steps)) = steps[m].name
<1> DEFINE keys == {i \in DOMAIN steps : steps[i].kind = "key"}
           n == Cardinality(keys)
           below(i) == {j \in keys : j <= i}
           nth(k) == CHOOSE i \in keys : Cardinality(below(i)) = k
           fields == [k \in 1 .. n |-> steps[nth(k)].name]
<1>1. DOMAIN steps = 1 .. Len(steps) /\ Len(steps) \in Nat
  BY DEF IsSequence
<1>2. keys \subseteq 1 .. Len(steps) /\ IsFiniteSet(1 .. Len(steps)) /\ m \in keys
  BY <1>1, FS_Interval
<1>3. IsFiniteSet(keys)
  BY <1>2, FS_Subset
<1>4. \A j \in keys : j >= m
  BY <1>1
<1>5. below(m) = {m}
  BY <1>1, <1>2, <1>4
<1>6. Cardinality(below(m)) = 1
  BY <1>5, FS_Singleton
<1>7. ASSUME NEW i \in keys, Cardinality(below(i)) = 1 PROVE i = m
  <2>1. i \in below(i) /\ m \in below(i)
    BY <1>1, <1>2, <1>4
  <2>2. below(i) \subseteq keys
    OBVIOUS
  <2> HIDE DEF keys, below
  <2>3. IsFiniteSet(below(i))
    BY <1>3, <2>2, FS_Subset
  <2>4. \E x : below(i) = {x}
    BY <1>7, <2>3, FS_Singleton
  <2>5. QED BY <2>1, <2>4
<1>8. nth(1) = m
  <2> HIDE DEF keys, below
  <2>1. QED BY <1>2, <1>6, <1>7
<1>9. n \in Nat /\ n >= 1
  <2> HIDE DEF keys
  <2>1. n \in Nat /\ n # 0
    BY <1>2, <1>3, FS_CardinalityType, FS_EmptySet
  <2>2. QED BY <2>1
<1>10. Fields(steps) = fields
  BY Zenon DEF Fields
<1> HIDE DEF keys, n, nth
<1>11. DOMAIN fields = 1 .. n /\ fields[1] = steps[m].name
  BY <1>8, <1>9
<1> HIDE DEF fields
<1>12. fields # <<>>
  <2>1. 1 \in DOMAIN fields
    BY <1>9, <1>11
  <2>2. QED BY <2>1
<1>13. Head(fields) = fields[1]
  <2>1. IsSequence(fields)
    BY <1>10, FieldsAreASequence
  <2>2. QED BY <1>12, <2>1 DEF IsSequence
<1>14. QED BY <1>10, <1>11, <1>12, <1>13

(* What a chain from the input records: its fields but for a wrapper in    *)
(* front.                                                                  *)
Recorded(c) ==
  LET fields == Fields(c.steps)
  IN  IF c.root # "$json" /\ fields # <<>> /\ Head(fields) = json
        THEN Tail(fields) ELSE fields

(* That is the field it reads, if it does not stray.                       *)
LEMMA RecordedIsRead ==
  ASSUME NEW c, IsSequence(c.steps), ReadsField(c)
  PROVE  Recorded(c) = FieldRead(c)
<1>1. /\ c.root \in {"items", "item", "$json"} /\ c.steps # <<>>
      /\ Fields(c.steps) = <<>> \/ HasWrapper(c)
  BY DEF ReadsField, Stray, ReadsInput
<1>2. DOMAIN c.steps = 1 .. Len(c.steps) /\ Len(c.steps) \in Nat /\ Len(c.steps) >= 1
  BY <1>1 DEF IsSequence
<1>3. CASE c.root = "$json" \/ Fields(c.steps) = <<>>
  BY <1>3 DEF Recorded, FieldRead
<1>4. CASE c.root = "item" /\ IsWrapper(c.steps[1])
  <2>1. Fields(c.steps) # <<>> /\ Head(Fields(c.steps)) = json
    <3>1. 1 \in DOMAIN c.steps /\ c.steps[1].kind = "key" /\ c.steps[1].name = json
      BY <1>2, <1>4 DEF IsWrapper
    <3>2. \A j \in DOMAIN c.steps : j < 1 => c.steps[j].kind # "key"
      BY <1>2
    <3>3. QED BY <3>1, <3>2, FirstField
  <2>2. QED BY <1>4, <2>1 DEF Recorded, FieldRead
<1>5. CASE /\ c.root = "items" /\ Len(c.steps) > 1
           /\ c.steps[1].kind = "index" /\ IsWrapper(c.steps[2])
  <2>1. Fields(c.steps) # <<>> /\ Head(Fields(c.steps)) = json
    <3>1. 2 \in DOMAIN c.steps /\ c.steps[2].kind = "key" /\ c.steps[2].name = json
      BY <1>2, <1>5 DEF IsWrapper
    <3>2. \A j \in DOMAIN c.steps : j < 2 => j = 1
      BY <1>2
    <3>3. \A j \in DOMAIN c.steps : j < 2 => c.steps[j].kind # "key"
      BY <1>5, <3>2
    <3>4. QED BY <3>1, <3>3, FirstField
  <2>2. QED BY <1>5, <2>1 DEF Recorded, FieldRead
<1>6. QED BY <1>1, <1>3, <1>4, <1>5 DEF HasWrapper

(* The wrapper is taken away at the front.                                 *)
LEMMA FrontUnwrapped ==
  ASSUME NEW c, IsSequence(c.steps), c.root \in {"items", "item"}
  PROVE  Unwrapped(Fields(c.steps), 1) = Recorded(c)
<1> DEFINE fields == Fields(c.steps)
           S == ToSet(fields)
<1>1. SUFFICES Unwrapped(fields, 1) = Recorded(c)
  OBVIOUS
<1>2. fields \in Seq(S)
  BY FieldsAreASequence DEF IsSequence
<1>3. Unwrapped(fields, 1) =
        IF Len(fields) >= 1 /\ fields[1] = json
          THEN SubSeq(fields, 1, 0) \o SubSeq(fields, 2, Len(fields)) ELSE fields
  BY DEF Unwrapped, RemoveAt
<1>4. Recorded(c) =
        IF fields # <<>> /\ Head(fields) = json THEN Tail(fields) ELSE fields
  BY DEF Recorded
<1> HIDE DEF fields, S
<1>5. CASE fields = <<>>
  BY <1>3, <1>4, <1>5
<1>6. CASE fields # <<>>
  <2>1. Len(fields) >= 1 /\ Head(fields) = fields[1]
    BY <1>2, <1>6
  <2>2. SubSeq(fields, 1, 0) = <<>>
    BY <1>2
  <2>3. SubSeq(fields, 2, Len(fields)) = Tail(fields) /\ Tail(fields) \in Seq(S)
    BY <1>2, <1>6
  <2>4. <<>> \o Tail(fields) = Tail(fields)
    BY <2>3
  <2>5. SubSeq(fields, 1, 0) \o SubSeq(fields, 2, Len(fields)) = Tail(fields)
    BY <2>2, <2>3, <2>4, Zenon
  <2>6. CASE fields[1] = json
    <3>1. Unwrapped(fields, 1) = SubSeq(fields, 1, 0) \o SubSeq(fields, 2, Len(fields))
      BY <1>3, <2>1, <2>6, Zenon
    <3>2. Recorded(c) = Tail(fields)
      BY <1>4, <1>6, <2>1, <2>6, Zenon
    <3>3. QED BY <2>5, <3>1, <3>2, Zenon
  <2>7. CASE fields[1] # json
    BY <1>3, <1>4, <2>1, <2>7, Zenon
  <2>8. QED BY <2>6, <2>7
<1>7. QED BY <1>5, <1>6

FromInput(c) == c.root \in {"items", "item", "$json"}

LEMMA LevelOfInput ==
  ASSUME NEW c, IsSequence(c.steps), FromInput(c), NEW i \in 0 .. Tip(c)
  PROVE  level_dep(c, i) =
           IF i = Tip(c) /\ ReadsInput(c) THEN Dep(c.root, Recorded(c)) ELSE NoDep
<1>1. Tip(c) \in Nat /\ (Tip(c) = 0 <=> c.steps = <<>>) /\ DOMAIN c.steps = 1 .. Tip(c)
  BY DEF Tip, IsSequence
<1>2. c.root # "$" /\ c.root # "$node"
  BY DEF FromInput
<1>3. CASE i = 0
  <2>1. level_dep(c, i) = NoDep
    BY <1>2, <1>3 DEF level_dep
  <2>2. ~ (i = Tip(c) /\ ReadsInput(c))
    BY <1>1, <1>3 DEF ReadsInput
  <2>3. QED BY <2>1, <2>2
<1>4. CASE i # 0 /\ i # Tip(c)
  <2>1. level_dep(c, i) = NoDep
    BY <1>4 DEF level_dep
  <2>2. QED BY <1>4, <2>1
<1>5. CASE i # 0 /\ i = Tip(c) /\ Untraceable(c)
  <2>1. member_chain(c) = NoDep
    BY <1>1, <1>5 DEF member_chain, Untraceable
  <2>2. level_dep(c, i) = NoDep
    BY <1>5, <2>1 DEF level_dep
  <2>3. QED BY <1>5, <2>2 DEF ReadsInput
<1>6. CASE i # 0 /\ i = Tip(c) /\ ~ Untraceable(c)
  <2>1. c.steps # <<>> /\ i \in 1 .. Tip(c)
    BY <1>1, <1>6
  <2>2. ReadsInput(c)
    BY <1>6, <2>1 DEF ReadsInput, FromInput
  <2>3. IsMember(c, i)
    BY <1>1, <1>6, <2>1 DEF IsMember, Untraceable
  <2>4. level_dep(c, i) = member_chain(c)
    BY <1>6, <2>3 DEF level_dep
  <2>5. ~ \E j \in 1 .. Tip(c) : c.steps[j].kind \in {"call", "dynamic"}
    BY <1>1, <1>6 DEF Untraceable
  <2>6. CASE c.root \in {"items", "item"}
    <3>1. member_chain(c) = Dep(c.root, Unwrapped(Fields(c.steps), 1))
      BY <1>2, <2>5, <2>6 DEF member_chain
    <3>2. Unwrapped(Fields(c.steps), 1) = Recorded(c)
      BY <2>6, FrontUnwrapped
    <3>3. QED BY <1>6, <2>2, <2>4, <3>1, <3>2
  <2>7. CASE c.root = "$json"
    <3>1. member_chain(c) = Dep(c.root, Fields(c.steps))
      BY <2>5, <2>7 DEF member_chain, Bases
    <3>2. Recorded(c) = Fields(c.steps)
      BY <2>7 DEF Recorded
    <3>3. QED BY <1>6, <2>2, <2>4, <3>1, <3>2
  <2>8. QED BY <2>6, <2>7 DEF FromInput
<1>7. QED BY <1>3, <1>4, <1>5, <1>6

Read1(c) == [base |-> c.root, path |-> Recorded(c)]

(* If a script reads nothing but its input, its dependencies are its       *)
(* reads.                                                                  *)
LEMMA DepsAreReads ==
  ASSUME FlowInv, walked = Len(Chains), \A c \in Accesses : FromInput(c)
  PROVE  ToSet(deps) = {Read1(c) : c \in {a \in Accesses : ReadsInput(a)}}
<1>1. /\ DOMAIN Chains = 1 .. Len(Chains) /\ Len(Chains) \in Nat
      /\ \A k \in DOMAIN Chains : IsSequence(Chains[k].steps) /\ Tip(Chains[k]) \in Nat
  BY ProgramFacts DEF FlowInv
<1>2. Accesses = {Chains[k] : k \in DOMAIN Chains}
  BY DEF Accesses, Chains, ToSet
<1>3. \A c : Dep(c.root, Recorded(c)) = <<Read1(c)>> /\ ToSet(<<Read1(c)>>) = {Read1(c)} /\ ToSet(NoDep) = {}
  BY SetOfOne DEF Dep, Read1, NoDep
<1>4. ASSUME NEW k \in DOMAIN Chains, NEW i \in 0 .. Tip(Chains[k])
      PROVE  ToSet(level_dep(Chains[k], i)) =
               IF i = Tip(Chains[k]) /\ ReadsInput(Chains[k]) THEN {Read1(Chains[k])} ELSE {}
  <2>1. FromInput(Chains[k]) /\ IsSequence(Chains[k].steps)
    BY <1>1, <1>2
  <2>2. level_dep(Chains[k], i) =
          IF i = Tip(Chains[k]) /\ ReadsInput(Chains[k])
            THEN Dep(Chains[k].root, Recorded(Chains[k])) ELSE NoDep
    BY <2>1, LevelOfInput
  <2>3. QED BY <1>3, <2>2
<1>5. ASSUME NEW d \in ToSet(deps)
      PROVE  d \in {Read1(c) : c \in {a \in Accesses : ReadsInput(a)}}
  <2>1. PICK k \in DOMAIN Chains : \E i \in 0 .. Tip(Chains[k]) : d \in ToSet(level_dep(Chains[k], i))
    BY DEF FlowInv, Found
  <2>2. PICK i \in 0 .. Tip(Chains[k]) : d \in ToSet(level_dep(Chains[k], i))
    BY <2>1
  <2>3. ReadsInput(Chains[k]) /\ d = Read1(Chains[k])
    BY <1>4, <2>2
  <2>4. QED BY <1>2, <2>3
<1>6. ASSUME NEW c \in Accesses, ReadsInput(c)
      PROVE  Read1(c) \in ToSet(deps)
  <2>1. PICK k \in DOMAIN Chains : c = Chains[k]
    BY <1>2
  <2>2. Tip(Chains[k]) \in 0 .. Tip(Chains[k]) /\ Visited(k, Tip(Chains[k]))
    BY <1>1 DEF Visited
  <2>3. ToSet(level_dep(Chains[k], Tip(Chains[k]))) = {Read1(c)}
    BY <1>4, <1>6, <2>1, <2>2
  <2>4. ToSet(level_dep(Chains[k], Tip(Chains[k]))) \subseteq ToSet(deps)
    BY <2>2 DEF FlowInv, Found
  <2>5. QED BY <2>3, <2>4
<1>7. QED BY <1>5, <1>6

LEMMA TheOnlyInput ==
  ASSUME Given
  PROVE  /\ inputs = {Up} => Cardinality(inputs) = 1 /\ only_input = Up
         /\ inputs # {Up} => Cardinality(inputs) # 1 /\ only_input = NoField
<1>1. Up # Other
  BY CodeFlowAssumption
<1>2. Cardinality({Up}) = 1
  BY FS_Singleton
<1>3. Cardinality({Up, Other}) = 2
  <2>1. IsFiniteSet({Up}) /\ Other \notin {Up} /\ {Up} \cup {Other} = {Up, Other}
    BY <1>1, FS_Singleton
  <2>2. Cardinality({Up} \cup {Other}) = Cardinality({Up}) + 1
    BY <2>1, FS_AddElement
  <2>3. QED BY <1>2, <2>1, <2>2
<1>4. QED BY <1>2, <1>3 DEF Given, only_input

(* The sources of a script that reads only its input, by way of bind.      *)
LEMMA SourcesOfReads ==
  ASSUME FlowInv, flow_phase \in {"validate", "done"}, \A c \in Accesses : FromInput(c)
  PROVE  ToSet(input_sources) =
           IF inputs = {Up}
             THEN {[from |-> Up, path |-> Recorded(c)] : c \in {a \in Accesses : ReadsInput(a)}}
             ELSE {}
<1> DEFINE reads == {a \in Accesses : ReadsInput(a)}
           From(c) == [from |-> Up, path |-> Recorded(c)]
<1>1. walked = Len(Chains)
  BY DEF FlowInv, Stage
<1>2. ToSet(deps) = {Read1(c) : c \in reads}
  BY <1>1, DepsAreReads
<1>3. /\ \A s \in ToSet(input_sources) : \E d \in ToSet(deps) : s \in ToSet(bind(d))
      /\ \A d \in ToSet(deps) : ToSet(bind(d)) \subseteq ToSet(input_sources)
  BY DEF FlowInv, Bound
<1>4. ASSUME NEW c \in reads
      PROVE  bind(Read1(c)) = IF only_input = NoField THEN <<>>
                              ELSE <<[from |-> only_input, path |-> Recorded(c)]>>
  <2>1. Read1(c).base # "$node" /\ Read1(c).path = Recorded(c)
    BY DEF FromInput, Read1
  <2>2. QED BY <2>1 DEF bind
<1>5. Up # NoField
  BY CodeFlowAssumption
<1>6. CASE inputs = {Up}
  <2>1. only_input = Up
    BY <1>6, TheOnlyInput DEF FlowInv
  <2>2. \A c \in reads : ToSet(bind(Read1(c))) = {From(c)}
    BY <1>4, <1>5, <2>1, SetOfOne
  <2> HIDE DEF reads, From
  <2>3. ToSet(input_sources) \subseteq {From(c) : c \in reads}
    BY <1>2, <1>3, <2>2
  <2>4. \A c \in reads : From(c) \in ToSet(input_sources)
    BY <1>2, <1>3, <2>2
  <2>5. ToSet(input_sources) = {From(c) : c \in reads}
    BY <2>3, <2>4
  <2>6. QED BY <1>6, <2>5 DEF From, reads
<1>7. CASE inputs # {Up}
  <2>1. only_input = NoField
    BY <1>7, TheOnlyInput DEF FlowInv
  <2>2. \A c \in reads : ToSet(bind(Read1(c))) = {}
    BY <1>4, <2>1, SetOfOne
  <2> HIDE DEF reads, From
  <2>3. ToSet(input_sources) = {}
    BY <1>2, <1>3, <2>2
  <2>4. QED BY <1>7, <2>3
<1>8. QED BY <1>6, <1>7

(* The references of a script to its only input are the fields its chains  *)
(* read, whatever chains it has: no level of a chain is lost in the walk,  *)
(* none is taken for a read of its own, and two inputs leave none.  Chains *)
(* that stray from the fields may add others.                              *)
THEOREM SourcesAreAlwaysReads == FlowSpec => []SourcesAreReads
<1>1. FlowInv => SourcesAreReads
  <2> DEFINE paths == [i \in DOMAIN input_sources |-> input_sources[i].path]
             reads == {a \in Accesses : ReadsInput(a)}
             read == {FieldRead(c) : c \in {a \in Accesses : ReadsField(a)}}
             From(c) == [from |-> Up, path |-> Recorded(c)]
  <2>1. SUFFICES ASSUME FlowInv, flow_phase \in {"validate", "done"},
                        \A c \in Accesses : c.root \in {"items", "item", "$json"}
                 PROVE  IF Cardinality(inputs) = 1
                          THEN /\ read \subseteq ToSet(paths)
                               /\ (\A c \in Accesses : ~ Stray(c)) => ToSet(paths) \subseteq read
                          ELSE input_sources = <<>>
    BY DEF SourcesAreReads
  <2>2. \A c \in Accesses : FromInput(c)
    BY <2>1 DEF FromInput
  <2>3. ToSet(paths) = {s.path : s \in ToSet(input_sources)}
    BY DEF ToSet
  <2>4. ToSet(input_sources) = IF inputs = {Up} THEN {From(c) : c \in reads} ELSE {}
    BY <2>1, <2>2, SourcesOfReads
  <2>5. /\ inputs = {Up} => Cardinality(inputs) = 1
        /\ inputs # {Up} => Cardinality(inputs) # 1
    BY <2>1, TheOnlyInput DEF FlowInv
  <2>6. \A c \in Accesses : ReadsField(c) => c \in reads /\ Recorded(c) = FieldRead(c)
    <3>0. Given
      BY <2>1 DEF FlowInv
    <3>1. \A c \in Accesses : IsSequence(c.steps)
      BY <3>0, StepsAreSequences
    <3>2. \A c \in Accesses : ReadsField(c) => Recorded(c) = FieldRead(c)
      BY <3>1, RecordedIsRead
    <3>3. QED BY <3>2 DEF ReadsField
  <2>7. CASE inputs = {Up}
    <3>1. \A c \in reads : From(c).path = Recorded(c)
      OBVIOUS
    <3>2. ToSet(input_sources) = {From(c) : c \in reads}
      BY <2>4, <2>7
    <3>3. \A c \in Accesses : c \in reads /\ ~ Stray(c) => ReadsField(c)
      BY DEF ReadsField
    <3>4. reads \subseteq Accesses
      OBVIOUS
    <3> HIDE DEF reads, From, paths
    <3>5. ToSet(paths) = {Recorded(c) : c \in reads}
      BY <2>3, <3>1, <3>2
    <3>6. ASSUME NEW p \in read PROVE p \in ToSet(paths)
      <4>1. PICK c \in Accesses : ReadsField(c) /\ p = FieldRead(c)
        OBVIOUS
      <4>2. QED BY <2>6, <3>5, <4>1
    <3>7. ASSUME \A c \in Accesses : ~ Stray(c), NEW p \in ToSet(paths) PROVE p \in read
      <4>1. PICK c \in reads : p = Recorded(c)
        BY <3>5
      <4>2. c \in Accesses /\ ReadsField(c)
        BY <3>3, <3>4, <3>7
      <4>3. QED BY <2>6, <4>1, <4>2
    <3>8. QED BY <2>5, <2>7, <3>6, <3>7
  <2>8. CASE inputs # {Up}
    <3>1. ToSet(input_sources) = {} /\ IsSequence(input_sources)
      BY <2>1, <2>4, <2>8 DEF FlowInv, Bound
    <3>2. input_sources = <<>>
      BY <3>1 DEF ToSet, IsSequence
    <3>3. QED BY <2>5, <2>8, <3>2
  <2>9. QED BY <2>7, <2>8
<1>2. QED BY <1>1, FlowInvariance, PTL

-----------------------------------------------------------------------------
(* The type of a script's output, by its returns.                          *)

LEMMA GreatestIndex ==
  ASSUME NEW n \in Nat, NEW S \in SUBSET (1 .. n), S # {}
  PROVE  Max(S) \in S
<1> DEFINE T == {n - x : x \in S}
           R == OpToRel(<, Nat)
<1>1. T \subseteq Nat /\ T # {}
  <2>1. \A x \in S : n - x \in Nat
    OBVIOUS
  <2>2. QED BY <2>1
<1>2. \A l, m \in Nat : <<l, m>> \in R <=> l < m
  BY DEF OpToRel
<1>3. IsWellFoundedOn(R, Nat)
  BY NatLessThanWellFounded
<1> HIDE DEF R, T
<1>4. PICK m \in T : \A l \in T : <<l, m>> \notin R
  BY <1>1, <1>3, WFMin
<1>5. \A l \in T : ~ (l < m)
  BY <1>1, <1>2, <1>4, Zenon
<1>6. PICK x \in S : m = n - x
  BY <1>4 DEF T
<1>7. \A y \in S : n - y \in T
  BY DEF T
<1>8. \A y \in S : x >= y
  <2>1. SUFFICES ASSUME NEW y \in S PROVE x >= y
    OBVIOUS
  <2>2. ~ (n - y < n - x)
    BY <1>5, <1>6, <1>7
  <2>3. QED BY <2>2
<1>9. QED BY <1>8 DEF Max

LEMMA ContractOf ==
  ASSUME FlowInv, flow_phase # "precompile"
  PROVE  /\ contracts[Up].output = extract_output_shape(script[Up].returns)
         /\ \A n \in {Up, Down} : contracts[n].errors = script[n].modules
<1>1. contracts = [n \in {Up, Down} |->
                    contract_from_ast(script[n], IF n = Down THEN deps ELSE <<>>)]
  BY DEF FlowInv, Stage
<1>2. QED BY <1>1 DEF contract_from_ast

LEMMA NoLiteralNoProps ==
  ASSUME NEW v, v.kind # "object"
  PROVE  ShapeOf(v).props = NoProps
<1>1. CASE v.kind = "none"
  BY <1>1 DEF ShapeOf, Shape
<1>2. CASE v.kind \in {"name", "member", "new", "literal"}
  BY <1>2 DEF ShapeOf, Shape
<1>3. CASE v.kind \in {"items", "itemscall", "array"}
  BY <1>3 DEF ShapeOf, Shape
<1>4. CASE v.kind \notin {"none", "name", "member", "new", "literal", "items", "itemscall", "array"}
  BY <1>4 DEF ShapeOf, Shape
<1>5. QED BY <1>1, <1>2, <1>3, <1>4

(* Without a literal the output is not known.                              *)
LEMMA UnknownWithoutLiteral ==
  ASSUME FlowInv, flow_phase # "precompile",
         \A i \in DOMAIN script[Up].returns : script[Up].returns[i].value.kind # "object"
  PROVE  shape_unknown(output_type(Up))
<1> DEFINE returns == script[Up].returns
           top == {i \in DOMAIN returns : is_top_level_return(returns[i])}
           chosen == IF top = {} THEN DOMAIN returns ELSE top
<1>1. contracts[Up].output = extract_output_shape(returns)
  BY ContractOf
<1>2. IsSequence(returns)
  BY ProgramFacts DEF FlowInv
<1>3. Len(returns) \in Nat /\ DOMAIN returns = 1 .. Len(returns)
  BY <1>2 DEF IsSequence
<1>4. extract_output_shape(returns).props = NoProps
  <2>1. CASE returns = <<>>
    BY <2>1 DEF extract_output_shape, Shape
  <2>2. CASE returns # <<>>
    <3>1. DOMAIN returns # {}
      BY <1>2, <2>2 DEF IsSequence
    <3>2. chosen \subseteq DOMAIN returns /\ chosen # {}
      BY <3>1
    <3>3. extract_output_shape(returns) = ShapeOf(returns[Max(chosen)].value)
      BY <2>2 DEF extract_output_shape
    <3> HIDE DEF chosen
    <3>4. Max(chosen) \in DOMAIN returns
      BY <1>3, <3>2, GreatestIndex
    <3>5. returns[Max(chosen)].value.kind # "object"
      BY <3>4
    <3>6. QED BY <3>3, <3>5, NoLiteralNoProps
  <2>3. QED BY <2>1, <2>2
<1>5. DOMAIN NoProps = {}
  BY DEF NoProps
<1>6. CASE contracts[Up].output.kind = "object"
  BY <1>1, <1>4, <1>5, <1>6 DEF output_type, shape_unknown
<1>7. CASE contracts[Up].output.kind = "list"
  BY <1>7 DEF output_type, shape_unknown
<1>8. CASE contracts[Up].output.kind \notin {"object", "list"}
  BY <1>8 DEF output_type, shape_unknown
<1>9. QED BY <1>6, <1>7, <1>8

(* A literal of named members has these, each with the type of a member.   *)
LEMMA NamedMembers ==
  ASSUME NEW members, IsSequence(members),
         \A m \in ToSet(members) : m.form \in {"name", "literal"}
  PROVE  /\ DOMAIN object_props(members) = {m.name : m \in ToSet(members)}
         /\ \A f \in DOMAIN object_props(members) :
              \E m \in ToSet(members) : object_props(members)[f] = m.type
<1> DEFINE named == {i \in DOMAIN members : members[i].form \in {"name", "literal", "computed"}}
           of(f) == {i \in named : members[i].name = f}
<1>1. DOMAIN members = 1 .. Len(members) /\ Len(members) \in Nat
      /\ \A i \in DOMAIN members : members[i] \in ToSet(members)
  BY DEF IsSequence, ToSet
<1>2. named = DOMAIN members
  BY <1>1
<1>3. object_props(members) =
        [f \in {members[i].name : i \in named} |-> members[Max(of(f))].type]
  BY Zenon DEF object_props
<1>4. \A f \in {members[i].name : i \in named} : Max(of(f)) \in DOMAIN members
  <2>1. SUFFICES ASSUME NEW f \in {members[i].name : i \in named} PROVE Max(of(f)) \in of(f)
    BY <1>2
  <2>2. of(f) \subseteq 1 .. Len(members) /\ of(f) # {}
    BY <1>1, <1>2
  <2> HIDE DEF of
  <2>3. QED BY <1>1, <2>2, GreatestIndex
<1>5. {members[i].name : i \in named} = {m.name : m \in ToSet(members)}
  BY <1>2 DEF ToSet
<1> HIDE DEF named, of
<1>6. DOMAIN object_props(members) = {members[i].name : i \in named}
      /\ \A f \in {members[i].name : i \in named} :
           object_props(members)[f] = members[Max(of(f))].type
  BY <1>3
<1>7. QED BY <1>1, <1>4, <1>5, <1>6

(* The last return of one is that one.                                     *)
LEMMA LiteralIsType ==
  ASSUME FlowInv, flow_phase # "precompile",
         NEW v, script[Up].returns[1].value = v, Len(script[Up].returns) = 1, v.kind = "object",
         script[Up].returns[1].scope = "program"
  PROVE  output_type(Up) = [type |-> "object", props |-> object_props(v.members)]
<1> DEFINE returns == script[Up].returns
           top == {i \in DOMAIN returns : is_top_level_return(returns[i])}
<1>1. contracts[Up].output = extract_output_shape(returns)
  BY ContractOf
<1>2. DOMAIN returns = {1} /\ returns # <<>>
  <2>1. IsSequence(returns)
    BY ProgramFacts DEF FlowInv
  <2>2. QED BY <2>1 DEF IsSequence
<1>3. top = {1}
  BY <1>2 DEF is_top_level_return
<1>4. Max({1}) = 1
  BY DEF Max
<1>5. extract_output_shape(returns) = ShapeOf(returns[1].value)
  BY <1>2, <1>3, <1>4 DEF extract_output_shape
<1>6. ShapeOf(v) = Shape("object", object_props(v.members))
  BY DEF ShapeOf
<1>7. contracts[Up].output.kind = "object" /\ contracts[Up].output.props = object_props(v.members)
  BY <1>1, <1>5, <1>6 DEF Shape
<1>8. QED BY <1>7 DEF output_type

-----------------------------------------------------------------------------
(* What is reported.                                                       *)

LEMMA IssuesAre ==
  ASSUME FlowInv, flow_phase = "done"
  PROVE  /\ \A s \in ToSet(input_sources) : issue(s) # "none" => <<issue(s), s>> \in issues
         /\ \A p \in issues :
              \/ \E s \in ToSet(input_sources) : p = <<issue(s), s>> /\ issue(s) # "none"
              \/ p \in CodeErrors
  BY DEF FlowInv, Reported

LEMMA GhostsAreReported == FlowInv => GhostsReported
<1>1. SUFFICES ASSUME FlowInv, flow_phase = "done", NEW c \in Accesses,
                      c.root = "$", c.arg \notin {Up, Down, Other}
               PROVE  \E p \in issues : p[1] = "referenced_node_missing" /\ p[2].from = c.arg
  BY DEF GhostsReported
<1> DEFINE d == [base |-> "$node", path |-> <<c.arg>>]
           s == [from |-> c.arg, path |-> <<>>]
<1>2. /\ DOMAIN Chains = 1 .. Len(Chains) /\ Len(Chains) \in Nat
      /\ \A k \in DOMAIN Chains : Tip(Chains[k]) \in Nat
  BY <1>1, ProgramFacts DEF FlowInv
<1>3. PICK k \in DOMAIN Chains : c = Chains[k]
  BY DEF Accesses, Chains, ToSet
<1>4. walked = Len(Chains)
  BY <1>1 DEF FlowInv, Stage
<1>5. 0 \in 0 .. Tip(Chains[k]) /\ Visited(k, 0)
  BY <1>2, <1>4 DEF Visited
<1>6. level_dep(c, 0) = <<d>>
  BY <1>1 DEF level_dep, Dep
<1>7. ToSet(level_dep(Chains[k], 0)) \subseteq ToSet(deps)
  BY <1>1, <1>5 DEF FlowInv, Found
<1>8. d \in ToSet(deps)
  BY <1>3, <1>6, <1>7, SetOfOne
<1>9. bind(d) = <<s>>
  <2>1. d.base = "$node" /\ d.path = <<c.arg>> /\ <<c.arg>> # <<>>
        /\ Head(<<c.arg>>) = c.arg /\ Tail(<<c.arg>>) = <<>>
    OBVIOUS
  <2>2. QED BY <2>1 DEF bind
<1>10. s \in ToSet(input_sources)
  <2>1. ToSet(bind(d)) \subseteq ToSet(input_sources)
    BY <1>1, <1>8 DEF FlowInv, Bound
  <2>2. QED BY <1>9, <2>1, SetOfOne
<1>11. issue(s) = "referenced_node_missing"
  BY <1>1 DEF issue
<1>12. <<issue(s), s>> \in issues
  BY <1>1, <1>10, <1>11, IssuesAre
<1>13. QED BY <1>11, <1>12

LEMMA UnknownIsNeverReported == FlowInv => UnknownNeverReported
<1>1. SUFFICES ASSUME FlowInv, NEW p \in issues,
                      \A i \in DOMAIN script[Up].returns : script[Up].returns[i].value.kind # "object"
               PROVE  p[1] # "source_field_missing"
  BY DEF UnknownNeverReported
<1>2. flow_phase \in {"validate", "done"}
  BY <1>1 DEF FlowInv, Stage
<1>3. CASE p \in CodeErrors
  BY <1>3 DEF CodeErrors
<1>4. CASE \E s \in ToSet(input_sources) : p = <<issue(s), s>> /\ issue(s) # "none"
  <2>1. PICK s \in ToSet(input_sources) : p = <<issue(s), s>>
    BY <1>4
  <2>2. shape_unknown(output_type(Up))
    BY <1>1, <1>2, UnknownWithoutLiteral
  <2>3. shape_unknown(TypeOf(Other))
    BY DEF TypeOf, shape_unknown
  <2>4. TypeOf(Up) = output_type(Up)
    BY CodeFlowAssumption DEF TypeOf
  <2>5. s.from \in {Up, Other} => shape_unknown(TypeOf(s.from))
    BY <2>2, <2>3, <2>4
  <2>6. issue(s) # "source_field_missing"
    BY <2>5, Zenon DEF issue
  <2>7. QED BY <2>1, <2>6
<1>5. QED BY <1>1, <1>2, <1>3, <1>4 DEF FlowInv, Reported

(* The verdict on a field of a literal.                                    *)
LEMMA FieldOfLiteral ==
  ASSUME FlowInv, NEW path, NEW props, IsSequence(path), Len(path) = 1,
         output_type(Up) = [type |-> "object", props |-> props],
         DOMAIN props # {}, \A f \in DOMAIN props : props[f] # NoField
  PROVE  issue([from |-> Up, path |-> path]) =
           IF path # <<main_port>> /\ path[1] \notin DOMAIN props
             THEN "source_field_missing" ELSE "none"
<1> DEFINE t == [type |-> "object", props |-> props]
           s == [from |-> Up, path |-> path]
<1>1. TypeOf(Up) = t /\ Up # Down /\ NoField # "object"
  BY CodeFlowAssumption DEF TypeOf
<1>2. ~ shape_unknown(t)
  BY DEF shape_unknown
<1>3. path # <<>> /\ Tail(path) = <<>> /\ (path = <<main_port>> <=> path[1] = main_port)
  <2> DEFINE S == ToSet(path)
  <2>1. path \in Seq(S)
    BY DEF IsSequence
  <2> HIDE DEF S
  <2>2. path # <<>> /\ Tail(path) = <<>>
    <3>1. path # <<>>
      BY <2>1
    <3>2. Tail(path) \in Seq(S) /\ Len(Tail(path)) = 0
      BY <2>1, <3>1
    <3>3. \A q \in Seq(S) : Len(q) = 0 => q = <<>>
      OBVIOUS
    <3>4. QED BY <3>1, <3>2, <3>3
  <2>3. path = <<path[1]>>
    BY <2>1
  <2>4. <<main_port>>[1] = main_port
    OBVIOUS
  <2>5. QED BY <2>2, <2>3, <2>4, Zenon
<1>4. output_type_at(t, path) =
        IF path[1] = main_port THEN "object"
        ELSE IF path[1] \in DOMAIN props THEN props[path[1]] ELSE NoField
  <2>1. t.type = "object" /\ t.props = props
    OBVIOUS
  <2>2. CASE path[1] = main_port
    BY <1>3, <2>1, <2>2 DEF output_type_at
  <2>3. CASE path[1] # main_port
    BY <1>3, <2>1, <2>3 DEF output_type_at
  <2>4. QED BY <2>2, <2>3
<1>5. output_type_at(t, path) = NoField <=> path # <<main_port>> /\ path[1] \notin DOMAIN props
  BY <1>1, <1>3, <1>4
<1>6. /\ s.from = Up /\ s.path = path
      /\ s.from \in {Up, Down, Other} /\ s.from # Other /\ s.from # Down
  BY CodeFlowAssumption
<1> HIDE DEF t, s
<1>7. issue(s) = IF output_type_at(t, path) = NoField THEN "source_field_missing" ELSE "none"
  <2>1. ~ (s.from \notin {Up, Down, Other} \/ (s.from = Other /\ Other \notin inputs))
    BY <1>6
  <2>2. s.path # <<>> /\ TypeOf(s.from) = t
    BY <1>1, <1>3, <1>6
  <2>3. CASE output_type_at(t, path) = NoField
    BY <1>2, <1>6, <2>1, <2>2, <2>3 DEF issue
  <2>4. CASE output_type_at(t, path) # NoField
    BY <1>6, <2>1, <2>2, <2>4 DEF issue
  <2>5. QED BY <2>3, <2>4
<1>8. QED BY <1>5, <1>7 DEF s

LEMMA SimpleFormsAreExact == FlowInv => SimpleFormsExact
<1> DEFINE returns == script[Up].returns
           members == ToSet(returns[1].value.members)
           props == object_props(returns[1].value.members)
           Missing == {x \in Accesses : FieldRead(x) # <<main_port>> /\ \A m \in members : m.name # FieldRead(x)[1]}
           From(c) == [from |-> Up, path |-> FieldRead(c)]
<1>1. SUFFICES ASSUME FlowInv, flow_phase = "done",
                      Len(returns) = 1, returns[1].scope = "program",
                      returns[1].value.kind = "object", inputs = {Up},
                      members # {}, \A m \in members : m.form \in {"name", "literal"},
                      script[Up].modules = {}, script[Down].modules = {},
                      \A c \in Accesses : ReadsField(c) /\ Len(FieldRead(c)) = 1
               PROVE  issues = {<<"source_field_missing", From(c)>> : c \in Missing}
  BY DEF SimpleFormsExact
<1>2. CodeErrors = {}
  BY <1>1, ContractOf DEF CodeErrors
<1>3. \A c \in Accesses : FromInput(c) /\ ReadsInput(c)
  BY <1>1 DEF ReadsField, ReadsInput, FromInput
<1>4. ToSet(input_sources) = {From(c) : c \in Accesses}
  <2>1. {a \in Accesses : ReadsInput(a)} = Accesses
    BY <1>3
  <2>2. ToSet(input_sources) = {[from |-> Up, path |-> Recorded(c)] : c \in {a \in Accesses : ReadsInput(a)}}
    BY <1>1, <1>3, SourcesOfReads
  <2>0. Given
    BY <1>1 DEF FlowInv
  <2>3. \A c \in Accesses : IsSequence(c.steps)
    BY <2>0, StepsAreSequences
  <2>4. \A c \in Accesses : Recorded(c) = FieldRead(c)
    BY <1>1, <2>3, RecordedIsRead
  <2>5. QED BY <2>1, <2>2, <2>4
<1>5. output_type(Up) = [type |-> "object", props |-> props]
  <2>1. flow_phase # "precompile"
    BY <1>1
  <2>2. QED BY <1>1, <2>1, LiteralIsType
<1>6. /\ \A f \in DOMAIN props : props[f] # NoField
      /\ DOMAIN props # {}
      /\ \A f : f \notin DOMAIN props <=> \A m \in members : m.name # f
  <2>1. returns[1] \in ToSet(returns)
    <3>1. IsSequence(returns)
      BY <1>1, ProgramFacts DEF FlowInv
    <3>2. 1 \in DOMAIN returns
      BY <1>1, <3>1 DEF IsSequence
    <3>3. QED BY <3>2 DEF ToSet
  <2>2. script \in Programs
    BY <1>1 DEF FlowInv, Given
  <2>3. IsSequence(returns[1].value.members) /\ \A m \in members : m.type # NoField
    BY <1>1, <2>1, <2>2, CodeFlowAssumption
  <2>4. /\ DOMAIN props = {m.name : m \in members}
        /\ \A f \in DOMAIN props : \E m \in members : props[f] = m.type
    BY <1>1, <2>3, NamedMembers
  <2> HIDE DEF props, members
  <2>5. QED BY <1>1, <2>3, <2>4
<1>7. \A c \in Accesses : IsSequence(FieldRead(c))
  <2>1. SUFFICES ASSUME NEW c \in Accesses PROVE IsSequence(FieldRead(c))
    OBVIOUS
  <2>2. IsSequence(c.steps)
    <3>1. \A k \in DOMAIN Chains : IsSequence(Chains[k].steps)
      BY <1>1, ProgramFacts DEF FlowInv
    <3>2. QED BY <3>1 DEF Accesses, Chains, ToSet
  <2>3. IsSequence(Fields(c.steps))
    BY <2>2, FieldsAreASequence
  <2>4. Fields(c.steps) # <<>> => IsSequence(Tail(Fields(c.steps)))
    BY <2>3, SetOfTail
  <2>5. QED BY <2>3, <2>4 DEF FieldRead
<1>8. ASSUME NEW c \in Accesses
      PROVE  issue(From(c)) = IF c \in Missing THEN "source_field_missing" ELSE "none"
  <2>1. Len(FieldRead(c)) = 1 /\ IsSequence(FieldRead(c))
    BY <1>1, <1>7
  <2> HIDE DEF props
  <2>2. issue(From(c)) = IF FieldRead(c) # <<main_port>> /\ FieldRead(c)[1] \notin DOMAIN props
                           THEN "source_field_missing" ELSE "none"
    BY <1>1, <1>5, <1>6, <2>1, FieldOfLiteral
  <2>3. QED BY <1>6, <2>2
<1> HIDE DEF Missing, From, props, members, returns
<1>9. Missing \subseteq Accesses
  BY DEF Missing
<1>10. ASSUME NEW p \in issues
       PROVE  p \in {<<"source_field_missing", From(c)>> : c \in Missing}
  <2>1. PICK s \in ToSet(input_sources) : p = <<issue(s), s>> /\ issue(s) # "none"
    BY <1>1, <1>2, IssuesAre
  <2>2. PICK c \in Accesses : s = From(c)
    BY <1>4
  <2>3. QED BY <1>8, <2>1, <2>2
<1>11. ASSUME NEW c \in Missing
       PROVE  <<"source_field_missing", From(c)>> \in issues
  <2>1. issue(From(c)) = "source_field_missing" /\ From(c) \in ToSet(input_sources)
    BY <1>4, <1>8, <1>9
  <2>2. QED BY <1>1, <2>1, IssuesAre
<1>12. QED BY <1>10, <1>11

(* The validator reports every node that does not exist, no field of an    *)
(* output that is not known, and where everything is known exactly the     *)
(* fields that are missing: of a literal without spread or computed names, *)
(* for chains that do not stray.                                           *)
THEOREM ReportsAreAlwaysSound == FlowSpec => []ReportsAreSound
<1>1. FlowInv => ReportsAreSound
  BY GhostsAreReported, SimpleFormsAreExact, UnknownIsNeverReported DEF ReportsAreSound
<1>2. QED BY <1>1, FlowInvariance, PTL
=============================================================================
