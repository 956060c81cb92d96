--------------------------- MODULE DocumentProofs ---------------------------
(***************************************************************************)
(* Proofs about what becomes of a compiled document: LoadIr, for every     *)
(* document; Manifest, for any number of nodes and credentials; Cli, for   *)
(* any combination of faults; Decompile, for every workflow and any number *)
(* of round trips; NodeIr, for every declaration and set of edits.         *)
(***************************************************************************)
EXTENDS LoadIr, NodeIr, Manifest, Cli, Decompile, FiniteSetTheorems, FunctionTheorems,
  SequenceTheorems, WellFoundedInduction, TLAPS

-----------------------------------------------------------------------------
(***************************************************************************)
(* LoadIr.  The document does not change, so a check that was passed stays *)
(* passed.                                                                 *)
(***************************************************************************)
Passed(k) == \A i \in 1..k : Checks[i][2]

LoadInv ==
  /\ doc \in Documents
  /\ Len(checked) \in 0..9
  /\ checked \in Seq({Checks[i][1] : i \in 1..9})
  /\ outcome \in {"loading", "accepted", "refused"}
  /\ Passed(Len(checked))
  /\ outcome = "accepted" => Len(checked) = 9

LEMMA NineChecks == Len(Checks) = 9 /\ DOMAIN Checks = 1..9
BY DEF Checks

LEMMA SameDocument ==
  ASSUME UNCHANGED doc
  PROVE  Checks' = Checks
BY DEF Checks, Header, Digest, ExitIsNamed, DistinctNodes, Entries, Settings, Connections,
       ExecutionOrder, Manifest, NodeKeys, main_topology_nodes

LEMMA LoadInitInv == LoadInit => LoadInv
<1> SUFFICES ASSUME LoadInit PROVE LoadInv
  OBVIOUS
<1>1. checked = <<>> /\ Len(checked) = 0
  BY DEF LoadInit
<1>2. Passed(Len(checked))
  BY <1>1 DEF Passed
<1>3. QED BY <1>1, <1>2 DEF LoadInit, LoadInv

LEMMA LoadStepInv == LoadInv /\ [LoadNext]_load_vars => LoadInv'
<1> SUFFICES ASSUME LoadInv, [LoadNext]_load_vars PROVE LoadInv'
  OBVIOUS
<1>1. CASE CheckDocument
  <2>1. /\ outcome = "loading" /\ Len(checked) < 9
        /\ UNCHANGED doc /\ Checks' = Checks
    BY <1>1, NineChecks, SameDocument DEF CheckDocument
  <2>2. CASE Checks[Len(checked) + 1][2]
    <3> DEFINE k == Len(checked) + 1
               name == Checks[k][1]
    <3>1. checked' = Append(checked, name) /\ UNCHANGED outcome
      BY <1>1, <2>2 DEF CheckDocument
    <3>2. k \in 1..9 /\ name \in {Checks[i][1] : i \in 1..9}
      BY <2>1 DEF LoadInv
    <3> HIDE DEF name
    <3>3. checked' \in Seq({Checks[i][1] : i \in 1..9}) /\ Len(checked') = k
      BY <3>1, <3>2 DEF LoadInv
    <3>4. \A i \in 1..k : Checks[i][2]
      <4>1. \A i \in 1..k : i = k \/ i \in 1..Len(checked)
        BY <3>2
      <4>2. QED BY <2>2, <4>1 DEF LoadInv, Passed
    <3>5. Passed(Len(checked))'
      BY <2>1, <3>3, <3>4 DEF Passed
    <3>6. QED BY <2>1, <3>1, <3>2, <3>3, <3>5 DEF LoadInv
  <2>3. CASE ~ Checks[Len(checked) + 1][2]
    <3>1. outcome' = "refused" /\ UNCHANGED checked
      BY <1>1, <2>3 DEF CheckDocument
    <3>2. QED BY <2>1, <3>1 DEF LoadInv, Passed
  <2>4. QED BY <2>2, <2>3
<1>2. CASE Accept \/ LoadFinished \/ UNCHANGED load_vars
  <2>1. UNCHANGED <<doc, checked>> /\ Checks' = Checks
    BY <1>2, SameDocument DEF Accept, LoadFinished, load_vars
  <2>2. \/ UNCHANGED outcome
        \/ outcome' = "accepted" /\ Len(checked) = 9
    BY <1>2, NineChecks DEF Accept, LoadFinished, load_vars
  <2>3. QED BY <2>1, <2>2 DEF LoadInv, Passed
<1>3. QED BY <1>1, <1>2 DEF LoadNext

(* The checks that were passed hold of the document.                       *)
THEOREM LoadInvariance == LoadSpec => []LoadInv
BY LoadInitInv, LoadStepInv, PTL DEF LoadSpec

(* What acceptance means, check by check.                                  *)
LEMMA AllPassed ==
  ASSUME LoadInv, outcome = "accepted"
  PROVE  /\ Digest /\ ExitIsNamed /\ DistinctNodes /\ Entries
         /\ Connections /\ ExecutionOrder /\ Manifest
<1>1. \A i \in 1..9 : Checks[i][2]
  BY DEF LoadInv, Passed
<1>2. /\ Checks[2][2] = Digest /\ Checks[3][2] = ExitIsNamed /\ Checks[4][2] = DistinctNodes
      /\ Checks[5][2] = Entries /\ Checks[7][2] = Connections
      /\ Checks[8][2] = ExecutionOrder /\ Checks[9][2] = Manifest
  BY DEF Checks
<1>3. QED BY <1>1, <1>2

(* The types of the loader: nothing is accepted unsigned.                  *)
THEOREM LoadTypes == LoadSpec => []LoadTypeOK
<1>1. LoadInv => LoadTypeOK
  <2> SUFFICES ASSUME LoadInv PROVE LoadTypeOK
    OBVIOUS
  <2>1. outcome = "accepted" => doc.digest = "match" /\ doc.manifest = "ok"
    BY AllPassed DEF Digest, Manifest
  <2>2. Len(checked) \in 0..9
    BY DEF LoadInv
  <2>3. \A n \in 0..9 : n <= 9
    OBVIOUS
  <2>4. Len(checked) <= Len(Checks)
    BY <2>2, <2>3, NineChecks
  <2>5. QED BY <2>1, <2>4 DEF LoadTypeOK, LoadInv
<1>2. QED BY <1>1, LoadInvariance, PTL

(* No two nodes of an accepted document share a key.                       *)
LEMMA KeysAreDistinct ==
  ASSUME doc \in Documents, DistinctNodes
  PROVE  Cardinality(NodeKeys) = Len(doc.nodes) /\ ExitKey \in NodeKeys
<1> DEFINE key == [i \in 1..Len(doc.nodes) |-> doc.nodes[i].key]
<1>1. doc.nodes \in Seq(ToSet(doc.nodes))
  BY LoadIrAssumption
<1>2. DOMAIN doc.nodes = 1..Len(doc.nodes) /\ Len(doc.nodes) \in Nat
  BY <1>1
<1>3. ASSUME NEW i \in 1..Len(doc.nodes), NEW j \in 1..Len(doc.nodes), key[i] = key[j]
      PROVE  i = j
  <2>1. \A k \in 1..Len(doc.nodes) : \A m \in 1..(k - 1) : doc.nodes[m].key # doc.nodes[k].key
    BY <1>2 DEF DistinctNodes
  <2>2. doc.nodes[i].key = doc.nodes[j].key
    BY <1>3
  <2>3. ~ (i \in 1..(j - 1)) /\ ~ (j \in 1..(i - 1))
    BY <2>1, <2>2
  <2>4. QED BY <1>2, <2>3
<1>4. NodeKeys = {key[i] : i \in 1..Len(doc.nodes)}
  BY <1>2 DEF NodeKeys
<1>5. key \in Bijection(1..Len(doc.nodes), NodeKeys)
  <2>1. key \in Surjection(1..Len(doc.nodes), NodeKeys)
    BY <1>4 DEF Surjection
  <2>2. key \in Injection(1..Len(doc.nodes), NodeKeys)
    BY <1>3, <1>4, Fun_IsInj
  <2>3. QED BY <2>1, <2>2 DEF Bijection
<1>6. IsFiniteSet(1..Len(doc.nodes)) /\ Cardinality(1..Len(doc.nodes)) = Len(doc.nodes)
  <2>1. IF 1 > Len(doc.nodes) THEN 1..Len(doc.nodes) = {} ELSE TRUE
    BY <1>2
  <2>2. QED BY <1>2, <2>1, FS_Interval, FS_EmptySet
<1>7. Cardinality(NodeKeys) = Len(doc.nodes)
  <2> HIDE DEF key
  <2>1. ExistsBijection(1..Len(doc.nodes), NodeKeys)
    BY <1>5 DEF ExistsBijection
  <2>2. Cardinality(1..Len(doc.nodes)) = Cardinality(NodeKeys)
    BY <1>6, <2>1, FS_Bijection
  <2>3. QED BY <1>6, <2>2
<1>8. ExitKey \in NodeKeys
  BY DEF DistinctNodes, NodeKeys
<1>9. QED BY <1>7, <1>8

(* A key that is listed once has one place.                                *)
LEMMA OnePlace ==
  ASSUME NEW s \in DOMAIN doc.order, doc \in Documents, ExecutionOrder, NEW k
  PROVE  LET places == {i \in DOMAIN doc.order[s] : doc.order[s][i] = k}
         IN  /\ k \in main_topology_nodes => Cardinality(places) = 1
             /\ k \notin main_topology_nodes => places = {}
<1> DEFINE list == doc.order[s]
           places == {i \in DOMAIN list : list[i] = k}
<1>1. ToSet(list) = main_topology_nodes /\ IsInjective(list)
  BY DEF ExecutionOrder
<1>2. k \in main_topology_nodes <=> \E i \in DOMAIN list : list[i] = k
  BY <1>1 DEF ToSet
<1>3. \A i, j \in places : i = j
  BY <1>1 DEF IsInjective
<1>4. ASSUME k \in main_topology_nodes PROVE Cardinality(places) = 1
  <2>1. PICK i \in DOMAIN list : list[i] = k
    BY <1>2, <1>4
  <2>2. places = {i}
    BY <1>3, <2>1
  <2>3. QED BY <2>2, FS_Singleton
<1>5. QED BY <1>2, <1>4

(* What every consumer relies on without looking again, for any document.  *)
THEOREM AcceptedIsAlwaysSound == LoadSpec => []AcceptedIsSound
<1>1. LoadInv => AcceptedIsSound
  <2> SUFFICES ASSUME LoadInv, outcome = "accepted" PROVE AcceptedIsSound
    BY DEF AcceptedIsSound
  <2>1. /\ doc \in Documents /\ ExitIsNamed /\ DistinctNodes /\ Entries
        /\ Connections /\ ExecutionOrder
    BY AllPassed DEF LoadInv
  <2>2. Cardinality(NodeKeys) = Len(doc.nodes)
    BY <2>1, KeysAreDistinct
  <2>3. doc.entries \cup {doc.exit_key} \subseteq NodeKeys
    BY <2>1, KeysAreDistinct DEF Entries, ExitIsNamed
  <2>4. \A i \in DOMAIN doc.connections :
          {doc.connections[i].from, doc.connections[i].to} \subseteq NodeKeys
    BY <2>1 DEF Connections
  <2> DEFINE cs == ToSet(doc.connections)
             OnlyServes(k) == /\ \E c \in cs : c.from = k
                              /\ \A c \in cs : k \in {c.from, c.to} => c.type = "ai" /\ c.from = k
             places(s, k) == {i \in DOMAIN doc.order[s] : doc.order[s][i] = k}
  <2>5. \A c \in cs : {c.from, c.to} \subseteq NodeKeys /\ c.type \in {"main", "ai"}
    BY <2>1 DEF Connections, ToSet
  <2>6. ASSUME NEW c \in cs, c.type = "main"
        PROVE  c.from \in main_topology_nodes /\ c.to \in main_topology_nodes
    BY <2>5, <2>6 DEF main_topology_nodes
  <2>7. ASSUME NEW k, OnlyServes(k) PROVE k \notin main_topology_nodes
    <3>1. PICK c \in cs : c.from = k /\ c.type = "ai"
      BY <2>7
    <3>2. \A d \in cs : d.type = "main" => d.from # k /\ d.to # k
      BY <2>7
    <3>3. QED BY <3>1, <3>2 DEF main_topology_nodes
  <2> HIDE DEF OnlyServes, cs
  <2>8. ASSUME NEW s \in DOMAIN doc.order, NEW k
        PROVE  /\ \A c \in cs : c.type = "main" /\ k \in {c.from, c.to} =>
                    Cardinality(places(s, k)) = 1
               /\ OnlyServes(k) => places(s, k) = {}
    BY <2>1, <2>6, <2>7, OnePlace
  <2>9. QED BY <2>2, <2>3, <2>4, <2>8 DEF AcceptedIsSound, OnlyServes, cs
<1>2. QED BY <1>1, LoadInvariance, PTL

-----------------------------------------------------------------------------
(***************************************************************************)
(* Cli.  First the exit codes of the exceptions, clause by clause.         *)
(***************************************************************************)
LEMMA FirstOfFew ==
  ASSUME NEW S \in SUBSET (1..4), S # {}
  PROVE  first(S) \in S /\ \A j \in S : first(S) <= j
<1>1. \E i \in S : \A j \in S : i <= j
  <2>1. CASE 1 \in S
    BY <2>1
  <2>2. CASE 1 \notin S /\ 2 \in S
    BY <2>2
  <2>3. CASE 1 \notin S /\ 2 \notin S /\ 3 \in S
    BY <2>3
  <2>4. CASE 1 \notin S /\ 2 \notin S /\ 3 \notin S
    <3>1. \A n \in 1..4 : n = 1 \/ n = 2 \/ n = 3 \/ n = 4
      OBVIOUS
    <3>2. \A n \in S : n = 4
      BY <2>4, <3>1
    <3>3. 4 \in S
      BY <3>2
    <3>4. QED BY <3>2, <3>3
  <2>5. QED BY <2>1, <2>2, <2>3, <2>4
<1>2. QED BY <1>1 DEF first

LEMMA FourClauses ==
  /\ DOMAIN Clauses = 1..4
  /\ Clauses[1].names = {"WorkflowValidationError"} /\ Clauses[1].code = 1
  /\ Clauses[2].names = {"UnsupportedSourceError"} /\ Clauses[2].code = 1
  /\ Clauses[3].names = {"JSInfraError"} /\ Clauses[3].code = 3
  /\ Clauses[4].names = {"OSError", "RuntimeError", "TypeError", "ValueError"}
  /\ Clauses[4].code = 2
BY DEF Clauses

LEMMA CodeOfClause ==
  ASSUME NEW e, NEW k \in 1..4, Clauses[k].names \cap Classes(e) # {},
         \A j \in 1..4 : j < k => Clauses[j].names \cap Classes(e) = {}
  PROVE  exit_code(e) = Clauses[k].code
<1> DEFINE hits == {i \in DOMAIN Clauses : Clauses[i].names \cap Classes(e) # {}}
<1>1. k \in hits /\ hits \in SUBSET (1..4) /\ hits # {}
  BY FourClauses
<1>2. \A j \in hits : k <= j
  BY FourClauses
<1>3. exit_code(e) = Clauses[first(hits)].code
  BY <1>1 DEF exit_code
<1> HIDE DEF hits
<1>4. first(hits) \in hits /\ \A j \in hits : first(hits) <= j
  BY <1>1, FirstOfFew
<1>5. first(hits) = k
  <2>1. k <= first(hits) /\ first(hits) <= k
    BY <1>1, <1>2, <1>4
  <2>2. first(hits) \in 1..4
    BY <1>1, <1>4
  <2>3. QED BY <2>1, <2>2
<1>6. QED BY <1>3, <1>5

(* The codes that main gives.                                              *)
LEMMA ExitCodes ==
  /\ \A e \in {"OSError", "JSONDecodeError", "ValueError", "TypeError", "UnicodeError",
               "RecursionError"} : exit_code(e) = 2
  /\ \A e \in {"AttributeError", "UnsupportedSourceError", "WorkflowValidationError"} :
       exit_code(e) = 1
  /\ exit_code("JSInfraError") = 3
<1>1. ASSUME NEW e \in {"OSError", "ValueError", "TypeError"} PROVE exit_code(e) = 2
  <2>1. Classes(e) = {e}
    BY <1>1 DEF Classes
  <2>2. QED BY <1>1, <2>1, FourClauses, CodeOfClause
<1>2. ASSUME NEW e \in {"JSONDecodeError", "UnicodeError"} PROVE exit_code(e) = 2
  <2>1. Classes(e) = {e, "ValueError"}
    BY <1>2 DEF Classes
  <2>2. QED BY <1>2, <2>1, FourClauses, CodeOfClause
<1>3. exit_code("RecursionError") = 2
  <2>1. Classes("RecursionError") = {"RecursionError", "RuntimeError"}
    BY DEF Classes
  <2>2. QED BY <2>1, FourClauses, CodeOfClause
<1>4. exit_code("AttributeError") = 1
  <2>1. Classes("AttributeError") = {"AttributeError"}
    BY DEF Classes
  <2>2. {i \in DOMAIN Clauses : Clauses[i].names \cap Classes("AttributeError") # {}} = {}
    BY <2>1, FourClauses
  <2>3. QED BY <2>2 DEF exit_code
<1>5. exit_code("WorkflowValidationError") = 1
  <2>1. Classes("WorkflowValidationError") = {"WorkflowValidationError", "ValueError"}
    BY DEF Classes
  <2>2. QED BY <2>1, FourClauses, CodeOfClause
<1>6. exit_code("UnsupportedSourceError") = 1
  <2>1. Classes("UnsupportedSourceError") = {"UnsupportedSourceError", "ValueError"}
    BY DEF Classes
  <2>2. QED BY <2>1, FourClauses, CodeOfClause
<1>7. exit_code("JSInfraError") = 3
  <2>1. Classes("JSInfraError") = {"JSInfraError", "RuntimeError"}
    BY DEF Classes
  <2>2. QED BY <2>1, FourClauses, CodeOfClause
<1>8. QED BY <1>1, <1>2, <1>3, <1>4, <1>5, <1>6, <1>7

(* The faults of a stage, one by one.                                      *)
LEMMA OneFault ==
  ASSUME NEW p, NEW faults, faults = <<p>>
  PROVE  /\ DOMAIN faults \in SUBSET (1..4)
         /\ \A i \in DOMAIN faults : i = 1
         /\ 1 \in DOMAIN faults /\ faults[1] = p
OBVIOUS

LEMMA TwoFaults ==
  ASSUME NEW p, NEW q, NEW faults, faults = <<p, q>>
  PROVE  /\ DOMAIN faults \in SUBSET (1..4)
         /\ \A i \in DOMAIN faults : i = 1 \/ i = 2
         /\ 1 \in DOMAIN faults /\ faults[1] = p
         /\ 2 \in DOMAIN faults /\ faults[2] = q
OBVIOUS

LEMMA ThreeFaults ==
  ASSUME NEW p, NEW q, NEW r, NEW faults, faults = <<p, q, r>>
  PROVE  /\ DOMAIN faults \in SUBSET (1..4)
         /\ \A i \in DOMAIN faults : i = 1 \/ i = 2 \/ i = 3
         /\ 1 \in DOMAIN faults /\ faults[1] = p
         /\ 2 \in DOMAIN faults /\ faults[2] = q
         /\ 3 \in DOMAIN faults /\ faults[3] = r
OBVIOUS

(* A stage goes on if none of its faults is there, or raises for one.      *)
LEMMA StageRaisesOrGoesOn ==
  ASSUME NEW name, NEW faults, NEW next, DOMAIN faults \in SUBSET (1..4),
         Stage(name, faults, next)
  PROVE  /\ cli_stage = name
         /\ \/ /\ \A i \in DOMAIN faults : faults[i][1] \notin input
               /\ cli_stage' = next /\ UNCHANGED result
            \/ \E i \in DOMAIN faults :
                 faults[i][1] \in input /\ ExitWith(exit_code(faults[i][2]))
<1> DEFINE hits == {i \in DOMAIN faults : faults[i][1] \in input}
<1>1. CASE hits = {}
  BY <1>1 DEF Stage
<1>2. CASE hits # {}
  <2>1. ExitWith(exit_code(faults[first(hits)][2])) /\ cli_stage = name
    BY <1>2 DEF Stage
  <2>2. hits \in SUBSET (1..4)
    OBVIOUS
  <2>3. first(hits) \in hits
    <3> HIDE DEF hits
    <3>1. QED BY <1>2, <2>2, FirstOfFew
  <2>4. QED BY <2>1, <2>3
<1>3. QED BY <1>1, <1>2

(***************************************************************************)
(* Every code is the truth about the input, and what a stage has looked    *)
(* for is not there when the next one is reached.                          *)
(***************************************************************************)
Rejections == {"wrapped list", "python", "nested list", "invalid"}

ReadFaults == {"unreadable", "malformed", "constant", "list"}
CollectFaults == {"wrapped list", "python"}
ParseFaults == {"duplicate", "nested list", "settings"}

RuledOut(stage) ==
  CASE stage = "collect" -> ReadFaults
    [] stage = "bridge" -> ReadFaults \cup CollectFaults
    [] stage = "parse" -> ReadFaults \cup CollectFaults \cup {"deep script"}
    [] stage = "validate" ->
         ReadFaults \cup CollectFaults \cup {"deep script"} \cup ParseFaults
    [] stage = "serialize" ->
         ReadFaults \cup CollectFaults \cup {"deep script", "invalid"} \cup ParseFaults
    [] stage = "write" -> Faults
    [] OTHER -> {}

(* The code is what the input deserves.                                    *)
Deserved(c, code) ==
  /\ code = 1 => input \cap Rejections # {}
  /\ code = 0 => /\ input \cap Rejections = {}
                 /\ c = "compile" => input \subseteq {"code"}

CliInv ==
  /\ input \subseteq Faults \cup {"code"}
  /\ cli_stage \in {"idle", "read", "collect", "bridge", "parse",
                    "validate", "serialize", "write"}
  /\ command \in Commands
  /\ DOMAIN result \subseteq Commands
  /\ infra \subseteq DOMAIN result
  /\ input \cap RuledOut(cli_stage) = {}
  /\ cli_stage # "idle" => command \notin DOMAIN result
  /\ cli_stage \in {"serialize", "write"} => command = "compile"
  /\ \A c \in DOMAIN result :
       /\ result[c] \in 0..3
       /\ Deserved(c, result[c])
       /\ result[c] = 3 <=> c \in infra
  /\ "compile" \notin DOMAIN result => file = "old"
  /\ "compile" \in DOMAIN result =>
       /\ file \in {"old", "torn", "ir"}
       /\ file = "torn" => result["compile"] = 2 /\ input \subseteq {"code"}
       /\ file = "ir" <=> result["compile"] = 0

LEMMA CliInitInv == CliInit => CliInv
<1> SUFFICES ASSUME CliInit PROVE CliInv
  OBVIOUS
<1>1. DOMAIN result = {}
  BY DEF CliInit
<1>2. RuledOut("idle") = {}
  BY DEF RuledOut
<1>3. QED BY <1>1, <1>2, CliAssumption DEF CliInit, CliInv

(* The step to another stage.                                              *)
LEMMA NextStage ==
  ASSUME CliInv, NEW stage \in {"collect", "bridge", "parse", "validate", "serialize", "write"},
         cli_stage # "idle", cli_stage' = stage,
         UNCHANGED <<input, command, result, infra, file>>,
         input \cap RuledOut(stage) = {},
         stage \in {"serialize", "write"} => command = "compile"
  PROVE  CliInv'
<1>1. (input \cap RuledOut(cli_stage) = {})'
  BY DEF RuledOut
<1>2. QED BY <1>1 DEF CliInv, Deserved

(* The end of a command, with the code the input deserves.                 *)
LEMMA CommandEnds ==
  ASSUME CliInv, NEW code \in 0..3, cli_stage # "idle", ExitWith(code),
         UNCHANGED <<input, command>>,
         Deserved(command, code),
         infra' = IF code = 3 THEN infra \cup {command} ELSE infra,
         command = "check" => UNCHANGED file,
         command = "compile" => /\ file' \in {"old", "torn", "ir"}
                                /\ file' = "torn" => code = 2 /\ input \subseteq {"code"}
                                /\ file' = "ir" <=> code = 0
  PROVE  CliInv'
<1>1. /\ DOMAIN result' = DOMAIN result \cup {command}
      /\ result'[command] = code
      /\ \A c \in DOMAIN result : result'[c] = result[c]
      /\ cli_stage' = "idle"
      /\ command \notin DOMAIN result
      /\ command \in {"check", "compile"}
  BY DEF ExitWith, CliInv, Commands
<1>2. (input \cap RuledOut(cli_stage) = {})'
  BY <1>1 DEF RuledOut
<1>3. ASSUME NEW c \in DOMAIN result'
      PROVE  /\ result'[c] \in 0..3
             /\ Deserved(c, result'[c])
             /\ result'[c] = 3 <=> c \in infra'
  <2>1. CASE c = command
    BY <1>1, <2>1 DEF CliInv
  <2>2. CASE c # command
    BY <1>1, <2>2 DEF CliInv
  <2>3. QED BY <2>1, <2>2
<1>4. /\ "compile" \notin DOMAIN result' => file' = "old"
      /\ "compile" \in DOMAIN result' =>
           /\ file' \in {"old", "torn", "ir"}
           /\ file' = "torn" => result'["compile"] = 2 /\ input \subseteq {"code"}
           /\ file' = "ir" <=> result'["compile"] = 0
  <2>1. CASE command = "check"
    BY <1>1, <2>1 DEF CliInv
  <2>2. CASE command = "compile"
    BY <1>1, <2>2
  <2>3. QED BY <1>1, <2>1, <2>2
<1>5. QED BY <1>1, <1>2, <1>3, <1>4 DEF CliInv, Deserved

(* A stage whose faults exit with codes that the input deserves.           *)
LEMMA StageStep ==
  ASSUME CliInv,
         NEW name \in {"read", "collect", "bridge", "parse", "serialize"},
         NEW next \in {"collect", "bridge", "parse", "validate", "write"},
         NEW faults, DOMAIN faults \in SUBSET (1..4),
         Stage(name, faults, next),
         UNCHANGED <<input, command, infra, file>>,
         \A i \in DOMAIN faults :
           /\ exit_code(faults[i][2]) \in {1, 2}
           /\ exit_code(faults[i][2]) = 1 => faults[i][1] \in Rejections,
         (\A i \in DOMAIN faults : faults[i][1] \notin input) => input \cap RuledOut(next) = {},
         next = "write" => name = "serialize"
  PROVE  CliInv'
<1>1. cli_stage = name /\ cli_stage # "idle"
  BY StageRaisesOrGoesOn
<1>2. CASE \A i \in DOMAIN faults : faults[i][1] \notin input
  <2>1. cli_stage' = next /\ UNCHANGED result
    BY <1>2, StageRaisesOrGoesOn
  <2>2. next \in {"serialize", "write"} => command = "compile"
    BY <1>1 DEF CliInv
  <2>3. QED BY <1>1, <1>2, <2>1, <2>2, NextStage
<1>3. CASE \E i \in DOMAIN faults : faults[i][1] \in input
  <2>1. PICK i \in DOMAIN faults :
          faults[i][1] \in input /\ ExitWith(exit_code(faults[i][2]))
    BY <1>3, StageRaisesOrGoesOn
  <2> DEFINE code == exit_code(faults[i][2])
  <2>2. code \in 0..3 /\ code # 0 /\ code # 3 /\ ExitWith(code)
    BY <2>1
  <2>3. Deserved(command, code)
    BY <2>1 DEF Deserved
  <2> HIDE DEF code
  <2>4. infra' = IF code = 3 THEN infra \cup {command} ELSE infra
    BY <2>2
  <2>5. command \in {"check", "compile"}
    BY DEF CliInv, Commands
  <2>6. command = "compile" => file' = "old"
    BY <1>1 DEF CliInv
  <2>7. QED BY <1>1, <2>2, <2>3, <2>4, <2>6, CommandEnds
<1>4. QED BY <1>2, <1>3

LEMMA CliStepInv == CliInv /\ [CliNext]_cli_vars => CliInv'
<1> SUFFICES ASSUME CliInv, [CliNext]_cli_vars PROVE CliInv'
  OBVIOUS
<1>1. CASE Invoke
  <2>1. /\ command' \in Commands \ DOMAIN result
        /\ cli_stage' = "read"
        /\ UNCHANGED <<input, result, infra, file>>
    BY <1>1 DEF Invoke
  <2>2. (input \cap RuledOut(cli_stage) = {})'
    BY <2>1 DEF RuledOut
  <2>3. QED BY <2>1, <2>2 DEF CliInv, Deserved
<1>2. CASE Read
  <2> DEFINE faults == << <<"unreadable", "OSError">>, <<"malformed", "JSONDecodeError">>,
                          <<"constant", "ValueError">>, <<"list", "TypeError">> >>
  <2>1. Stage("read", faults, "collect") /\ UNCHANGED <<input, command, infra, file>>
    BY <1>2 DEF Read
  <2>2. /\ DOMAIN faults = 1..4
        /\ \A i \in DOMAIN faults : exit_code(faults[i][2]) = 2
    BY ExitCodes
  <2>3. (\A i \in DOMAIN faults : faults[i][1] \notin input) => input \cap RuledOut("collect") = {}
    BY DEF RuledOut, ReadFaults
  <2> HIDE DEF faults
  <2>4. DOMAIN faults \in SUBSET (1..4)
    BY <2>2
  <2>5. \A i \in DOMAIN faults :
           /\ exit_code(faults[i][2]) \in {1, 2}
           /\ exit_code(faults[i][2]) = 1 => faults[i][1] \in Rejections
    BY <2>2
  <2>6. QED BY <2>1, <2>3, <2>4, <2>5, StageStep
<1>3. CASE Collect
  <2> DEFINE p == <<"wrapped list", "AttributeError">>
             q == <<"python", "UnsupportedSourceError">>
             faults == <<p, q>>
  <2>1. /\ Stage("collect", faults, "bridge") /\ cli_stage = "collect"
        /\ UNCHANGED <<input, command, infra, file>>
    BY <1>3 DEF Collect, Stage
  <2>2. /\ p[1] = "wrapped list" /\ exit_code(p[2]) = 1
        /\ q[1] = "python" /\ exit_code(q[2]) = 1
    BY ExitCodes
  <2>3. RuledOut("bridge") = RuledOut("collect") \cup {"wrapped list", "python"}
    BY DEF RuledOut, CollectFaults
  <2>4. "wrapped list" \in Rejections /\ "python" \in Rejections
    BY DEF Rejections
  <2> HIDE DEF p, q
  <2>5. /\ DOMAIN faults \in SUBSET (1..4)
        /\ \A i \in DOMAIN faults : i = 1 \/ i = 2
        /\ 1 \in DOMAIN faults /\ faults[1] = p
        /\ 2 \in DOMAIN faults /\ faults[2] = q
    BY TwoFaults
  <2> HIDE DEF faults
  <2>6. (\A i \in DOMAIN faults : faults[i][1] \notin input) => input \cap RuledOut("bridge") = {}
    <3>1. input \cap RuledOut("collect") = {}
      BY <2>1 DEF CliInv
    <3>2. (\A i \in DOMAIN faults : faults[i][1] \notin input)
            => "wrapped list" \notin input /\ "python" \notin input
      BY <2>2, <2>5
    <3>3. QED BY <3>1, <3>2, <2>3
  <2>7. \A i \in DOMAIN faults :
           /\ exit_code(faults[i][2]) \in {1, 2}
           /\ exit_code(faults[i][2]) = 1 => faults[i][1] \in Rejections
    BY <2>2, <2>4, <2>5
  <2>8. QED BY <2>1, <2>5, <2>6, <2>7, StageStep
<1>4. CASE Bridge
  <2>1. CASE "code" \in input /\ ~bridge
    <3>1. /\ cli_stage = "bridge" /\ ExitWith(3)
          /\ infra' = infra \cup {command}
          /\ UNCHANGED <<input, command, file>>
      BY <1>4, <2>1, ExitCodes DEF Bridge
    <3>2. Deserved(command, 3)
      BY DEF Deserved
    <3>3. command = "compile" => file' = "old"
      BY <3>1 DEF CliInv
    <3> DEFINE code == 3
    <3>4. code \in 0..3 /\ code # 0 /\ (IF code = 3 THEN TRUE ELSE FALSE)
      OBVIOUS
    <3>5. QED BY <3>1, <3>2, <3>3, <3>4, CommandEnds
  <2>2. CASE ~ ("code" \in input /\ ~bridge)
    <3> DEFINE p == <<"deep script", "RecursionError">>
               faults == <<p>>
    <3>1. /\ Stage("bridge", faults, "parse") /\ cli_stage = "bridge"
          /\ UNCHANGED <<input, command, infra, file>>
      BY <1>4, <2>2 DEF Bridge, Stage
    <3>2. p[1] = "deep script" /\ exit_code(p[2]) = 2
      BY ExitCodes
    <3>3. RuledOut("parse") = RuledOut("bridge") \cup {"deep script"}
      BY DEF RuledOut
    <3> HIDE DEF p
    <3>4. /\ DOMAIN faults \in SUBSET (1..4)
          /\ \A i \in DOMAIN faults : i = 1
          /\ 1 \in DOMAIN faults /\ faults[1] = p
      BY OneFault
    <3> HIDE DEF faults
    <3>5. (\A i \in DOMAIN faults : faults[i][1] \notin input) => input \cap RuledOut("parse") = {}
      <4>1. input \cap RuledOut("bridge") = {}
        BY <3>1 DEF CliInv
      <4>2. (\A i \in DOMAIN faults : faults[i][1] \notin input) => "deep script" \notin input
        BY <3>2, <3>4
      <4>3. QED BY <4>1, <4>2, <3>3
    <3>6. \A i \in DOMAIN faults :
             /\ exit_code(faults[i][2]) \in {1, 2}
             /\ exit_code(faults[i][2]) = 1 => faults[i][1] \in Rejections
      <4>1. \A i \in DOMAIN faults : exit_code(faults[i][2]) = 2
        BY <3>2, <3>4
      <4>2. QED BY <4>1
    <3>7. QED BY <3>1, <3>4, <3>5, <3>6, StageStep
  <2>3. QED BY <2>1, <2>2
<1>5. CASE Parse
  <2> DEFINE p == <<"duplicate", "ValueError">>
             q == <<"nested list", "AttributeError">>
             r == <<"settings", "ValueError">>
             faults == <<p, q, r>>
  <2>1. /\ Stage("parse", faults, "validate") /\ cli_stage = "parse"
        /\ UNCHANGED <<input, command, infra, file>>
    BY <1>5 DEF Parse, Stage
  <2>2. /\ p[1] = "duplicate" /\ exit_code(p[2]) = 2
        /\ q[1] = "nested list" /\ exit_code(q[2]) = 1
        /\ r[1] = "settings" /\ exit_code(r[2]) = 2
    BY ExitCodes
  <2>3. RuledOut("validate") = RuledOut("parse") \cup
                               {"duplicate", "nested list", "settings"}
    BY DEF RuledOut, ParseFaults
  <2>4. "nested list" \in Rejections
    BY DEF Rejections
  <2> HIDE DEF p, q, r
  <2>5. /\ DOMAIN faults \in SUBSET (1..4)
        /\ \A i \in DOMAIN faults : i = 1 \/ i = 2 \/ i = 3
        /\ 1 \in DOMAIN faults /\ faults[1] = p
        /\ 2 \in DOMAIN faults /\ faults[2] = q
        /\ 3 \in DOMAIN faults /\ faults[3] = r
    BY ThreeFaults
  <2> HIDE DEF faults
  <2>6. (\A i \in DOMAIN faults : faults[i][1] \notin input) => input \cap RuledOut("validate") = {}
    <3> SUFFICES ASSUME \A i \in DOMAIN faults : faults[i][1] \notin input
                 PROVE  input \cap RuledOut("validate") = {}
      OBVIOUS
    <3>1. p[1] \notin input /\ q[1] \notin input /\ r[1] \notin input
      BY <2>5
    <3>2. input \cap RuledOut("parse") = {}
      BY <2>1 DEF CliInv
    <3>3. QED BY <2>2, <2>3, <3>1, <3>2
  <2>7. \A i \in DOMAIN faults :
           /\ exit_code(faults[i][2]) \in {1, 2}
           /\ exit_code(faults[i][2]) = 1 => faults[i][1] \in Rejections
    BY <2>2, <2>4, <2>5
  <2>8. QED BY <2>1, <2>5, <2>6, <2>7, StageStep
<1>6. CASE Validate
  <2>1. /\ cli_stage = "validate" /\ UNCHANGED <<input, command, infra, file>>
        /\ input \cap RuledOut("validate") = {}
        /\ command \in {"check", "compile"}
    BY <1>6 DEF Validate, CliInv, Commands
  <2>2. command = "compile" => file' = "old"
    BY <2>1 DEF CliInv
  <2>3. CASE "invalid" \in input
    <3>1. ExitWith(1)
      <4>1. exit_code("WorkflowValidationError") = 1
        BY ExitCodes
      <4>2. ExitWith(IF command = "check" THEN 1 ELSE exit_code("WorkflowValidationError"))
        BY <1>6, <2>3 DEF Validate
      <4>3. QED BY <4>1, <4>2
    <3>2. Deserved(command, 1)
      <4>1. input \cap Rejections # {}
        BY <2>3 DEF Rejections
      <4>2. QED BY <4>1 DEF Deserved
    <3> DEFINE code == 1
    <3>3. code \in 0..3 /\ code # 0 /\ code # 3
      OBVIOUS
    <3>4. QED BY <2>1, <2>2, <3>1, <3>2, <3>3, CommandEnds
  <2>4. CASE "invalid" \notin input /\ command = "check"
    <3>1. ExitWith(0)
      BY <1>6, <2>4 DEF Validate
    <3>2. input \cap Rejections = {}
      BY <2>1, <2>4 DEF RuledOut, Rejections, CollectFaults, ParseFaults
    <3>3. Deserved(command, 0)
      BY <2>4, <3>2 DEF Deserved
    <3> DEFINE code == 0
    <3>4. code \in 0..3 /\ code # 3
      OBVIOUS
    <3>5. QED BY <2>1, <2>4, <3>1, <3>3, <3>4, CommandEnds
  <2>5. CASE "invalid" \notin input /\ command # "check"
    <3>1. cli_stage' = "serialize" /\ UNCHANGED result
      BY <1>6, <2>5 DEF Validate
    <3>2. input \cap RuledOut("serialize") = {}
      BY <2>1, <2>5 DEF RuledOut
    <3>3. QED BY <2>1, <2>5, <3>1, <3>2, NextStage
  <2>6. QED BY <2>3, <2>4, <2>5
<1>7. CASE Serialize
  <2> DEFINE p == <<"overflow", "ValueError">>
             q == <<"surrogate", "UnicodeError">>
             r == <<"odd setting", "TypeError">>
             faults == <<p, q, r>>
  <2>1. /\ Stage("serialize", faults, "write") /\ cli_stage = "serialize"
        /\ UNCHANGED <<input, command, infra, file>>
    BY <1>7 DEF Serialize, Stage
  <2>2. /\ p[1] = "overflow" /\ exit_code(p[2]) = 2
        /\ q[1] = "surrogate" /\ exit_code(q[2]) = 2
        /\ r[1] = "odd setting" /\ exit_code(r[2]) = 2
    BY ExitCodes
  <2>3. RuledOut("write") = RuledOut("serialize") \cup
                               {"overflow", "surrogate", "odd setting"}
    BY DEF RuledOut, ReadFaults, CollectFaults, ParseFaults, Faults
  <2> HIDE DEF p, q, r
  <2>4. /\ DOMAIN faults \in SUBSET (1..4)
        /\ \A i \in DOMAIN faults : i = 1 \/ i = 2 \/ i = 3
        /\ 1 \in DOMAIN faults /\ faults[1] = p
        /\ 2 \in DOMAIN faults /\ faults[2] = q
        /\ 3 \in DOMAIN faults /\ faults[3] = r
    BY ThreeFaults
  <2> HIDE DEF faults
  <2>5. (\A i \in DOMAIN faults : faults[i][1] \notin input) => input \cap RuledOut("write") = {}
    <3> SUFFICES ASSUME \A i \in DOMAIN faults : faults[i][1] \notin input
                 PROVE  input \cap RuledOut("write") = {}
      OBVIOUS
    <3>1. p[1] \notin input /\ q[1] \notin input /\ r[1] \notin input
      BY <2>4
    <3>2. input \cap RuledOut("serialize") = {}
      BY <2>1 DEF CliInv
    <3>3. QED BY <2>2, <2>3, <3>1, <3>2
  <2>6. \A i \in DOMAIN faults :
           /\ exit_code(faults[i][2]) \in {1, 2}
           /\ exit_code(faults[i][2]) = 1 => faults[i][1] \in Rejections
    BY <2>2, <2>4
  <2>7. QED BY <2>1, <2>4, <2>5, <2>6, StageStep
<1>8. CASE WriteFile \/ WriteFails
  <2>1. cli_stage = "write" /\ UNCHANGED <<input, command, infra>>
    BY <1>8 DEF WriteFile, WriteFails
  <2>2. command = "compile" /\ input \subseteq {"code"}
    BY <2>1 DEF CliInv, RuledOut
  <2>3. PICK code \in {0, 2} : /\ ExitWith(code)
                               /\ file' \in {"old", "torn", "ir"}
                               /\ file' = "torn" => code = 2
                               /\ file' = "ir" <=> code = 0
    <3>1. CASE WriteFile
      BY <3>1 DEF WriteFile
    <3>2. CASE WriteFails
      BY <3>2, ExitCodes DEF WriteFails
    <3>3. QED BY <1>8, <3>1, <3>2
  <2>4. Deserved(command, code)
    <3>1. input \cap Rejections = {}
      BY <2>2 DEF Rejections
    <3>2. code # 1
      BY <2>3
    <3>3. QED BY <2>2, <3>1, <3>2 DEF Deserved
  <2>5. code \in 0..3 /\ code # 3
    BY <2>3
  <2>6. QED BY <2>1, <2>2, <2>3, <2>4, <2>5, CommandEnds
<1>9. CASE CliFinished \/ UNCHANGED cli_vars
  <2>1. UNCHANGED cli_vars
    BY <1>9 DEF CliFinished
  <2>2. (input \cap RuledOut(cli_stage) = {})'
    BY <2>1 DEF CliInv, RuledOut, cli_vars
  <2>3. QED BY <2>1, <2>2 DEF CliInv, Deserved, cli_vars
<1>10. QED BY <1>1, <1>2, <1>3, <1>4, <1>5, <1>6, <1>7, <1>8, <1>9 DEF CliNext

(* Every code is deserved, whichever command ran first.                    *)
THEOREM CliInvariance == CliSpec => []CliInv
BY CliInitInv, CliStepInv, PTL DEF CliSpec

(* The types of the command line.                                          *)
THEOREM CliTypes == CliSpec => []CliTypeOK
<1>1. CliInv => CliTypeOK
  BY DEF CliInv, CliTypeOK
<1>2. QED BY <1>1, CliInvariance, PTL

(* What check says of an input and what compile does with it agree, and    *)
(* exit code 3 is the bridge's alone.                                      *)
THEOREM CommandsAlwaysAgree == CliSpec => []CommandsAgree
<1>1. CliInv => CommandsAgree
  <2> SUFFICES ASSUME CliInv PROVE CommandsAgree
    OBVIOUS
  <2>1. \A c \in DOMAIN result : result[c] = 3 <=> c \in infra
    BY DEF CliInv
  <2>2. ASSUME DOMAIN result = Commands
        PROVE  /\ result["check"] = 0 => result["compile"] # 1
               /\ result["check"] = 1 => result["compile"] # 0
    <3>1. "check" \in DOMAIN result /\ "compile" \in DOMAIN result
      BY <2>2 DEF Commands
    <3>2. /\ Deserved("check", result["check"])
          /\ Deserved("compile", result["compile"])
      BY <3>1 DEF CliInv
    <3>3. QED BY <3>2 DEF Deserved
  <2>3. QED BY <2>1, <2>2 DEF CommandsAgree
<1>2. QED BY <1>1, CliInvariance, PTL

(* The output of an earlier run survives every rejection.                  *)
THEOREM RejectedAlwaysLeavesFile == CliSpec => []RejectedLeavesFile
<1>1. CliInv => RejectedLeavesFile
  <2> SUFFICES ASSUME CliInv, "compile" \in DOMAIN result PROVE RejectedLeavesFile
    BY DEF RejectedLeavesFile
  <2>1. /\ file \in {"old", "torn", "ir"}
        /\ file = "torn" => result["compile"] = 2 /\ input \subseteq {"code"}
        /\ file = "ir" <=> result["compile"] = 0
    BY DEF CliInv
  <2>2. result["compile"] \in {1, 3} => file = "old"
    BY <2>1
  <2>3. QED BY <2>1, <2>2 DEF RejectedLeavesFile
<1>2. QED BY <1>1, CliInvariance, PTL

-----------------------------------------------------------------------------
(***************************************************************************)
(* Manifest.  Of the credentials of m nodes and o of the next one every    *)
(* type is listed, once, with its first credential.                        *)
(***************************************************************************)
EachTypeListed(list, m, o) ==
  \A i \in DOMAIN nodes : \A j \in DOMAIN nodes[i].credentials :
    (i <= m \/ (i = m + 1 /\ j <= o)) =>
      \E k \in DOMAIN list : list[k].type = nodes[i].credentials[j].type

OncePerType(list) ==
  \A k, l \in DOMAIN list : list[k].type = list[l].type => k = l

(* No node before the one that gives it has the type.                      *)
GivenFirst(c) ==
  \E i \in DOMAIN nodes :
    /\ Contains(nodes[i].credentials, c)
    /\ \A h \in 1..i - 1 : \A d \in ToSet(nodes[h].credentials) : d.type # c.type

CredentialsInv(list, m, o) ==
  /\ list \in Seq(UsedCredentials)
  /\ EachTypeListed(list, m, o)
  /\ OncePerType(list)
  /\ \A k \in DOMAIN list : GivenFirst(list[k])

StatusOf(r) ==
  IF ~ Listed(r) THEN "not_required"
  ELSE IF r = "webhook" THEN "declared" ELSE "lazy_deferred"

ManifestInv ==
  /\ nodes \in NodeLists
  /\ at \in 0..Len(nodes)
  /\ of_node \in Nat
  /\ of_node # 0 => /\ manifest_pc = "credentials"
                    /\ at < Len(nodes)
                    /\ of_node <= Len(nodes[at + 1].credentials)
  /\ manifest_pc \in {"resources", "credentials", "bind", "done"}
  /\ manifest_pc \in {"bind", "done"} => at = Len(nodes)
  /\ \A w \in webhooks : w[1] # NoName
  /\ CredentialsInv(credentials, IF manifest_pc = "resources" THEN 0 ELSE at, of_node)
  /\ \A r \in Resources : bind_status[r] \in {"lazy_deferred", "declared", "not_required"}
  /\ manifest_pc = "done" => \A r \in Resources : bind_status[r] = StatusOf(r)

(* Nodes, and the credentials of each, are sequences.                      *)
LEMMA NodeSequences ==
  ASSUME nodes \in NodeLists
  PROVE  /\ Len(nodes) \in Nat /\ DOMAIN nodes = 1..Len(nodes)
         /\ \A i \in 1..Len(nodes) :
              /\ nodes[i] \in Used
              /\ Len(nodes[i].credentials) \in Nat
              /\ DOMAIN nodes[i].credentials = 1..Len(nodes[i].credentials)
<1>1. nodes \in Seq(ToSet(nodes))
  BY ManifestAssumption
<1>2. Len(nodes) \in Nat /\ DOMAIN nodes = 1..Len(nodes)
  BY <1>1
<1>3. ASSUME NEW i \in 1..Len(nodes)
      PROVE  /\ nodes[i] \in Used
             /\ Len(nodes[i].credentials) \in Nat
             /\ DOMAIN nodes[i].credentials = 1..Len(nodes[i].credentials)
  <2>1. nodes[i] \in ToSet(nodes)
    BY <1>2 DEF ToSet
  <2>2. nodes[i].credentials \in Seq(ToSet(nodes[i].credentials))
    BY <2>1, ManifestAssumption
  <2>3. QED BY <2>1, <2>2 DEF Used
<1>4. QED BY <1>2, <1>3

(* The inner loop: one credential more.                                    *)
LEMMA CredentialListed ==
  ASSUME nodes \in NodeLists, NEW list, NEW m \in Nat, NEW o \in Nat,
         m < Len(nodes), o < Len(nodes[m + 1].credentials),
         CredentialsInv(list, m, o)
  PROVE  CredentialsInv(FirstOfType(list, nodes[m + 1].credentials[o + 1]), m, o + 1)
<1> DEFINE cs == nodes[m + 1].credentials
           c == cs[o + 1]
           new == FirstOfType(list, c)
<1>1. /\ Len(nodes) \in Nat /\ DOMAIN nodes = 1..Len(nodes)
      /\ m + 1 \in 1..Len(nodes) /\ nodes[m + 1] \in Used
      /\ Len(cs) \in Nat /\ DOMAIN cs = 1..Len(cs) /\ o + 1 \in DOMAIN cs
  BY NodeSequences
<1>2. c \in UsedCredentials /\ Contains(cs, c)
  BY <1>1 DEF UsedCredentials, ToSet, Contains
<1>3. list \in Seq(UsedCredentials) /\ DOMAIN list = 1..Len(list) /\ Len(list) \in Nat
  BY DEF CredentialsInv
<1>4. \A i \in DOMAIN nodes : \A j \in DOMAIN nodes[i].credentials :
        (i <= m \/ (i = m + 1 /\ j <= o + 1)) =>
          (i <= m \/ (i = m + 1 /\ j <= o)) \/ (i = m + 1 /\ j = o + 1)
  <2>1. \A j \in DOMAIN cs : j <= o + 1 => j <= o \/ j = o + 1
    BY <1>1
  <2>2. QED BY <2>1
<1>5. CASE \E k \in DOMAIN list : list[k].type = c.type
  <2>1. new = list
    BY <1>5 DEF FirstOfType, ToSet
  <2>2. EachTypeListed(list, m, o + 1)
    <3> SUFFICES ASSUME NEW i \in DOMAIN nodes, NEW j \in DOMAIN nodes[i].credentials,
                        i <= m \/ (i = m + 1 /\ j <= o + 1)
                 PROVE  \E k \in DOMAIN list : list[k].type = nodes[i].credentials[j].type
      BY DEF EachTypeListed
    <3>1. CASE i <= m \/ (i = m + 1 /\ j <= o)
      BY <3>1 DEF CredentialsInv, EachTypeListed
    <3>2. CASE i = m + 1 /\ j = o + 1
      BY <1>5, <3>2
    <3>3. QED BY <1>4, <3>1, <3>2
  <2>3. CredentialsInv(list, m, o + 1)
    BY <2>2 DEF CredentialsInv
  <2>4. QED BY <2>1, <2>3
<1>6. CASE ~ \E k \in DOMAIN list : list[k].type = c.type
  <2>1. new = Append(list, c)
    BY <1>6 DEF FirstOfType, ToSet
  <2> HIDE DEF new, c
  <2>2. /\ new \in Seq(UsedCredentials)
        /\ DOMAIN new = 1..(Len(list) + 1)
        /\ new[Len(list) + 1] = c
        /\ \A k \in 1..Len(list) : new[k] = list[k]
    BY <1>2, <1>3, <2>1
  <2>3. /\ \A k \in DOMAIN list : k \in DOMAIN new /\ new[k] = list[k]
        /\ \A k \in DOMAIN new : k \in DOMAIN list \/ k = Len(list) + 1
        /\ Len(list) + 1 \in DOMAIN new
    BY <1>3, <2>2
  <2>4. EachTypeListed(new, m, o + 1)
    <3> SUFFICES ASSUME NEW i \in DOMAIN nodes, NEW j \in DOMAIN nodes[i].credentials,
                        i <= m \/ (i = m + 1 /\ j <= o + 1)
                 PROVE  \E k \in DOMAIN new : new[k].type = nodes[i].credentials[j].type
      BY DEF EachTypeListed
    <3>1. CASE i <= m \/ (i = m + 1 /\ j <= o)
      <4>1. PICK k \in DOMAIN list : list[k].type = nodes[i].credentials[j].type
        BY <3>1 DEF CredentialsInv, EachTypeListed
      <4>2. QED BY <2>3, <4>1
    <3>2. CASE i = m + 1 /\ j = o + 1
      <4>1. nodes[i].credentials[j] = c
        BY <3>2 DEF c
      <4>2. QED BY <2>2, <2>3, <4>1
    <3>3. QED BY <1>4, <3>1, <3>2
  <2>5. OncePerType(new)
    <3>1. OncePerType(list)
      BY DEF CredentialsInv
    <3>2. \A k \in DOMAIN list : new[k].type # new[Len(list) + 1].type
      BY <1>6, <2>2, <2>3
    <3>3. QED BY <2>3, <3>1, <3>2 DEF OncePerType
  <2>6. GivenFirst(c)
    <3>1. \A h \in 1..m : h \in DOMAIN nodes
      BY <1>1
    <3>2. ASSUME NEW h \in 1..m, NEW d \in ToSet(nodes[h].credentials)
          PROVE  d.type # c.type
      <4>1. PICK j \in DOMAIN nodes[h].credentials : d = nodes[h].credentials[j]
        BY <3>2 DEF ToSet
      <4>2. h \in DOMAIN nodes /\ h <= m
        BY <3>1
      <4>3. PICK k \in DOMAIN list : list[k].type = d.type
        BY <4>1, <4>2 DEF CredentialsInv, EachTypeListed
      <4>4. QED BY <1>6, <4>3
    <3>3. m + 1 \in DOMAIN nodes /\ (m + 1) - 1 = m
      BY <1>1
    <3>4. Contains(nodes[m + 1].credentials, c)
      BY <1>2
    <3>5. QED BY <3>2, <3>3, <3>4 DEF GivenFirst
  <2>7. \A k \in DOMAIN new : GivenFirst(new[k])
    <3>1. \A k \in DOMAIN list : GivenFirst(list[k])
      BY DEF CredentialsInv
    <3>2. QED BY <2>2, <2>3, <2>6, <3>1
  <2>8. CredentialsInv(new, m, o + 1)
    BY <2>2, <2>4, <2>5, <2>7 DEF CredentialsInv
  <2>9. QED BY <2>8 DEF new, c
<1>7. QED BY <1>5, <1>6

(* The outer loop: the credentials of a node are through.                  *)
LEMMA NodeThrough ==
  ASSUME nodes \in NodeLists, NEW list, NEW m \in Nat,
         m < Len(nodes),
         CredentialsInv(list, m, Len(nodes[m + 1].credentials))
  PROVE  CredentialsInv(list, m + 1, 0)
<1>1. ASSUME NEW i \in DOMAIN nodes, NEW j \in DOMAIN nodes[i].credentials,
             i <= m + 1 \/ (i = m + 1 + 1 /\ j <= 0)
      PROVE  i <= m \/ (i = m + 1 /\ j <= Len(nodes[m + 1].credentials))
  <2>1. i \in 1..Len(nodes) /\ Len(nodes) \in Nat
    BY NodeSequences
  <2>2. j \in 1..Len(nodes[i].credentials) /\ Len(nodes[i].credentials) \in Nat
    BY <2>1, NodeSequences
  <2>3. QED BY <1>1, <2>1, <2>2
<1>2. EachTypeListed(list, m + 1, 0)
  BY <1>1 DEF CredentialsInv, EachTypeListed
<1>3. QED BY <1>2 DEF CredentialsInv

LEMMA ManifestInitInv == ManifestInit => ManifestInv
<1> SUFFICES ASSUME ManifestInit PROVE ManifestInv
  OBVIOUS
<1>1. /\ nodes \in NodeLists /\ at = 0 /\ of_node = 0 /\ manifest_pc = "resources"
      /\ models = {} /\ vector_stores = {} /\ tools = {} /\ webhooks = {}
      /\ credentials = <<>>
      /\ \A r \in Resources : bind_status[r] \in {"lazy_deferred", "declared", "not_required"}
  BY DEF ManifestInit
<1>2. Len(nodes) \in Nat
  BY <1>1, NodeSequences
<1>3. CredentialsInv(credentials, 0, 0)
  <2>1. DOMAIN credentials = {} /\ credentials \in Seq(UsedCredentials)
    BY <1>1
  <2>2. ASSUME NEW i \in DOMAIN nodes, NEW j \in DOMAIN nodes[i].credentials
        PROVE  ~ (i <= 0 \/ (i = 0 + 1 /\ j <= 0))
    <3>1. i \in 1..Len(nodes) /\ j \in 1..Len(nodes[i].credentials)
          /\ Len(nodes[i].credentials) \in Nat
      BY <1>1, NodeSequences
    <3>2. QED BY <1>2, <3>1
  <2>3. EachTypeListed(credentials, 0, 0)
    BY <2>2 DEF EachTypeListed
  <2>4. QED BY <2>1, <2>3 DEF CredentialsInv, OncePerType
<1>4. QED BY <1>1, <1>2, <1>3 DEF ManifestInv

(* The parts of the invariant that speak of the lists, with the same nodes. *)
LEMMA SameNodes ==
  ASSUME UNCHANGED nodes, NEW m, NEW o,
         CredentialsInv(credentials', m, o)
  PROVE  CredentialsInv(credentials, m, o)'
BY DEF CredentialsInv, EachTypeListed, OncePerType, GivenFirst, UsedCredentials, Used

LEMMA ManifestStepInv == ManifestInv /\ [ManifestNext]_manifest_vars => ManifestInv'
<1> SUFFICES ASSUME ManifestInv, [ManifestNext]_manifest_vars PROVE ManifestInv'
  OBVIOUS
<1>1. /\ nodes \in NodeLists /\ Len(nodes) \in Nat /\ at \in 0..Len(nodes)
      /\ of_node \in Nat
  BY NodeSequences DEF ManifestInv
<1>2. CASE Resource
  <2> DEFINE n == nodes[at + 1]
  <2>1. /\ manifest_pc = "resources" /\ at < Len(nodes) /\ at' = at + 1
        /\ UNCHANGED <<nodes, of_node, credentials, bind_status, manifest_pc>>
        /\ webhooks' = IF n.kind = "webhook" /\ n.name # NoName
                       THEN webhooks \cup {<<n.name, n.key>>} ELSE webhooks
    BY <1>2 DEF Resource
  <2>2. CredentialsInv(credentials, 0, 0) /\ of_node = 0
    BY <2>1 DEF ManifestInv
  <2>3. \A w \in webhooks' : w[1] # NoName
    BY <2>1 DEF ManifestInv
  <2>4. CredentialsInv(credentials, 0, 0)'
    BY <2>1, <2>2, SameNodes
  <2>5. QED BY <1>1, <2>1, <2>2, <2>3, <2>4 DEF ManifestInv
<1>3. CASE ResourcesDone
  <2>1. /\ manifest_pc = "resources" /\ at = Len(nodes) /\ at' = 0
        /\ manifest_pc' = "credentials"
        /\ UNCHANGED <<nodes, of_node, models, vector_stores, tools, webhooks, credentials,
                       bind_status>>
    BY <1>3 DEF ResourcesDone, found
  <2>2. CredentialsInv(credentials, 0, 0) /\ of_node = 0
    BY <2>1 DEF ManifestInv
  <2>3. \A w \in webhooks' : w[1] # NoName
    BY <2>1 DEF ManifestInv
  <2>4. CredentialsInv(credentials, 0, 0)'
    BY <2>1, <2>2, SameNodes
  <2>5. QED BY <1>1, <2>1, <2>2, <2>3, <2>4 DEF ManifestInv
<1>4. CASE Credential
  <2>1. /\ manifest_pc = "credentials" /\ at < Len(nodes)
        /\ of_node < Len(nodes[at + 1].credentials) /\ of_node' = of_node + 1
        /\ credentials' = FirstOfType(credentials, nodes[at + 1].credentials[of_node + 1])
        /\ UNCHANGED <<nodes, at, models, vector_stores, tools, webhooks, bind_status,
                       manifest_pc>>
    BY <1>4 DEF Credential, found
  <2>2. CredentialsInv(credentials, at, of_node)
    BY <2>1 DEF ManifestInv
  <2>3. \A w \in webhooks' : w[1] # NoName
    BY <2>1 DEF ManifestInv
  <2>4. CredentialsInv(credentials', at, of_node + 1)
    BY <1>1, <2>1, <2>2, CredentialListed
  <2>5. CredentialsInv(credentials, at, of_node)'
    BY <2>1, <2>4 DEF CredentialsInv, EachTypeListed, OncePerType, GivenFirst,
       UsedCredentials, Used
  <2>6. of_node' \in Nat /\ of_node' <= Len(nodes[at + 1].credentials)
    <3>1. Len(nodes[at + 1].credentials) \in Nat
      BY <1>1, <2>1, NodeSequences
    <3>2. QED BY <1>1, <2>1, <3>1
  <2>7. QED BY <1>1, <2>1, <2>3, <2>5, <2>6 DEF ManifestInv
<1>5. CASE NextNode
  <2>1. /\ manifest_pc = "credentials" /\ at < Len(nodes)
        /\ of_node = Len(nodes[at + 1].credentials)
        /\ at' = at + 1 /\ of_node' = 0
        /\ UNCHANGED <<nodes, models, vector_stores, tools, webhooks, credentials, bind_status,
                       manifest_pc>>
    BY <1>5 DEF NextNode, found
  <2>2. CredentialsInv(credentials, at, of_node)
    BY <2>1 DEF ManifestInv
  <2>3. \A w \in webhooks' : w[1] # NoName
    BY <2>1 DEF ManifestInv
  <2>4. CredentialsInv(credentials, at + 1, 0)
    BY <1>1, <2>1, <2>2, NodeThrough
  <2>5. CredentialsInv(credentials, at, of_node)'
    BY <2>1, <2>4 DEF CredentialsInv, EachTypeListed, OncePerType, GivenFirst,
       UsedCredentials, Used
  <2>6. QED BY <1>1, <2>1, <2>3, <2>5 DEF ManifestInv
<1>6. CASE CredentialsDone
  <2>1. /\ manifest_pc = "credentials" /\ at = Len(nodes) /\ manifest_pc' = "bind"
        /\ UNCHANGED <<nodes, at, of_node, models, vector_stores, tools, webhooks,
                       credentials, bind_status>>
    BY <1>6 DEF CredentialsDone, found
  <2>2. /\ CredentialsInv(credentials, at, of_node)
        /\ of_node = 0
    BY <1>1, <2>1 DEF ManifestInv
  <2>3. \A w \in webhooks' : w[1] # NoName
    BY <2>1 DEF ManifestInv
  <2>4. CredentialsInv(credentials, at, of_node)'
    BY <2>1, <2>2, SameNodes
  <2>5. QED BY <1>1, <2>1, <2>2, <2>3, <2>4 DEF ManifestInv
<1>7. CASE Bind
  <2>1. /\ manifest_pc = "bind" /\ manifest_pc' = "done"
        /\ bind_status' = [r \in Resources |-> StatusOf(r)]
        /\ UNCHANGED <<nodes, at, of_node, models, vector_stores, tools, webhooks,
                       credentials>>
    BY <1>7 DEF Bind, found, StatusOf
  <2>2. /\ CredentialsInv(credentials, at, of_node)
        /\ at = Len(nodes) /\ of_node = 0
    BY <2>1 DEF ManifestInv
  <2>3. \A w \in webhooks' : w[1] # NoName
    BY <2>1 DEF ManifestInv
  <2>4. CredentialsInv(credentials, at, of_node)'
    BY <2>1, <2>2, SameNodes
  <2>5. \A r \in Resources :
          /\ bind_status'[r] = StatusOf(r)
          /\ StatusOf(r) \in {"lazy_deferred", "declared", "not_required"}
    BY <2>1 DEF StatusOf
  <2>6. \A r \in Resources : StatusOf(r)' = StatusOf(r)
    BY <2>1 DEF StatusOf, Listed
  <2>7. QED BY <1>1, <2>1, <2>2, <2>3, <2>4, <2>5, <2>6 DEF ManifestInv
<1>8. CASE ManifestFinished \/ UNCHANGED manifest_vars
  <2>1. UNCHANGED <<nodes, at, of_node, models, vector_stores, tools, webhooks,
                    credentials, bind_status, manifest_pc>>
    BY <1>8 DEF ManifestFinished, manifest_vars, found
  <2>2. \A r \in Resources : StatusOf(r)' = StatusOf(r)
    BY <2>1 DEF StatusOf, Listed
  <2>3. \A w \in webhooks' : w[1] # NoName
    BY <2>1 DEF ManifestInv
  <2>4. CredentialsInv(credentials, IF manifest_pc = "resources" THEN 0 ELSE at, of_node)'
    BY <2>1 DEF ManifestInv, CredentialsInv, EachTypeListed, OncePerType, GivenFirst,
       UsedCredentials, Used
  <2>5. QED BY <2>1, <2>2, <2>3, <2>4 DEF ManifestInv
<1>9. QED BY <1>2, <1>3, <1>4, <1>5, <1>6, <1>7, <1>8 DEF ManifestNext

(* What was collected is right at every step, for any number of nodes.     *)
THEOREM ManifestInvariance == ManifestSpec => []ManifestInv
BY ManifestInitInv, ManifestStepInv, PTL DEF ManifestSpec

(* The types of the manifest.                                              *)
THEOREM ManifestTypes == ManifestSpec => []ManifestTypeOK
<1>1. ManifestInv => ManifestTypeOK
  <2> SUFFICES ASSUME ManifestInv PROVE ManifestTypeOK
    OBVIOUS
  <2>1. /\ nodes \in NodeLists /\ Len(nodes) \in Nat /\ at \in 0..Len(nodes)
    BY NodeSequences DEF ManifestInv
  <2>2. of_node # 0 => of_node \in 1..Len(nodes[at + 1].credentials)
    <3> SUFFICES ASSUME of_node # 0
                 PROVE  of_node \in 1..Len(nodes[at + 1].credentials)
      OBVIOUS
    <3>1. at + 1 \in 1..Len(nodes)
      BY <2>1 DEF ManifestInv
    <3>2. Len(nodes[at + 1].credentials) \in Nat
      BY <2>1, <3>1, NodeSequences
    <3>3. of_node \in Nat /\ of_node <= Len(nodes[at + 1].credentials)
      BY DEF ManifestInv
    <3>4. QED BY <3>2, <3>3
  <2>3. \A w \in webhooks : w[1] # NoName
    BY DEF ManifestInv
  <2>4. ToSet(credentials) \subseteq UsedCredentials
    <3>1. credentials \in Seq(UsedCredentials)
      BY DEF ManifestInv, CredentialsInv
    <3>2. QED BY <3>1 DEF ToSet
  <2>5. QED BY <2>1, <2>2, <2>3, <2>4 DEF ManifestInv, ManifestTypeOK
<1>2. QED BY <1>1, ManifestInvariance, PTL

(* Each type of credential is listed once, as the first node that uses it  *)
(* gives it: for any number of nodes, with any credentials.                *)
THEOREM TypesAreListedOnce == ManifestSpec => []TypesListedOnce
<1>1. ManifestInv => TypesListedOnce
  <2> SUFFICES ASSUME ManifestInv, manifest_pc = "done" PROVE TypesListedOnce
    BY DEF TypesListedOnce
  <2>1. /\ nodes \in NodeLists /\ Len(nodes) \in Nat /\ DOMAIN nodes = 1..Len(nodes)
        /\ at = Len(nodes)
    BY NodeSequences DEF ManifestInv
  <2>2. CredentialsInv(credentials, Len(nodes), of_node)
    BY <2>1 DEF ManifestInv
  <2>3. \A n : n \in Used <=> \E k \in 1..Len(nodes) : n = nodes[k]
    BY <2>1 DEF Used, ToSet
  <2>4. ASSUME NEW c \in UsedCredentials
        PROVE  \E k \in DOMAIN credentials : credentials[k].type = c.type
    <3>1. PICK n \in Used : c \in ToSet(n.credentials)
      BY DEF UsedCredentials
    <3>2. PICK i \in 1..Len(nodes) : n = nodes[i]
      BY <2>3
    <3>3. PICK j \in DOMAIN nodes[i].credentials : c = nodes[i].credentials[j]
      BY <3>1, <3>2 DEF ToSet
    <3>4. i \in DOMAIN nodes /\ i <= Len(nodes)
      BY <2>1
    <3>5. QED BY <2>2, <3>3, <3>4 DEF CredentialsInv, EachTypeListed
  <2>5. credentials \in Seq(UsedCredentials) /\ OncePerType(credentials)
    BY <2>2 DEF CredentialsInv
  <2>6. ASSUME NEW c \in UsedCredentials
        PROVE  Cardinality({k \in DOMAIN credentials : credentials[k].type = c.type}) = 1
    <3>1. PICK k \in DOMAIN credentials : credentials[k].type = c.type
      BY <2>4
    <3>2. {l \in DOMAIN credentials : credentials[l].type = c.type} = {k}
      BY <2>5, <3>1 DEF OncePerType
    <3>3. QED BY <3>2, FS_Singleton
  <2>7. ASSUME NEW c \in ToSet(credentials)
        PROVE  \E k \in DOMAIN nodes :
                 /\ Contains(nodes[k].credentials, c)
                 /\ \A j \in 1..k - 1 :
                      \A d \in ToSet(nodes[j].credentials) : d.type # c.type
    <3>1. PICK k \in DOMAIN credentials : c = credentials[k]
      BY DEF ToSet
    <3>2. GivenFirst(c)
      BY <2>2, <3>1 DEF CredentialsInv
    <3>3. QED BY <3>2 DEF GivenFirst
  <2>8. QED BY <2>6, <2>7 DEF TypesListedOnce
<1>2. QED BY <1>1, ManifestInvariance, PTL

-----------------------------------------------------------------------------
(***************************************************************************)
(* Decompile.  Entries, and what a port of one holds.                      *)
(***************************************************************************)
PortLists(N) == Seq(Seq(Edges(N)))
IsEntries(N, es) == es \in Seq(EntryRecords(N)) /\ Distinct(es)

Held(ports, p) == IF p \in DOMAIN ports THEN ports[p] ELSE <<>>

LEMMA EntryIsRecord ==
  ASSUME NEW N, NEW es, IsEntries(N, es)
  PROVE  /\ Len(es) \in Nat /\ DOMAIN es = 1..Len(es) /\ es \in Seq(EntryRecords(N)) /\ Distinct(es)
         /\ \A i \in DOMAIN es :
              /\ es[i] \in EntryRecords(N)
              /\ es[i].from \in N /\ es[i].type \in ConnTypes /\ es[i].ports \in PortLists(N)
<1>1. es \in Seq(EntryRecords(N)) /\ Distinct(es)
  BY DEF IsEntries
<1>2. Len(es) \in Nat /\ DOMAIN es = 1..Len(es) /\ \A i \in DOMAIN es : es[i] \in EntryRecords(N)
  BY <1>1
<1>3. \A e \in EntryRecords(N) : e.from \in N /\ e.type \in ConnTypes /\ e.ports \in PortLists(N)
  BY DEF EntryRecords, PortLists
<1>4. QED BY <1>1, <1>2, <1>3

(* The entry of a source and type is the one that is looked up.            *)
LEMMA TargetsOfEntry ==
  ASSUME NEW N, NEW es, IsEntries(N, es), NEW i \in DOMAIN es, NEW p
  PROVE  TargetsIn(es, es[i].from, es[i].type, p) = Held(es[i].ports, p)
<1> DEFINE hit == {j \in DOMAIN es : es[j].from = es[i].from /\ es[j].type = es[i].type}
<1>1. hit = {i}
  BY DEF IsEntries, Distinct
<1>2. (CHOOSE j \in hit : TRUE) = i
  BY <1>1
<1>3. QED BY <1>1, <1>2 DEF TargetsIn, Held

LEMMA TargetsOfNone ==
  ASSUME NEW N, NEW es, NEW f, NEW t, NEW p, \A i \in DOMAIN es : ~ (es[i].from = f /\ es[i].type = t)
  PROVE  TargetsIn(es, f, t, p) = <<>>
BY DEF TargetsIn

LEMMA HeldIsSequence ==
  ASSUME NEW N, NEW ports \in PortLists(N), NEW p
  PROVE  Held(ports, p) \in Seq(Edges(N))
BY DEF PortLists, Held

LEMMA TargetsAreSequences ==
  ASSUME NEW N, NEW es, IsEntries(N, es), NEW f, NEW t, NEW p
  PROVE  TargetsIn(es, f, t, p) \in Seq(Edges(N))
<1>1. CASE \E i \in DOMAIN es : es[i].from = f /\ es[i].type = t
  <2>1. PICK i \in DOMAIN es : es[i].from = f /\ es[i].type = t
    BY <1>1
  <2>2. TargetsIn(es, f, t, p) = Held(es[i].ports, p)
    BY <2>1, TargetsOfEntry
  <2>3. es[i].ports \in PortLists(N)
    BY <2>1, EntryIsRecord
  <2>4. QED BY <2>2, <2>3, HeldIsSequence
<1>2. CASE \A i \in DOMAIN es : ~ (es[i].from = f /\ es[i].type = t)
  <2>1. TargetsIn(es, f, t, p) = <<>>
    BY <1>2, TargetsOfNone
  <2>2. QED BY <2>1
<1>3. QED BY <1>1, <1>2

(* AddEdge appends to one port and pads with empty ones.                   *)
LEMMA AddEdgeHolds ==
  ASSUME NEW N, NEW ports \in PortLists(N), NEW c,
         port_index(c.from_port) \in Nat, [node |-> c.to_node, index |-> c.to_index] \in Edges(N)
  PROVE  /\ AddEdge(ports, c) \in PortLists(N)
         /\ \A p \in Nat :
              Held(AddEdge(ports, c), p) =
                IF p = port_index(c.from_port) + 1
                THEN Append(Held(ports, p), [node |-> c.to_node, index |-> c.to_index])
                ELSE Held(ports, p)
<1> DEFINE q == port_index(c.from_port) + 1
           edge == [node |-> c.to_node, index |-> c.to_index]
           n == IF q > Len(ports) THEN q ELSE Len(ports)
           padded == [i \in 1..n |-> IF i <= Len(ports) THEN ports[i] ELSE <<>>]
           added == [padded EXCEPT ![q] = Append(@, edge)]
<1>1. AddEdge(ports, c) = added
  BY DEF AddEdge
<1>2. q \in 1..n /\ n \in Nat /\ edge \in Edges(N)
  BY DEF PortLists
<1>3. ports \in Seq(Seq(Edges(N))) /\ DOMAIN ports = 1..Len(ports) /\ Len(ports) \in Nat /\ Len(ports) <= n
  BY <1>2 DEF PortLists
<1> HIDE DEF n, q, edge
<1>4. padded \in [1..n -> Seq(Edges(N))]
  BY <1>3
<1>5. padded \in Seq(Seq(Edges(N))) /\ Len(padded) = n
  BY <1>4, <1>2
<1>6. padded[q] \in Seq(Edges(N)) /\ padded[q] = Held(ports, q)
  BY <1>2, <1>3, <1>4 DEF Held
<1>7. Append(padded[q], edge) \in Seq(Edges(N))
  BY <1>6, <1>2
<1>8. added \in PortLists(N) /\ DOMAIN added = 1..n
  BY <1>4, <1>5, <1>7, <1>2 DEF PortLists
<1>9. ASSUME NEW p \in Nat
      PROVE  Held(added, p) = IF p = q THEN Append(Held(ports, p), edge) ELSE Held(ports, p)
  <2>1. CASE p = q
    BY <2>1, <1>8, <1>2, <1>6, <1>4 DEF Held
  <2>2. CASE p # q /\ p \in 1..n
    BY <2>2, <1>8, <1>4, <1>3 DEF Held
  <2>3. CASE p # q /\ p \notin 1..n
    BY <2>3, <1>8, <1>3, <1>2 DEF Held
  <2>4. QED BY <2>1, <2>2, <2>3
<1>10. QED BY <1>1, <1>8, <1>9 DEF q, edge

(* A set of indices that is not empty has a last member.                   *)
LEMMA LastOfSome ==
  ASSUME NEW n \in Nat, NEW same, same \subseteq 1..n, same # {}
  PROVE  \E i \in same : \A j \in same : j <= i
<1> DEFINE T == {m \in Nat : \E i \in same : m = n - i}
<1>1. T # {} /\ T \subseteq Nat
  <2>1. PICK i \in same : TRUE
    OBVIOUS
  <2>2. n - i \in T
    BY <2>1
  <2>3. QED BY <2>2
<1>2. IsWellFoundedOn(OpToRel(<, Nat), Nat)
  BY NatLessThanWellFounded
<1> HIDE DEF T
<1>3. PICK m \in T : \A y \in T : ~ (<<y, m>> \in OpToRel(<, Nat))
  BY <1>1, <1>2, WFMin
<1> USE DEF T
<1>4. PICK i \in same : m = n - i
  BY <1>3
<1>5. ASSUME NEW j \in same PROVE j <= i
  <2>1. n - j \in T
    BY <1>5
  <2>2. ~ (n - j < m)
    BY <1>3, <2>1, <1>1 DEF OpToRel
  <2>3. QED BY <2>2, <1>4
<1>6. QED BY <1>4, <1>5

(* Where Place puts a connection.                                          *)
SameSource(es, c) == {i \in DOMAIN es : es[i].from = c.from_node}
SameEntry(es, c) == {i \in SameSource(es, c) : es[i].type = c.conn_type}

LEMMA PlaceOfConnection ==
  ASSUME NEW N, NEW es, es = restored, IsEntries(N, es), NEW c
  PROVE  /\ SameEntry(es, c) # {} => Place(c).at \in SameEntry(es, c) /\ ~ Place(c).new
         /\ SameEntry(es, c) = {} => Place(c).at \in 1..Len(es) + 1 /\ Place(c).new
<1> DEFINE same == SameSource(es, c)
           hit == SameEntry(es, c)
           last == CHOOSE i \in same : \A j \in same : j <= i
<1>1. Place(c) = IF hit # {} THEN [at |-> CHOOSE i \in hit : TRUE, new |-> FALSE]
                 ELSE [at |-> IF same = {} THEN Len(es) + 1 ELSE 1 + last, new |-> TRUE]
  BY DEF Place, SameSource, SameEntry
<1>2. same \subseteq 1..Len(es) /\ Len(es) \in Nat
  BY EntryIsRecord DEF SameSource
<1> HIDE DEF same, hit
<1>3. ASSUME same # {}
      PROVE  last \in same
  <2>1. \E i \in same : \A j \in same : j <= i
    BY <1>2, <1>3, LastOfSome
  <2>2. QED BY <2>1
<1> HIDE DEF last
<1>4. ASSUME hit # {} PROVE Place(c).at \in hit /\ ~ Place(c).new
  BY <1>1, <1>4
<1>5. ASSUME hit = {} PROVE Place(c).at \in 1..Len(es) + 1 /\ Place(c).new
  <2>1. Place(c) = [at |-> IF same = {} THEN Len(es) + 1 ELSE 1 + last, new |-> TRUE]
    BY <1>1, <1>5
  <2>2. Place(c).at = (IF same = {} THEN Len(es) + 1 ELSE 1 + last) /\ Place(c).new
    BY <2>1
  <2>3. (IF same = {} THEN Len(es) + 1 ELSE 1 + last) \in 1..Len(es) + 1
    <3>1. CASE same = {}
      <4>1. Len(es) + 1 \in 1..Len(es) + 1
        BY <1>2
      <4>2. QED BY <3>1, <4>1, Zenon
    <3>2. CASE same # {}
      <4>1. last \in 1..Len(es)
        BY <1>2, <1>3, <3>2
      <4>2. 1 + last \in 1..Len(es) + 1
        BY <4>1, <1>2
      <4>3. QED BY <3>2, <4>2, Zenon
    <3>3. QED BY <3>1, <3>2
  <2>4. QED BY <2>2, <2>3, Zenon
<1>6. QED BY <1>4, <1>5 DEF hit

(* InsertAt, entry by entry.                                               *)
LEMMA Inserted ==
  ASSUME NEW S, NEW s \in Seq(S), NEW e \in S, NEW q \in 1..Len(s) + 1
  PROVE  LET new == InsertAt(s, q, e)
         IN  /\ new \in Seq(S) /\ Len(new) = Len(s) + 1 /\ DOMAIN new = 1..Len(s) + 1
             /\ \A i \in 1..Len(s) + 1 :
                  new[i] = IF i < q THEN s[i] ELSE IF i = q THEN e ELSE s[i - 1]
<1> DEFINE one == SubSeq(s, 1, q - 1)
           two == SubSeq(s, q, Len(s))
           new == InsertAt(s, q, e)
<1>1. Len(s) \in Nat /\ DOMAIN s = 1..Len(s) /\ \A i \in 1..Len(s) : s[i] \in S
  BY LenProperties, ElementOfSeq
<1>2. /\ one \in Seq(S) /\ Len(one) = q - 1
      /\ \A i \in 1..q - 1 : one[i] = s[i]
  <2>1. 1 \in Int /\ q - 1 \in Int /\ \A i \in 1..q - 1 : s[i] \in S
    BY <1>1
  <2>2. /\ one \in Seq(S)
        /\ Len(one) = IF 1 <= q - 1 THEN (q - 1) - 1 + 1 ELSE 0
        /\ \A i \in 1..(q - 1) - 1 + 1 : one[i] = s[1 + i - 1]
    BY <2>1, SubSeqProperties
  <2> HIDE DEF one
  <2>3. QED BY <2>2
<1>3. /\ two \in Seq(S) /\ Len(two) = Len(s) - q + 1
      /\ \A i \in 1..Len(s) - q + 1 : two[i] = s[q + i - 1]
  <2>1. q \in Int /\ Len(s) \in Int /\ \A i \in q..Len(s) : s[i] \in S
    BY <1>1
  <2>2. /\ two \in Seq(S)
        /\ Len(two) = IF q <= Len(s) THEN Len(s) - q + 1 ELSE 0
        /\ \A i \in 1..Len(s) - q + 1 : two[i] = s[q + i - 1]
    BY <2>1, SubSeqProperties
  <2> HIDE DEF two
  <2>3. QED BY <2>2, <1>1
<1>4. new = (one \o <<e>>) \o two
  BY DEF InsertAt
<1> HIDE DEF one, two, new
<1>5. <<e>> \in Seq(S) /\ Len(<<e>>) = 1 /\ <<e>>[1] = e
  OBVIOUS
<1>6. /\ one \o <<e>> \in Seq(S) /\ Len(one \o <<e>>) = q
      /\ \A i \in 1..q : (one \o <<e>>)[i] = IF i < q THEN s[i] ELSE e
  <2>1. /\ one \o <<e>> \in Seq(S) /\ Len(one \o <<e>>) = Len(one) + Len(<<e>>)
        /\ \A i \in 1..Len(one) + Len(<<e>>) :
             (one \o <<e>>)[i] = IF i <= Len(one) THEN one[i] ELSE <<e>>[i - Len(one)]
    BY <1>2, <1>5, ConcatProperties
  <2>2. QED BY <2>1, <1>2, <1>5
<1> DEFINE both == one \o <<e>>
<1>7. /\ both \in Seq(S) /\ Len(both) = q
      /\ \A i \in 1..q : both[i] = IF i < q THEN s[i] ELSE e
      /\ new = both \o two
  BY <1>4, <1>6
<1> HIDE DEF both
<1>8. /\ new \in Seq(S) /\ Len(new) = Len(s) + 1
      /\ \A i \in 1..Len(s) + 1 : new[i] = IF i <= q THEN both[i] ELSE two[i - q]
  <2>1. /\ both \o two \in Seq(S)
        /\ Len(both \o two) = Len(both) + Len(two)
        /\ \A i \in 1..Len(both) + Len(two) :
             (both \o two)[i] = IF i <= Len(both) THEN both[i] ELSE two[i - Len(both)]
    BY <1>3, <1>7, ConcatProperties
  <2>2. Len(both) + Len(two) = Len(s) + 1
    BY <1>1, <1>3, <1>7
  <2>3. QED BY <2>1, <2>2, <1>7
<1>each. ASSUME NEW i \in 1..Len(s) + 1
      PROVE  new[i] = IF i < q THEN s[i] ELSE IF i = q THEN e ELSE s[i - 1]
  <2>1. CASE i <= q
    BY <2>1, <1>7, <1>8, <1>1
  <2>2. CASE i > q
    <3>1. i - q \in 1..Len(s) - q + 1 /\ q + (i - q) - 1 = i - 1
      BY <2>2, <1>1
    <3>2. two[i - q] = s[i - 1]
      BY <3>1, <1>3
    <3>3. QED BY <3>2, <2>2, <1>8, <1>1
  <2>3. QED BY <2>1, <2>2, <1>1
<1>9. DOMAIN new = 1..Len(s) + 1
  BY <1>8
<1>10. QED BY <1>8, <1>each, <1>9 DEF new

(* A new entry, wherever it is put, and one with other ports.              *)
LEMMA EntryAdded ==
  ASSUME NEW N, NEW es, IsEntries(N, es), NEW e \in EntryRecords(N), NEW q \in 1..Len(es) + 1,
         \A i \in DOMAIN es : ~ (es[i].from = e.from /\ es[i].type = e.type)
  PROVE  LET new == InsertAt(es, q, e)
         IN  /\ IsEntries(N, new)
             /\ \A f, t, p : TargetsIn(new, f, t, p) =
                  IF f = e.from /\ t = e.type THEN Held(e.ports, p) ELSE TargetsIn(es, f, t, p)
<1> DEFINE new == InsertAt(es, q, e)
<1>1. /\ Len(es) \in Nat /\ DOMAIN es = 1..Len(es) /\ es \in Seq(EntryRecords(N)) /\ Distinct(es)
  BY EntryIsRecord
<1>2. /\ new \in Seq(EntryRecords(N)) /\ Len(new) = Len(es) + 1 /\ DOMAIN new = 1..Len(es) + 1
      /\ \A i \in 1..Len(es) + 1 :
           new[i] = IF i < q THEN es[i] ELSE IF i = q THEN e ELSE es[i - 1]
  BY <1>1, Inserted
<1> HIDE DEF new
<1> DEFINE Old(i) == IF i < q THEN i ELSE i - 1
<1>3. \A i \in DOMAIN new : i # q => Old(i) \in DOMAIN es /\ new[i] = es[Old(i)]
  BY <1>1, <1>2
<1>4. new[q] = e
  BY <1>1, <1>2
<1>5. \A i, j \in DOMAIN new : i # q /\ j # q /\ Old(i) = Old(j) => i = j
  BY <1>1, <1>2
<1>6. \A i \in DOMAIN es : \E j \in DOMAIN new : j # q /\ Old(j) = i
  <2> SUFFICES ASSUME NEW i \in DOMAIN es PROVE \E j \in DOMAIN new : j # q /\ Old(j) = i
    OBVIOUS
  <2>1. CASE i < q
    BY <2>1, <1>1, <1>2
  <2>2. CASE i >= q
    <3>1. i + 1 \in DOMAIN new /\ i + 1 # q /\ Old(i + 1) = i
      BY <2>2, <1>1, <1>2
    <3>2. QED BY <3>1
  <2>3. QED BY <2>1, <2>2, <1>1
<1> HIDE DEF Old
<1>7. Distinct(new)
  <2> SUFFICES ASSUME NEW i \in DOMAIN new, NEW j \in DOMAIN new,
                      new[i].from = new[j].from, new[i].type = new[j].type
               PROVE  i = j
    BY DEF Distinct
  <2>1. CASE i # q /\ j # q
    <3>1. Old(i) = Old(j)
      BY <2>1, <1>3, <1>1 DEF Distinct
    <3>2. QED BY <3>1, <2>1, <1>5
  <2>2. CASE i = q /\ j # q
    BY <2>2, <1>3, <1>4
  <2>3. CASE i # q /\ j = q
    BY <2>3, <1>3, <1>4
  <2>4. QED BY <2>1, <2>2, <2>3
<1>8. IsEntries(N, new)
  BY <1>2, <1>7 DEF IsEntries
<1>9. ASSUME NEW f, NEW t, NEW p
      PROVE  TargetsIn(new, f, t, p) =
               IF f = e.from /\ t = e.type THEN Held(e.ports, p) ELSE TargetsIn(es, f, t, p)
  <2>1. CASE f = e.from /\ t = e.type
    <3>1. q \in DOMAIN new
      BY <1>1, <1>2
    <3>2. TargetsIn(new, new[q].from, new[q].type, p) = Held(new[q].ports, p)
      BY <3>1, <1>8, TargetsOfEntry
    <3>3. QED BY <2>1, <3>2, <1>4
  <2>2. CASE ~ (f = e.from /\ t = e.type) /\ \E i \in DOMAIN es : es[i].from = f /\ es[i].type = t
    <3>1. PICK i \in DOMAIN es : es[i].from = f /\ es[i].type = t
      BY <2>2
    <3>2. PICK j \in DOMAIN new : j # q /\ Old(j) = i
      BY <1>6
    <3>3. new[j] = es[i]
      BY <3>2, <1>3
    <3>4. TargetsIn(new, new[j].from, new[j].type, p) = Held(new[j].ports, p)
      BY <1>8, TargetsOfEntry
    <3>5. TargetsIn(es, es[i].from, es[i].type, p) = Held(es[i].ports, p)
      BY TargetsOfEntry
    <3>6. QED BY <2>2, <3>1, <3>3, <3>4, <3>5
  <2>3. CASE ~ (f = e.from /\ t = e.type) /\ \A i \in DOMAIN es : ~ (es[i].from = f /\ es[i].type = t)
    <3>1. \A j \in DOMAIN new : ~ (new[j].from = f /\ new[j].type = t)
      BY <2>3, <1>3, <1>4
    <3>2. TargetsIn(new, f, t, p) = <<>>
      BY <3>1, TargetsOfNone
    <3>3. TargetsIn(es, f, t, p) = <<>>
      BY <2>3, TargetsOfNone
    <3>4. QED BY <2>3, <3>2, <3>3
  <2>4. QED BY <2>1, <2>2, <2>3
<1>10. QED BY <1>8, <1>9 DEF new

Regrown(es, h, ports) == [es EXCEPT ![h].ports = ports]

LEMMA EntryGrown ==
  ASSUME NEW N, NEW es, IsEntries(N, es), NEW h \in DOMAIN es, NEW ports \in PortLists(N)
  PROVE  /\ IsEntries(N, Regrown(es, h, ports))
         /\ \A f, t, p : TargetsIn(Regrown(es, h, ports), f, t, p) =
              IF f = es[h].from /\ t = es[h].type THEN Held(ports, p) ELSE TargetsIn(es, f, t, p)
<1> DEFINE e == [es[h] EXCEPT !.ports = ports]
           new == Regrown(es, h, ports)
<1>1. /\ Len(es) \in Nat /\ DOMAIN es = 1..Len(es) /\ es \in Seq(EntryRecords(N)) /\ Distinct(es)
      /\ \A i \in DOMAIN es : es[i] \in EntryRecords(N)
  BY EntryIsRecord
<1>2. e \in EntryRecords(N) /\ e.from = es[h].from /\ e.type = es[h].type /\ e.ports = ports
  BY <1>1 DEF EntryRecords, PortLists
<1>3. new = [es EXCEPT ![h] = e]
  BY DEF Regrown
<1> HIDE DEF e, new
<1>4. /\ new \in Seq(EntryRecords(N)) /\ DOMAIN new = DOMAIN es
      /\ \A i \in DOMAIN es : new[i] = IF i = h THEN e ELSE es[i]
  BY <1>1, <1>2, <1>3
<1>5. \A i \in DOMAIN es : new[i].from = es[i].from /\ new[i].type = es[i].type
  BY <1>2, <1>4
<1>6. IsEntries(N, new)
  BY <1>1, <1>4, <1>5 DEF IsEntries, Distinct
<1>7. ASSUME NEW f, NEW t, NEW p
      PROVE  TargetsIn(new, f, t, p) =
               IF f = es[h].from /\ t = es[h].type THEN Held(ports, p) ELSE TargetsIn(es, f, t, p)
  <2>1. CASE \E i \in DOMAIN es : es[i].from = f /\ es[i].type = t
    <3>1. PICK i \in DOMAIN es : es[i].from = f /\ es[i].type = t
      BY <2>1
    <3>2. TargetsIn(new, new[i].from, new[i].type, p) = Held(new[i].ports, p)
      BY <1>4, <1>6, TargetsOfEntry
    <3>3. TargetsIn(es, es[i].from, es[i].type, p) = Held(es[i].ports, p)
      BY TargetsOfEntry
    <3>4. CASE i = h
      BY <3>1, <3>2, <3>4, <1>2, <1>4, <1>5
    <3>5. CASE i # h
      BY <3>1, <3>2, <3>3, <3>5, <1>1, <1>4, <1>5 DEF Distinct
    <3>6. QED BY <3>4, <3>5
  <2>2. CASE \A i \in DOMAIN es : ~ (es[i].from = f /\ es[i].type = t)
    <3>1. \A i \in DOMAIN new : ~ (new[i].from = f /\ new[i].type = t)
      BY <2>2, <1>4, <1>5
    <3>2. TargetsIn(new, f, t, p) = <<>>
      BY <3>1, TargetsOfNone
    <3>3. TargetsIn(es, f, t, p) = <<>>
      BY <2>2, TargetsOfNone
    <3>4. QED BY <2>2, <3>2, <3>3
  <2>3. QED BY <2>1, <2>2
<1>8. QED BY <1>6, <1>7 DEF new

(***************************************************************************)
(* What one turn of decompile_to_workflow does to the entries: the edge    *)
(* joins the end of its own list, and no other list changes.               *)
(***************************************************************************)
WithEdge(c) ==
  IF Place(c).new
  THEN InsertAt(restored, Place(c).at,
         [from |-> c.from_node, type |-> c.conn_type, ports |-> AddEdge(<<>>, c)])
  ELSE [restored EXCEPT ![Place(c).at].ports = AddEdge(@, c)]

EdgeOf(c) == [node |-> c.to_node, index |-> c.to_index]
PortOf(c) == port_index(c.from_port) + 1

LEMMA EdgeJoins ==
  ASSUME NEW N, IsEntries(N, restored), NEW c,
         c.from_node \in N, c.conn_type \in ConnTypes,
         port_index(c.from_port) \in Nat, EdgeOf(c) \in Edges(N)
  PROVE  /\ IsEntries(N, WithEdge(c))
         /\ \A f, t : \A p \in Nat :
              TargetsIn(WithEdge(c), f, t, p) =
                IF f = c.from_node /\ t = c.conn_type /\ p = PortOf(c)
                THEN Append(TargetsIn(restored, f, t, p), EdgeOf(c))
                ELSE TargetsIn(restored, f, t, p)
<1> DEFINE es == restored
           spot == Place(c).at
           hit == SameEntry(es, c)
<1>0. /\ Len(es) \in Nat /\ DOMAIN es = 1..Len(es)
      /\ \A i \in DOMAIN es : es[i].ports \in PortLists(N)
  BY EntryIsRecord
<1>1. /\ hit # {} => spot \in hit /\ ~ Place(c).new
      /\ hit = {} => spot \in 1..Len(es) + 1 /\ Place(c).new
  BY PlaceOfConnection
<1>2. CASE hit = {}
  <2> DEFINE ports == AddEdge(<<>>, c)
             e == [from |-> c.from_node, type |-> c.conn_type, ports |-> ports]
  <2>1. <<>> \in PortLists(N) /\ \A p : Held(<<>>, p) = <<>>
    BY DEF PortLists, Held
  <2>2. /\ ports \in PortLists(N)
        /\ \A p \in Nat : Held(ports, p) = IF p = PortOf(c) THEN Append(<<>>, EdgeOf(c)) ELSE <<>>
    <3>1. /\ ports \in PortLists(N)
          /\ \A p \in Nat : Held(ports, p) = IF p = port_index(c.from_port) + 1
               THEN Append(Held(<<>>, p), [node |-> c.to_node, index |-> c.to_index]) ELSE Held(<<>>, p)
      BY <2>1, AddEdgeHolds DEF EdgeOf
    <3>2. QED BY <3>1, <2>1 DEF PortOf, EdgeOf
  <2> HIDE DEF ports
  <2>3. e \in EntryRecords(N) /\ e.from = c.from_node /\ e.type = c.conn_type /\ e.ports = ports
    BY <2>2 DEF EntryRecords, PortLists
  <2>4. \A i \in DOMAIN es : ~ (es[i].from = e.from /\ es[i].type = e.type)
    BY <1>2, <2>3 DEF SameEntry, SameSource
  <2>5. WithEdge(c) = InsertAt(es, spot, e) /\ spot \in 1..Len(es) + 1
    BY <1>1, <1>2 DEF WithEdge, ports
  <2> HIDE DEF e, es, spot
  <2>6. IsEntries(N, es)
    BY DEF es
  <2>7. /\ IsEntries(N, InsertAt(es, spot, e))
        /\ \A f, t, p : TargetsIn(InsertAt(es, spot, e), f, t, p) =
             IF f = e.from /\ t = e.type THEN Held(e.ports, p) ELSE TargetsIn(es, f, t, p)
    BY <2>3, <2>4, <2>5, <2>6, EntryAdded
  <2>8. ASSUME NEW f, NEW t, NEW p, f = c.from_node /\ t = c.conn_type
        PROVE  TargetsIn(es, f, t, p) = <<>>
    BY <2>4, <2>3, <2>8, TargetsOfNone
  <2>9. ASSUME NEW f, NEW t, NEW p \in Nat
        PROVE  TargetsIn(WithEdge(c), f, t, p) =
                 IF f = c.from_node /\ t = c.conn_type /\ p = PortOf(c)
                 THEN Append(TargetsIn(es, f, t, p), EdgeOf(c)) ELSE TargetsIn(es, f, t, p)
    <3>1. TargetsIn(WithEdge(c), f, t, p) =
            IF f = c.from_node /\ t = c.conn_type THEN Held(ports, p) ELSE TargetsIn(es, f, t, p)
      BY <2>3, <2>5, <2>7
    <3>2. f = c.from_node /\ t = c.conn_type => TargetsIn(es, f, t, p) = <<>>
      BY <2>8
    <3>3. Held(ports, p) = IF p = PortOf(c) THEN Append(<<>>, EdgeOf(c)) ELSE <<>>
      BY <2>2
    <3>4. QED BY <3>1, <3>2, <3>3
  <2>10. QED BY <2>5, <2>7, <2>9 DEF es
<1>3. CASE hit # {}
  <2>1. spot \in DOMAIN es /\ es[spot].from = c.from_node /\ es[spot].type = c.conn_type
    BY <1>1, <1>3 DEF SameEntry, SameSource
  <2> DEFINE ports == AddEdge(es[spot].ports, c)
  <2>2. /\ ports \in PortLists(N)
        /\ \A p \in Nat : Held(ports, p) = IF p = PortOf(c)
             THEN Append(Held(es[spot].ports, p), EdgeOf(c)) ELSE Held(es[spot].ports, p)
    <3>1. es[spot].ports \in PortLists(N)
      BY <1>0, <2>1
    <3> DEFINE held == es[spot].ports
    <3> HIDE DEF held
    <3>2. /\ AddEdge(held, c) \in PortLists(N)
          /\ \A p \in Nat : Held(AddEdge(held, c), p) = IF p = port_index(c.from_port) + 1
               THEN Append(Held(held, p), [node |-> c.to_node, index |-> c.to_index])
               ELSE Held(held, p)
      <4>1. held \in PortLists(N)
        BY <3>1 DEF held
      <4>2. [node |-> c.to_node, index |-> c.to_index] \in Edges(N)
        BY DEF EdgeOf
      <4>3. QED BY <4>1, <4>2, AddEdgeHolds
    <3>3. QED BY <3>2 DEF PortOf, EdgeOf, held
  <2>3. WithEdge(c) = [es EXCEPT ![spot].ports = ports]
    BY <1>1, <1>3, <2>1 DEF WithEdge
  <2> HIDE DEF ports, es, spot
  <2>4. IsEntries(N, es)
    BY DEF es
  <2> DEFINE new == WithEdge(c)
  <2> HIDE DEF new
  <2>5. /\ IsEntries(N, new)
        /\ \A f, t, p : TargetsIn(new, f, t, p) =
             IF f = es[spot].from /\ t = es[spot].type THEN Held(ports, p) ELSE TargetsIn(es, f, t, p)
    <3>1. new = Regrown(es, spot, ports)
      BY <2>3 DEF new, Regrown
    <3>2. /\ IsEntries(N, Regrown(es, spot, ports))
          /\ \A f, t, p : TargetsIn(Regrown(es, spot, ports), f, t, p) =
               IF f = es[spot].from /\ t = es[spot].type THEN Held(ports, p) ELSE TargetsIn(es, f, t, p)
      BY <2>1, <2>2, <2>4, EntryGrown
    <3>3. QED BY <3>1, <3>2
  <2>6. \A p : TargetsIn(es, es[spot].from, es[spot].type, p) = Held(es[spot].ports, p)
    BY <2>1, <2>4, TargetsOfEntry
  <2>7. ASSUME NEW f, NEW t, NEW p \in Nat
        PROVE  TargetsIn(new, f, t, p) =
                 IF f = c.from_node /\ t = c.conn_type /\ p = PortOf(c)
                 THEN Append(TargetsIn(es, f, t, p), EdgeOf(c)) ELSE TargetsIn(es, f, t, p)
    <3>1. TargetsIn(new, f, t, p) =
            IF f = c.from_node /\ t = c.conn_type THEN Held(ports, p) ELSE TargetsIn(es, f, t, p)
      BY <2>1, <2>5
    <3>2. f = c.from_node /\ t = c.conn_type => TargetsIn(es, f, t, p) = Held(es[spot].ports, p)
      BY <2>1, <2>6
    <3>3. Held(ports, p) =
            IF p = PortOf(c) THEN Append(Held(es[spot].ports, p), EdgeOf(c)) ELSE Held(es[spot].ports, p)
      BY <2>2
    <3>4. QED BY <3>1, <3>2, <3>3
  <2>8. QED BY <2>5, <2>7 DEF es, new
<1>4. QED BY <1>2, <1>3

-----------------------------------------------------------------------------
(***************************************************************************)
(* Where the members of a list of connections come from: a place in a port *)
(* of an entry, or nowhere for those to the exit.  A list that is traced   *)
(* to P has every place of P, main connections first and either kind in    *)
(* the order of the places.                                                *)
(***************************************************************************)
PlaceRecords == [entry : Nat, port : Nat, place : Nat]
Nowhere == [entry |-> 0, port |-> 0, place |-> 0]

Places(es) ==
  {x \in PlaceRecords :
     /\ x.entry \in DOMAIN es
     /\ x.port \in DOMAIN es[x.entry].ports
     /\ x.place \in DOMAIN es[x.entry].ports[x.port]}

ConnectionAt(es, x) == PortConnections(es[x.entry], x.port)[x.place]

SamePort(x, y) == x.entry = y.entry /\ x.port = y.port

Before(x, y) ==
  \/ x.entry < y.entry
  \/ x.entry = y.entry /\ x.port < y.port
  \/ x.entry = y.entry /\ x.port = y.port /\ x.place < y.place

IsMain(es, x) == es[x.entry].type = "main"
Precedes(es, x, y) ==
  \/ IsMain(es, x) /\ ~ IsMain(es, y)
  \/ (IsMain(es, x) <=> IsMain(es, y)) /\ Before(x, y)

Traced(L, org, es, P) ==
  /\ L \in Seq(Range(L))
  /\ org \in [1..Len(L) -> P \cup {Nowhere}]
  /\ \A i \in 1..Len(L) : org[i] \in P => L[i] = ConnectionAt(es, org[i])
  /\ \A i \in 1..Len(L) : org[i] = Nowhere => L[i].to_node = Exit
  /\ \A x \in P : \E i \in 1..Len(L) : org[i] = x
  /\ \A i, j \in 1..Len(L) :
       i < j /\ org[i] \in P /\ org[j] \in P => Precedes(es, org[i], org[j])

LEMMA SeqOfItsRange ==
  ASSUME NEW S, NEW s \in Seq(S)
  PROVE  s \in Seq(Range(s))
BY SeqOfRange

LEMMA ConcatOfRanges ==
  ASSUME NEW s, s \in Seq(Range(s)), NEW t, t \in Seq(Range(t))
  PROVE  /\ s \o t \in Seq(Range(s \o t)) /\ Len(s \o t) = Len(s) + Len(t)
         /\ Len(s) \in Nat /\ Len(t) \in Nat
         /\ \A i \in 1..Len(s) + Len(t) :
              (s \o t)[i] = IF i <= Len(s) THEN s[i] ELSE t[i - Len(s)]
<1> DEFINE S == Range(s) \cup Range(t)
<1>1. s \in Seq(S) /\ t \in Seq(S)
  <2>1. Range(s) \subseteq S /\ Range(t) \subseteq S
    OBVIOUS
  <2> HIDE DEF S
  <2>2. QED BY <2>1, SeqMonotonic
<1> HIDE DEF S
<1>2. /\ s \o t \in Seq(S) /\ Len(s \o t) = Len(s) + Len(t)
      /\ \A i \in 1..Len(s) + Len(t) :
           (s \o t)[i] = IF i <= Len(s) THEN s[i] ELSE t[i - Len(s)]
  BY <1>1, ConcatProperties
<1>3. s \o t \in Seq(Range(s \o t))
  BY <1>2, SeqOfItsRange
<1>4. Len(s) \in Nat /\ Len(t) \in Nat
  BY <1>1
<1>5. QED BY <1>2, <1>3, <1>4

LEMMA TracedConcat ==
  ASSUME NEW es, NEW P, NEW Q, NEW s, NEW so, NEW t, NEW to,
         Traced(s, so, es, P), Traced(t, to, es, Q),
         Nowhere \notin P, Nowhere \notin Q,
         \A x \in P, y \in Q : Precedes(es, x, y)
  PROVE  \E org : Traced(s \o t, org, es, P \cup Q)
<1> DEFINE n == Len(s)
           m == Len(t)
           L == s \o t
           org == [i \in 1..n + m |-> IF i <= n THEN so[i] ELSE to[i - n]]
<1>1. /\ L \in Seq(Range(L)) /\ Len(L) = n + m /\ n \in Nat /\ m \in Nat
      /\ \A i \in 1..n + m : L[i] = IF i <= n THEN s[i] ELSE t[i - n]
  <2>1. s \in Seq(Range(s)) /\ t \in Seq(Range(t))
    BY DEF Traced
  <2>2. QED BY <2>1, ConcatOfRanges
<1>2. /\ so \in [1..n -> P \cup {Nowhere}]
      /\ \A i \in 1..n : so[i] \in P => s[i] = ConnectionAt(es, so[i])
      /\ \A i \in 1..n : so[i] = Nowhere => s[i].to_node = Exit
      /\ \A x \in P : \E i \in 1..n : so[i] = x
      /\ \A i, j \in 1..n : i < j /\ so[i] \in P /\ so[j] \in P => Precedes(es, so[i], so[j])
  BY DEF Traced
<1>3. /\ to \in [1..m -> Q \cup {Nowhere}]
      /\ \A i \in 1..m : to[i] \in Q => t[i] = ConnectionAt(es, to[i])
      /\ \A i \in 1..m : to[i] = Nowhere => t[i].to_node = Exit
      /\ \A x \in Q : \E i \in 1..m : to[i] = x
      /\ \A i, j \in 1..m : i < j /\ to[i] \in Q /\ to[j] \in Q => Precedes(es, to[i], to[j])
  BY DEF Traced
<1> HIDE DEF n, m, L
<1>4. \A i \in 1..n + m : i <= n => i \in 1..n /\ org[i] = so[i] /\ L[i] = s[i]
  BY <1>1
<1>5. \A i \in 1..n + m : i > n => i - n \in 1..m /\ org[i] = to[i - n] /\ L[i] = t[i - n]
  BY <1>1
<1>6. org \in [1..n + m -> (P \cup Q) \cup {Nowhere}]
  <2>1. ASSUME NEW i \in 1..n + m PROVE org[i] \in (P \cup Q) \cup {Nowhere}
    <3> HIDE DEF org
    <3>1. CASE i <= n
      <4>1. so[i] \in P \cup {Nowhere} /\ org[i] = so[i]
        BY <3>1, <1>2, <1>4
      <4>2. QED BY <4>1
    <3>2. CASE i > n
      <4>1. to[i - n] \in Q \cup {Nowhere} /\ org[i] = to[i - n]
        BY <3>2, <1>3, <1>5
      <4>2. QED BY <4>1
    <3>3. QED BY <3>1, <3>2, <1>1
  <2>2. QED BY <2>1
<1>shift. /\ \A i \in 1..n : i \in 1..n + m
      /\ \A i \in 1..m : n + i \in 1..n + m /\ n + i > n /\ (n + i) - n = i
  BY <1>1
<1> HIDE DEF org
<1>7. ASSUME NEW i \in 1..n + m, org[i] \in P \cup Q PROVE L[i] = ConnectionAt(es, org[i])
  <2>1. CASE i <= n
    BY <2>1, <1>7, <1>2, <1>4
  <2>2. CASE i > n
    BY <2>2, <1>7, <1>3, <1>5
  <2>3. QED BY <2>1, <2>2, <1>1
<1>8. ASSUME NEW i \in 1..n + m, org[i] = Nowhere PROVE L[i].to_node = Exit
  <2>1. CASE i <= n
    BY <2>1, <1>8, <1>2, <1>4
  <2>2. CASE i > n
    BY <2>2, <1>8, <1>3, <1>5
  <2>3. QED BY <2>1, <2>2, <1>1
<1>9. ASSUME NEW x \in P \cup Q PROVE \E i \in 1..n + m : org[i] = x
  <2>1. CASE x \in P
    <3>1. PICK i \in 1..n : so[i] = x
      BY <2>1, <1>2
    <3>2. i \in 1..n + m /\ org[i] = x
      BY <3>1, <1>1, <1>4
    <3>3. QED BY <3>2
  <2>2. CASE x \in Q
    <3>1. PICK i \in 1..m : to[i] = x
      BY <2>2, <1>3
    <3>2. n + i \in 1..n + m /\ org[n + i] = x
      BY <3>1, <1>5, <1>shift
    <3>3. QED BY <3>2
  <2>3. QED BY <2>1, <2>2
<1>10. ASSUME NEW i \in 1..n + m, NEW j \in 1..n + m, i < j,
              org[i] \in P \cup Q, org[j] \in P \cup Q
       PROVE  Precedes(es, org[i], org[j])
  <2>1. CASE j <= n
    <3>1. i \in 1..n /\ j \in 1..n /\ org[i] = so[i] /\ org[j] = so[j]
      BY <2>1, <1>10, <1>1, <1>4
    <3>2. so[i] \in P /\ so[j] \in P
      BY <3>1, <1>10, <1>2
    <3>3. QED BY <3>1, <3>2, <1>2, <1>10
  <2>2. CASE i > n
    <3>1. i - n \in 1..m /\ j - n \in 1..m /\ i - n < j - n /\ org[i] = to[i - n] /\ org[j] = to[j - n]
      BY <2>2, <1>10, <1>1, <1>5
    <3>2. to[i - n] \in Q /\ to[j - n] \in Q
      BY <3>1, <1>10, <1>3
    <3>3. QED BY <3>1, <3>2, <1>3, <1>10
  <2>3. CASE i <= n /\ j > n
    <3>1. org[i] = so[i] /\ org[j] = to[j - n] /\ i \in 1..n /\ j - n \in 1..m
      BY <2>3, <1>4, <1>5
    <3>2. so[i] \in P /\ to[j - n] \in Q
      BY <3>1, <1>2, <1>3, <1>10
    <3>3. QED BY <3>1, <3>2, <1>10
  <2>4. QED BY <2>1, <2>2, <2>3, <1>1
<1>11. Traced(L, org, es, P \cup Q)
  BY <1>1, <1>6, <1>7, <1>8, <1>9, <1>10 DEF Traced
<1>12. QED BY <1>11 DEF L

LEMMA TracedEmpty ==
  ASSUME NEW es
  PROVE  \E org : Traced(<<>>, org, es, {})
<1> DEFINE org == [i \in 1..0 |-> Nowhere]
<1>1. <<>> \in Seq(Range(<<>>)) /\ Len(<<>>) = 0
  OBVIOUS
<1>2. org \in [1..0 -> {} \cup {Nowhere}]
  OBVIOUS
<1> HIDE DEF org
<1>3. \A i \in 1..0 : FALSE
  OBVIOUS
<1>4. Traced(<<>>, org, es, {})
  BY <1>1, <1>2, <1>3 DEF Traced
<1>5. QED BY <1>4

(* What is led to the exit comes from nowhere.                             *)
LEMMA TracedExit ==
  ASSUME NEW es, NEW n
  PROVE  \E org : Traced(ExitConnections(n), org, es, {})
<1> DEFINE L == ExitConnections(n)
           k == IF n \in Multi THEN 2 ELSE 1
           org == [i \in 1..k |-> Nowhere]
           E(i) == [from_node |-> n, from_port |-> port_name(n, "main", i - 1),
                    to_node |-> Exit, to_index |-> 0, conn_type |-> "main"]
<1>1. k \in Nat /\ L = [i \in 1..k |-> E(i)]
  BY DEF ExitConnections
<1> HIDE DEF L, k
<1>2. DOMAIN L = 1..k /\ L \in [1..k -> Range(L)]
  BY <1>1 DEF Range
<1>3. L \in Seq(Range(L)) /\ Len(L) = k
  BY <1>1, <1>2
<1>4. \A i \in 1..k : L[i].to_node = Exit
  BY <1>1
<1>5. org \in [1..k -> {} \cup {Nowhere}]
  OBVIOUS
<1> HIDE DEF org
<1>6. Traced(L, org, es, {})
  BY <1>3, <1>4, <1>5 DEF Traced
<1>7. QED BY <1>6 DEF L

(* The places of a port, and the connections parse_workflow makes of it.   *)
PortPlaces(es, i, p) == {x \in Places(es) : x.entry = i /\ x.port = p}

LEMMA TracedPort ==
  ASSUME NEW N, NEW es, IsEntries(N, es), NEW i \in DOMAIN es, NEW p \in DOMAIN es[i].ports
  PROVE  \E org : Traced(PortConnections(es[i], p), org, es, PortPlaces(es, i, p))
<1> DEFINE L == PortConnections(es[i], p)
           list == es[i].ports[p]
           n == Len(list)
           org == [k \in 1..n |-> [entry |-> i, port |-> p, place |-> k]]
<1>1. /\ i \in Nat /\ i \in DOMAIN es /\ p \in Nat
      /\ list \in Seq(Edges(N))
  <2>1. DOMAIN es = 1..Len(es) /\ Len(es) \in Nat /\ es[i].ports \in PortLists(N)
    BY EntryIsRecord
  <2>2. QED BY <2>1 DEF PortLists
<1>2. n \in Nat /\ DOMAIN list = 1..n
  BY <1>1
<1>3. DOMAIN L = 1..n
  BY <1>2 DEF PortConnections
<1> HIDE DEF L, n, list
<1>4. L \in [1..n -> Range(L)]
  <2>1. L = [k \in 1..n |-> L[k]]
    BY <1>3, <1>2 DEF L, PortConnections
  <2>2. \A k \in 1..n : L[k] \in Range(L)
    BY <1>3 DEF Range
  <2>3. QED BY <2>1, <2>2
<1>5. L \in Seq(Range(L)) /\ Len(L) = n
  BY <1>2, <1>3, <1>4
<1>6. \A x : x \in PortPlaces(es, i, p) <=>
               x \in PlaceRecords /\ x.entry = i /\ x.port = p /\ x.place \in 1..n
  BY <1>1, <1>2 DEF PortPlaces, Places, list
<1>7. ASSUME NEW k \in 1..n
      PROVE  /\ org[k] \in PortPlaces(es, i, p) /\ org[k] # Nowhere
             /\ org[k].entry = i /\ org[k].port = p /\ org[k].place = k
             /\ L[k] = ConnectionAt(es, org[k])
  <2>1. /\ org[k] \in PlaceRecords /\ org[k].entry = i /\ org[k].port = p /\ org[k].place = k
        /\ i # 0
    BY <1>1, EntryIsRecord DEF PlaceRecords
  <2>2. org[k] # Nowhere
    BY <2>1 DEF Nowhere
  <2> HIDE DEF org
  <2>3. L[k] = ConnectionAt(es, org[k])
    BY <2>1 DEF L, ConnectionAt
  <2>4. QED BY <2>1, <2>2, <2>3, <1>6
<1>8. DOMAIN org = 1..n /\ org = [k \in 1..n |-> org[k]]
  OBVIOUS
<1> HIDE DEF org
<1>9. org \in [1..n -> PortPlaces(es, i, p) \cup {Nowhere}]
  BY <1>7, <1>8
<1>10. ASSUME NEW x \in PortPlaces(es, i, p) PROVE \E k \in 1..n : org[k] = x
  <2>1. x \in PlaceRecords /\ x.entry = i /\ x.port = p /\ x.place \in 1..n
    BY <1>6
  <2>2. /\ org[x.place] \in PlaceRecords
        /\ org[x.place].entry = i /\ org[x.place].port = p /\ org[x.place].place = x.place
    BY <2>1, <1>6, <1>7
  <2>3. org[x.place] = x
    BY <2>1, <2>2 DEF PlaceRecords
  <2>4. QED BY <2>1, <2>3
<1>11. \A k, l \in 1..n : k < l => Precedes(es, org[k], org[l])
  BY <1>7 DEF Precedes, Before, IsMain
<1>12. Traced(L, org, es, PortPlaces(es, i, p))
  BY <1>5, <1>7, <1>9, <1>10, <1>11 DEF Traced
<1>13. QED BY <1>12 DEF L

-----------------------------------------------------------------------------
(***************************************************************************)
(* What parse_workflow has read when it stands at a port of an entry.      *)
(***************************************************************************)
OfKind(es, main) == {x \in Places(es) : (es[x.entry].type = "main") <=> main}

ReadBefore(es, cur, main) ==
  {x \in OfKind(es, main) : x.entry < cur.entry \/ (x.entry = cur.entry /\ x.port < cur.port)}

Cursors == [entry : Nat \ {0}, port : Nat \ {0}]

LEMMA PlaceNumbers ==
  ASSUME NEW N, NEW es, IsEntries(N, es)
  PROVE  /\ Nowhere \notin Places(es)
         /\ \A x \in Places(es) :
              /\ x \in PlaceRecords /\ x.entry \in Nat \ {0} /\ x.port \in Nat \ {0}
              /\ x.entry \in DOMAIN es /\ x.port \in DOMAIN es[x.entry].ports
         /\ \A i \in DOMAIN es : /\ i \in Nat \ {0}
                                 /\ DOMAIN es[i].ports = 1..Len(es[i].ports)
                                 /\ Len(es[i].ports) \in Nat
<1>1. /\ DOMAIN es = 1..Len(es) /\ Len(es) \in Nat
      /\ \A i \in DOMAIN es : es[i].ports \in PortLists(N)
  BY EntryIsRecord
<1>2. \A i \in DOMAIN es : /\ i \in Nat \ {0}
                           /\ DOMAIN es[i].ports = 1..Len(es[i].ports)
                           /\ Len(es[i].ports) \in Nat
  <2>1. \A ports \in PortLists(N) : DOMAIN ports = 1..Len(ports) /\ Len(ports) \in Nat
    BY DEF PortLists
  <2>2. QED BY <1>1, <2>1
<1>3. \A x \in Places(es) : /\ x \in PlaceRecords
                            /\ x.entry \in DOMAIN es /\ x.port \in DOMAIN es[x.entry].ports
  BY DEF Places
<1>4. \A x \in Places(es) : x.entry \in Nat \ {0} /\ x.port \in Nat \ {0}
  BY <1>2, <1>3
<1>5. Nowhere \notin Places(es)
  <2>1. Nowhere.entry = 0
    BY DEF Nowhere
  <2>2. QED BY <2>1, <1>4
<1>6. QED BY <1>2, <1>3, <1>4, <1>5

LEMMA ReadNothing ==
  ASSUME NEW N, NEW es, IsEntries(N, es), NEW m
  PROVE  ReadBefore(es, Start, m) = {}
<1>1. \A x \in Places(es) : x.entry \in Nat \ {0} /\ x.port \in Nat \ {0}
  BY PlaceNumbers
<1>2. Start.entry = 1 /\ Start.port = 1
  BY DEF Start
<1>3. QED BY <1>1, <1>2 DEF ReadBefore, OfKind

LEMMA ReadOnePort ==
  ASSUME NEW N, NEW es, IsEntries(N, es), NEW cur \in Cursors, NEW next \in Cursors, NEW m \in BOOLEAN,
         cur.entry \in DOMAIN es, cur.port \in DOMAIN es[cur.entry].ports,
         next.entry = cur.entry, next.port = cur.port + 1
  PROVE  /\ ReadBefore(es, next, m) =
              IF (es[cur.entry].type = "main") <=> m
              THEN ReadBefore(es, cur, m) \cup PortPlaces(es, cur.entry, cur.port)
              ELSE ReadBefore(es, cur, m)
         /\ ((es[cur.entry].type = "main") <=> m) =>
              \A x \in ReadBefore(es, cur, m), y \in PortPlaces(es, cur.entry, cur.port) :
                Precedes(es, x, y)
<1>1. \A x \in Places(es) : x.entry \in Nat \ {0} /\ x.port \in Nat \ {0}
  BY PlaceNumbers
<1>2. cur.entry \in Nat /\ cur.port \in Nat
  BY DEF Cursors
<1>3. \A x \in Places(es) :
        x.entry < next.entry \/ (x.entry = next.entry /\ x.port < next.port)
        <=> \/ x.entry < cur.entry \/ (x.entry = cur.entry /\ x.port < cur.port)
            \/ x.entry = cur.entry /\ x.port = cur.port
  BY <1>1, <1>2
<1>4. CASE (es[cur.entry].type = "main") <=> m
  <2>1. \A x : x \in ReadBefore(es, next, m) <=>
                 x \in ReadBefore(es, cur, m) \/ x \in PortPlaces(es, cur.entry, cur.port)
    BY <1>3, <1>4 DEF ReadBefore, OfKind, PortPlaces
  <2>2. ASSUME NEW x \in ReadBefore(es, cur, m), NEW y \in PortPlaces(es, cur.entry, cur.port)
        PROVE  Precedes(es, x, y)
    <3>1. /\ x.entry < cur.entry \/ (x.entry = cur.entry /\ x.port < cur.port)
          /\ y.entry = cur.entry /\ y.port = cur.port
      BY DEF ReadBefore, PortPlaces
    <3>2. IsMain(es, x) <=> IsMain(es, y)
      BY <3>1, <1>4 DEF ReadBefore, OfKind, IsMain
    <3>3. QED BY <3>1, <3>2 DEF Precedes, Before
  <2>3. QED BY <2>1, <2>2, <1>4
<1>5. CASE ~ ((es[cur.entry].type = "main") <=> m)
  <2>1. \A x : x \in ReadBefore(es, next, m) <=> x \in ReadBefore(es, cur, m)
    BY <1>3, <1>5 DEF ReadBefore, OfKind
  <2>2. QED BY <2>1, <1>5
<1>6. QED BY <1>4, <1>5

LEMMA ReadEntry ==
  ASSUME NEW N, NEW es, IsEntries(N, es), NEW cur \in Cursors, NEW m,
         cur.entry \in DOMAIN es, cur.port \notin DOMAIN es[cur.entry].ports
  PROVE  ReadBefore(es, [entry |-> cur.entry + 1, port |-> 1], m) = ReadBefore(es, cur, m)
<1> DEFINE next == [entry |-> cur.entry + 1, port |-> 1]
           n == Len(es[cur.entry].ports)
<1>1. \A x \in Places(es) : /\ x.entry \in Nat \ {0} /\ x.port \in Nat \ {0}
                            /\ x.port \in DOMAIN es[x.entry].ports
  BY PlaceNumbers
<1>2. /\ cur.entry \in Nat /\ cur.port \in Nat \ {0}
      /\ next.entry = cur.entry + 1 /\ next.port = 1
  BY DEF Cursors
<1>3. DOMAIN es[cur.entry].ports = 1..n /\ n \in Nat
  BY PlaceNumbers
<1> HIDE DEF next, n
<1>4. cur.port > n
  BY <1>2, <1>3
<1>5. \A x \in Places(es) :
        x.entry < next.entry \/ (x.entry = next.entry /\ x.port < next.port)
        <=> x.entry < cur.entry \/ (x.entry = cur.entry /\ x.port < cur.port)
  <2> SUFFICES ASSUME NEW x \in Places(es)
               PROVE  x.entry < next.entry \/ (x.entry = next.entry /\ x.port < next.port)
                      <=> x.entry < cur.entry \/ (x.entry = cur.entry /\ x.port < cur.port)
    OBVIOUS
  <2>1. x.entry = cur.entry => x.port \in 1..n
    BY <1>1, <1>3
  <2>2. QED BY <2>1, <1>1, <1>2, <1>3, <1>4
<1>6. \A x : x \in ReadBefore(es, next, m) <=> x \in ReadBefore(es, cur, m)
  BY <1>5 DEF ReadBefore, OfKind
<1>7. QED BY <1>6 DEF next

LEMMA ReadAll ==
  ASSUME NEW N, NEW es, IsEntries(N, es), NEW cur \in Cursors, cur.entry \notin DOMAIN es
  PROVE  /\ \A m : ReadBefore(es, cur, m) = OfKind(es, m)
         /\ OfKind(es, TRUE) \cup OfKind(es, FALSE) = Places(es)
         /\ \A x \in OfKind(es, TRUE), y \in OfKind(es, FALSE) : Precedes(es, x, y)
<1>1. /\ DOMAIN es = 1..Len(es) /\ Len(es) \in Nat
      /\ cur.entry \in Nat \ {0}
  BY EntryIsRecord DEF Cursors
<1>2. \A x \in Places(es) : x.entry \in DOMAIN es
  BY DEF Places
<1>3. \A x \in Places(es) : x.entry < cur.entry
  BY <1>1, <1>2
<1>4. QED BY <1>3 DEF ReadBefore, OfKind, Precedes, IsMain

-----------------------------------------------------------------------------
(***************************************************************************)
(* What is restored after some members of a traced list: of every port the *)
(* first targets, as many as there were places of it among those members.  *)
(***************************************************************************)
Begins(s, t) == Len(s) <= Len(t) /\ \A k \in 1..Len(s) : s[k] = t[k]

RestoredOf(rs, es, x) == TargetsIn(rs, es[x.entry].from, es[x.entry].type, x.port)

Restoring(org, c, es, rs) ==
  /\ \A f, t : \A p \in Nat : Begins(TargetsIn(rs, f, t, p), TargetsIn(es, f, t, p))
  /\ \A x \in Places(es) : x.place <= Len(RestoredOf(rs, es, x)) <=> \E j \in 1..c : org[j] = x

(* _port_index finds the port that the name was made for.                  *)
LEMMA IndexOfName ==
  ASSUME NEW f, NEW t, NEW i \in Nat
  PROVE  port_index(port_name(f, t, i)) = i
<1>1. Len(<<"main", i>>) = 2 /\ <<"main", i>>[2] = i /\ Len(<<"main">>) = 1
  OBVIOUS
<1>2. CASE i # 0 \/ (t = "main" /\ f \in Multi)
  <2>1. port_name(f, t, i) = <<"main", i>>
    BY <1>2 DEF port_name
  <2>2. QED BY <2>1, <1>1 DEF port_index
<1>3. CASE ~ (i # 0 \/ (t = "main" /\ f \in Multi))
  <2>1. port_name(f, t, i) = <<"main">> /\ i = 0
    BY <1>3 DEF port_name
  <2>2. QED BY <2>1, <1>1 DEF port_index
<1>4. QED BY <1>2, <1>3

LEMMA ConnectionOfPlace ==
  ASSUME NEW N, NEW es, IsEntries(N, es), NEW x \in Places(es)
  PROVE  LET c == ConnectionAt(es, x)
             list == es[x.entry].ports[x.port]
         IN  /\ c.from_node = es[x.entry].from /\ c.from_node \in N
             /\ c.conn_type = es[x.entry].type /\ c.conn_type \in ConnTypes
             /\ port_index(c.from_port) \in Nat /\ PortOf(c) = x.port
             /\ EdgeOf(c) = list[x.place] /\ EdgeOf(c) \in Edges(N) /\ c.to_node \in N
             /\ list \in Seq(Edges(N)) /\ x.place \in 1..Len(list) /\ x.port \in Nat
             /\ TargetsIn(es, es[x.entry].from, es[x.entry].type, x.port) = list
<1> DEFINE e == es[x.entry]
           list == e.ports[x.port]
           edge == list[x.place]
           c == ConnectionAt(es, x)
<1>1. /\ x.entry \in DOMAIN es /\ x.port \in DOMAIN e.ports /\ x.place \in DOMAIN list
      /\ x.port \in Nat \ {0}
  BY PlaceNumbers DEF Places
<1>2. e.from \in N /\ e.type \in ConnTypes /\ e.ports \in PortLists(N)
  BY <1>1, EntryIsRecord
<1>3. list \in Seq(Edges(N))
  BY <1>1, <1>2 DEF PortLists
<1>4. x.place \in 1..Len(list) /\ edge \in Edges(N)
  BY <1>1, <1>3
<1>5. edge.node \in N /\ edge = [node |-> edge.node, index |-> edge.index]
  BY <1>4 DEF Edges
<1>6. c = [from_node |-> e.from, from_port |-> port_name(e.from, e.type, x.port - 1),
           to_node |-> edge.node, to_index |-> edge.index, conn_type |-> e.type]
  BY <1>1 DEF ConnectionAt, PortConnections
<1>7. /\ c.from_node = e.from /\ c.from_port = port_name(e.from, e.type, x.port - 1)
      /\ c.to_node = edge.node /\ c.to_index = edge.index /\ c.conn_type = e.type
  BY <1>6
<1>8. TargetsIn(es, e.from, e.type, x.port) = list
  <2>1. TargetsIn(es, e.from, e.type, x.port) = Held(e.ports, x.port)
    BY <1>1, TargetsOfEntry
  <2>2. QED BY <2>1, <1>1 DEF Held
<1> HIDE DEF e, list, edge, c
<1>9. x.port - 1 \in Nat /\ (x.port - 1) + 1 = x.port
  BY <1>1
<1>10. port_index(c.from_port) = x.port - 1
  BY <1>7, <1>9, IndexOfName
<1>11. EdgeOf(c) = edge
  BY <1>5, <1>7 DEF EdgeOf
<1>12. PortOf(c) = x.port
  BY <1>9, <1>10 DEF PortOf
<1>13. /\ c.from_node = e.from /\ c.from_node \in N /\ c.conn_type = e.type /\ c.conn_type \in ConnTypes
       /\ port_index(c.from_port) \in Nat /\ PortOf(c) = x.port
       /\ EdgeOf(c) = list[x.place] /\ EdgeOf(c) \in Edges(N) /\ c.to_node \in N
       /\ list \in Seq(Edges(N)) /\ x.place \in 1..Len(list) /\ x.port \in Nat
       /\ TargetsIn(es, e.from, e.type, x.port) = list
  BY <1>1, <1>2, <1>3, <1>4, <1>5, <1>7, <1>8, <1>9, <1>10, <1>11, <1>12 DEF edge
<1>14. QED BY <1>13 DEF c, e, list

(* The next target of a port is its first one that was not restored yet.   *)
LEMMA NextOfPort ==
  ASSUME NEW N, NEW es, IsEntries(N, es), NEW L, NEW org, Traced(L, org, es, Places(es)),
         NEW rs, NEW c \in Nat, c + 1 \in 1..Len(L), Restoring(org, c, es, rs),
         NEW x \in Places(es), org[c + 1] = x, Len(RestoredOf(rs, es, x)) \in Nat
  PROVE  Len(RestoredOf(rs, es, x)) = x.place - 1
<1> DEFINE n == Len(RestoredOf(rs, es, x))
           list == es[x.entry].ports[x.port]
<1> HIDE DEF n, list
<1>1. x.place \in 1..Len(list) /\ DOMAIN list = 1..Len(list) /\ Len(list) \in Nat
  <2>1. es[x.entry].ports[x.port] \in Seq(Edges(N)) /\ x.place \in 1..Len(es[x.entry].ports[x.port])
    BY ConnectionOfPlace
  <2>2. list \in Seq(Edges(N)) /\ x.place \in 1..Len(list)
    BY <2>1 DEF list
  <2>3. QED BY <2>2
<1> USE DEF n, list
<1>2. \A i, j \in 1..Len(L) :
        i < j /\ org[i] \in Places(es) /\ org[j] \in Places(es) /\ SamePort(org[i], org[j])
          => org[i].place < org[j].place
  <2>1. \A u, v \in Places(es) : SamePort(u, v) /\ Precedes(es, u, v) => u.place < v.place
    <3>1. \A u \in Places(es) : u.entry \in Nat /\ u.port \in Nat
      BY PlaceNumbers
    <3>2. QED BY <3>1 DEF SamePort, Precedes, Before, IsMain
  <2>2. QED BY <2>1 DEF Traced
<1>3. Len(L) \in Nat
  BY DEF Traced
<1>4. ~ (x.place <= n)
  <2>1. SUFFICES ASSUME NEW j \in 1..c, org[j] = x PROVE FALSE
    BY DEF Restoring
  <2>2. j \in 1..Len(L) /\ j < c + 1
    BY <1>3
  <2>3. SamePort(x, x)
    BY DEF SamePort
  <2>4. x.place < x.place
    BY <1>2, <2>1, <2>2, <2>3
  <2>5. QED BY <2>4, <1>1
<1>5. ASSUME x.place > 1 PROVE x.place - 1 <= n
  <2> DEFINE y == [entry |-> x.entry, port |-> x.port, place |-> x.place - 1]
  <2>1. /\ y.entry = x.entry /\ y.port = x.port /\ y.place = x.place - 1
        /\ y \in PlaceRecords /\ y.place \in DOMAIN list
    BY <1>1, <1>5 DEF Places, PlaceRecords
  <2>2. /\ x.entry \in DOMAIN es /\ x.port \in DOMAIN es[x.entry].ports
    BY DEF Places
  <2> HIDE DEF y
  <2>3. y \in Places(es)
    BY <2>1, <2>2 DEF Places
  <2>4. PICK j \in 1..Len(L) : org[j] = y
    BY <2>3 DEF Traced
  <2>5. SamePort(x, y) /\ x # y
    BY <2>1, <1>1 DEF SamePort
  <2>6. ~ (c + 1 < j)
    <3>1. SUFFICES ASSUME c + 1 < j PROVE FALSE
      OBVIOUS
    <3>2. x.place < y.place
      BY <1>2, <2>3, <2>4, <2>5, <3>1
    <3>3. QED BY <3>2, <2>1, <1>1
  <2>7. j # c + 1
    BY <2>4, <2>5
  <2>8. j \in 1..c
    BY <2>6, <2>7, <1>3
  <2>9. y.place <= Len(RestoredOf(rs, es, y))
    BY <2>3, <2>4, <2>8 DEF Restoring
  <2>10. RestoredOf(rs, es, y) = RestoredOf(rs, es, x)
    BY <2>1 DEF RestoredOf
  <2>11. QED BY <2>1, <2>9, <2>10
<1> HIDE DEF n, list
<1>6. n \in Nat
  BY DEF n
<1>7. n = x.place - 1
  BY <1>1, <1>4, <1>5, <1>6
<1>8. QED BY <1>7 DEF n

LEMMA RestoreNext ==
  ASSUME NEW N, NEW es, IsEntries(N, es), IsEntries(N, restored), Exit \notin N,
         NEW L, NEW org, Traced(L, org, es, Places(es)),
         NEW c \in Nat, c + 1 \in 1..Len(L), Restoring(org, c, es, restored)
  PROVE  /\ L[c + 1].to_node = Exit => Restoring(org, c + 1, es, restored)
         /\ L[c + 1].to_node # Exit =>
              /\ IsEntries(N, WithEdge(L[c + 1]))
              /\ Restoring(org, c + 1, es, WithEdge(L[c + 1]))
<1>1. org[c + 1] \in Places(es) \cup {Nowhere}
  BY DEF Traced
<1>2. \A x : (\E j \in 1..c + 1 : org[j] = x) <=> (\E j \in 1..c : org[j] = x) \/ org[c + 1] = x
  <2>1. \A j : j \in 1..c + 1 <=> j \in 1..c \/ j = c + 1
    OBVIOUS
  <2>2. QED BY <2>1
<1>3. CASE org[c + 1] = Nowhere
  <2>1. L[c + 1].to_node = Exit
    BY <1>3 DEF Traced
  <2>2. \A x \in Places(es) : x # Nowhere
    BY PlaceNumbers
  <2>3. Restoring(org, c + 1, es, restored)
    BY <1>2, <1>3, <2>2 DEF Restoring
  <2>4. QED BY <2>1, <2>3
<1>4. CASE org[c + 1] \in Places(es)
  <2> DEFINE x == org[c + 1]
             e == es[x.entry]
             con == L[c + 1]
             full == e.ports[x.port]
             old == RestoredOf(restored, es, x)
             rs == WithEdge(con)
  <2>1. x \in Places(es) /\ con = ConnectionAt(es, x)
    BY <1>4 DEF Traced
  <2> HIDE DEF x, con
  <2>2. /\ con.from_node = e.from /\ con.from_node \in N
        /\ con.conn_type = e.type /\ con.conn_type \in ConnTypes
        /\ port_index(con.from_port) \in Nat /\ PortOf(con) = x.port
        /\ EdgeOf(con) = full[x.place] /\ EdgeOf(con) \in Edges(N) /\ con.to_node \in N
        /\ full \in Seq(Edges(N)) /\ x.place \in 1..Len(full) /\ x.port \in Nat
        /\ TargetsIn(es, e.from, e.type, x.port) = full
    BY <2>1, ConnectionOfPlace
  <2> HIDE DEF full, old, rs
  <2>3. con.to_node # Exit
    BY <2>2
  <2>4. /\ IsEntries(N, rs)
        /\ \A f, t : \A p \in Nat :
             TargetsIn(rs, f, t, p) =
               IF f = con.from_node /\ t = con.conn_type /\ p = PortOf(con)
               THEN Append(TargetsIn(restored, f, t, p), EdgeOf(con))
               ELSE TargetsIn(restored, f, t, p)
    BY <2>2, EdgeJoins DEF rs
  <2>5. old \in Seq(Edges(N)) /\ old = TargetsIn(restored, e.from, e.type, x.port)
    BY TargetsAreSequences DEF old, RestoredOf
  <2>6. Len(old) = x.place - 1 /\ Len(old) \in Nat
    <3>1. Len(old) \in Nat
      BY <2>5
    <3>2. Len(old) = x.place - 1
      BY <3>1, <2>1, NextOfPort DEF x, old
    <3>3. QED BY <3>1, <3>2
  <2>7. /\ Append(old, full[x.place]) \in Seq(Edges(N))
        /\ Len(Append(old, full[x.place])) = x.place
        /\ \A k \in 1..Len(old) : Append(old, full[x.place])[k] = old[k]
        /\ Append(old, full[x.place])[x.place] = full[x.place]
    BY <2>2, <2>5, <2>6
  <2>8. ASSUME NEW f, NEW t, NEW p \in Nat
        PROVE  Begins(TargetsIn(rs, f, t, p), TargetsIn(es, f, t, p))
    <3>1. Begins(TargetsIn(restored, f, t, p), TargetsIn(es, f, t, p))
      BY DEF Restoring
    <3>2. CASE f = e.from /\ t = e.type /\ p = x.port
      <4>1. TargetsIn(rs, f, t, p) = Append(old, full[x.place]) /\ TargetsIn(es, f, t, p) = full
        BY <2>2, <2>4, <2>5, <3>2
      <4>2. \A k \in 1..Len(old) : old[k] = full[k]
        BY <3>1, <3>2, <2>2, <2>5 DEF Begins
      <4>3. Begins(Append(old, full[x.place]), full)
        <5>1. \A k \in 1..x.place : k \in 1..Len(old) \/ k = x.place
          BY <2>2, <2>6
        <5>2. QED BY <5>1, <4>2, <2>2, <2>6, <2>7 DEF Begins
      <4>4. QED BY <4>1, <4>3
    <3>3. CASE ~ (f = e.from /\ t = e.type /\ p = x.port)
      <4>1. TargetsIn(rs, f, t, p) = TargetsIn(restored, f, t, p)
        BY <2>2, <2>4, <3>3
      <4>2. QED BY <3>1, <4>1
    <3>4. QED BY <3>2, <3>3
  <2>9. ASSUME NEW y \in Places(es)
        PROVE  y.place <= Len(RestoredOf(rs, es, y)) <=> \E j \in 1..c + 1 : org[j] = y
    <3>1. y.place <= Len(RestoredOf(restored, es, y)) <=> \E j \in 1..c : org[j] = y
      BY DEF Restoring
    <3>2. y \in PlaceRecords /\ y.entry \in DOMAIN es /\ y.port \in Nat /\ y.place \in Nat
      BY PlaceNumbers DEF PlaceRecords
    <3>3. x \in PlaceRecords /\ x.entry \in DOMAIN es
      BY <2>1, PlaceNumbers
    <3>4. CASE SamePort(x, y)
      <4>1. /\ es[y.entry].from = e.from /\ es[y.entry].type = e.type /\ y.port = x.port
        BY <3>4 DEF SamePort
      <4>2. RestoredOf(restored, es, y) = old
        BY <4>1, <2>5 DEF RestoredOf
      <4>3. RestoredOf(rs, es, y) = Append(old, full[x.place])
        BY <4>1, <2>2, <2>4, <2>5 DEF RestoredOf
      <4>4. y.place <= x.place <=> y.place <= x.place - 1 \/ y.place = x.place
        BY <3>2, <2>2
      <4>5. y.place = x.place <=> y = x
        BY <3>2, <3>3, <3>4 DEF PlaceRecords, SamePort
      <4>6. QED BY <4>2, <4>3, <4>4, <4>5, <3>1, <2>6, <2>7, <1>2 DEF x
    <3>5. CASE ~ SamePort(x, y)
      <4>1. ~ (es[y.entry].from = e.from /\ es[y.entry].type = e.type /\ y.port = x.port)
        BY <3>5, <3>2, <3>3 DEF SamePort, IsEntries, Distinct
      <4>2. RestoredOf(rs, es, y) = RestoredOf(restored, es, y)
        BY <4>1, <3>2, <2>2, <2>4 DEF RestoredOf
      <4>3. x # y
        BY <3>5 DEF SamePort
      <4>4. QED BY <4>2, <4>3, <3>1, <1>2 DEF x
    <3>6. QED BY <3>4, <3>5
  <2>10. Restoring(org, c + 1, es, rs)
    BY <2>8, <2>9 DEF Restoring
  <2>11. QED BY <2>3, <2>4, <2>10 DEF rs, con
<1>5. QED BY <1>1, <1>3, <1>4

LEMMA RestoredAll ==
  ASSUME NEW N, NEW es, IsEntries(N, es), NEW rs, IsEntries(N, rs),
         NEW L, NEW org, Traced(L, org, es, Places(es)), Restoring(org, Len(L), es, rs)
  PROVE  \A f, t : \A p \in Nat : TargetsIn(rs, f, t, p) = TargetsIn(es, f, t, p)
<1> SUFFICES ASSUME NEW f, NEW t, NEW p \in Nat
             PROVE  TargetsIn(rs, f, t, p) = TargetsIn(es, f, t, p)
  OBVIOUS
<1> DEFINE r == TargetsIn(rs, f, t, p)
           w == TargetsIn(es, f, t, p)
<1>1. r \in Seq(Edges(N)) /\ w \in Seq(Edges(N)) /\ Begins(r, w)
  BY TargetsAreSequences DEF Restoring
<1>2. Len(w) <= Len(r)
  <2>1. CASE w = <<>>
    BY <2>1, <1>1
  <2>2. CASE w # <<>>
    <3>1. PICK i \in DOMAIN es : es[i].from = f /\ es[i].type = t
      BY <2>2, TargetsOfNone
    <3>2. w = Held(es[i].ports, p)
      BY <3>1, TargetsOfEntry
    <3>3. p \in DOMAIN es[i].ports /\ w = es[i].ports[p]
      BY <3>2, <2>2 DEF Held
    <3> DEFINE x == [entry |-> i, port |-> p, place |-> Len(w)]
    <3>4. Len(w) \in 1..Len(w) /\ DOMAIN w = 1..Len(w) /\ i \in Nat
      BY <2>2, <1>1, PlaceNumbers
    <3>5. x \in PlaceRecords /\ x.entry = i /\ x.port = p /\ x.place = Len(w)
      BY <3>4 DEF PlaceRecords
    <3> HIDE DEF x, r, w
    <3>6. x \in Places(es)
      BY <3>3, <3>4, <3>5 DEF Places
    <3>7. \E j \in 1..Len(L) : org[j] = x
      BY <3>6 DEF Traced
    <3>8. x.place <= Len(RestoredOf(rs, es, x))
      BY <3>6, <3>7 DEF Restoring
    <3>9. RestoredOf(rs, es, x) = r
      BY <3>1, <3>5 DEF RestoredOf, r
    <3>10. QED BY <3>5, <3>8, <3>9
  <2>3. QED BY <2>1, <2>2
<1> HIDE DEF r, w
<1>3. Len(r) = Len(w) /\ \A k \in 1..Len(r) : r[k] = w[k]
  BY <1>1, <1>2 DEF Begins
<1>4. r = w
  BY <1>1, <1>3, SeqEqual
<1>5. QED BY <1>4 DEF r, w

LEMMA RestoringStarts ==
  ASSUME NEW N, NEW es, IsEntries(N, es), NEW org
  PROVE  IsEntries(N, <<>>) /\ Restoring(org, 0, es, <<>>)
<1>1. IsEntries(N, <<>>)
  BY DEF IsEntries, Distinct
<1>2. \A f, t, p : TargetsIn(<<>>, f, t, p) = <<>>
  BY TargetsOfNone
<1>3. \A f, t, p : Begins(<<>>, TargetsIn(es, f, t, p))
  BY TargetsAreSequences DEF Begins
<1>4. \A x \in Places(es) : RestoredOf(<<>>, es, x) = <<>> /\ ~ (x.place <= 0)
  BY <1>2, ConnectionOfPlace DEF RestoredOf
<1>5. \A j \in 1..0 : FALSE
  OBVIOUS
<1>6. QED BY <1>1, <1>2, <1>3, <1>4, <1>5 DEF Restoring

-----------------------------------------------------------------------------
(***************************************************************************)
(* The nodes of a document are the names, sorted.                          *)
(***************************************************************************)
LEMMA SmallestOfSets ==
  ASSUME NEW Bad, \A S \in Bad : IsFiniteSet(S), Bad # {}
  PROVE  \E S \in Bad : \A T \in Bad : Cardinality(S) <= Cardinality(T)
<1> DEFINE Sizes == {Cardinality(S) : S \in Bad}
           R == OpToRel(<, Nat)
<1>1. \A S \in Bad : Cardinality(S) \in Nat
  BY FS_CardinalityType
<1>2. Sizes \subseteq Nat /\ Sizes # {}
  BY <1>1
<1>3. \A m, n \in Nat : <<m, n>> \in R <=> m < n
  BY DEF OpToRel
<1>4. IsWellFoundedOn(R, Nat)
  BY NatLessThanWellFounded
<1> HIDE DEF R, Sizes
<1>5. PICK k \in Sizes : \A n \in Sizes : <<n, k>> \notin R
  BY <1>2, <1>4, WFMin
<1>6. \A n \in Sizes : ~ (n < k)
  BY <1>2, <1>3, <1>5, Zenon
<1>7. PICK S \in Bad : Cardinality(S) = k
  BY <1>5 DEF Sizes
<1>8. \A T \in Bad : Cardinality(T) \in Sizes
  BY DEF Sizes
<1>9. QED BY <1>1, <1>2, <1>6, <1>7, <1>8

LEMMA LargestOfFinite ==
  ASSUME NEW S \in SUBSET Int, IsFiniteSet(S), S # {}
  PROVE  \E m \in S : \A n \in S : n <= m
<1> DEFINE Has(T) == \E m \in T : \A n \in T : n <= m
           Bad == {T \in SUBSET Int : IsFiniteSet(T) /\ T # {} /\ ~ Has(T)}
<1>1. SUFFICES ASSUME Bad # {} PROVE FALSE
  BY <1>1
<1>2. PICK T \in Bad : \A U \in Bad : Cardinality(T) <= Cardinality(U)
  BY <1>1, SmallestOfSets
<1>3. PICK x \in T : TRUE
  BY <1>2
<1> DEFINE U == T \ {x}
<1>4. IsFiniteSet(U) /\ Cardinality(U) = Cardinality(T) - 1 /\ Cardinality(T) \in Nat
  BY <1>2, <1>3, FS_RemoveElement, FS_CardinalityType
<1>5. U \notin Bad
  <2> HIDE DEF Bad, U
  <2>1. SUFFICES ASSUME U \in Bad PROVE FALSE
    OBVIOUS
  <2>2. Cardinality(T) <= Cardinality(U)
    BY <1>2, <2>1
  <2>3. QED BY <2>2, <1>4
<1>6. CASE U = {}
  <2>1. T = {x} /\ x \in Int
    BY <1>2, <1>3, <1>6
  <2>2. \A n \in T : n <= x
    BY <2>1
  <2>3. QED BY <2>1, <2>2, <1>2
<1>7. CASE U # {}
  <2>1. Has(U)
    BY <1>2, <1>4, <1>5, <1>7
  <2>2. PICK m \in U : \A n \in U : n <= m
    BY <2>1
  <2>3. m \in Int /\ x \in Int /\ m \in T /\ \A n \in T : n = x \/ n \in U
    BY <1>2, <1>3, <2>2
  <2>4. CASE x <= m
    <3>1. \A n \in T : n <= m
      BY <2>2, <2>3, <2>4
    <3>2. QED BY <3>1, <2>3, <1>2
  <2>5. CASE ~ (x <= m)
    <3>1. \A n \in T : n \in Int
      BY <1>2
    <3>2. \A n \in T : n <= x
      BY <2>2, <2>3, <2>5, <3>1
    <3>3. QED BY <3>2, <1>3, <1>2
  <2>6. QED BY <2>4, <2>5
<1>8. QED BY <1>6, <1>7

Ascends(s, S) == Range(s) = S /\ \A i, j \in DOMAIN s : i < j => s[i] < s[j]

LEMMA SortedExists ==
  ASSUME NEW S \in SUBSET Int, IsFiniteSet(S)
  PROVE  \E s \in [1..Cardinality(S) -> S] : Ascends(s, S)
<1> DEFINE Has(T) == \E s \in [1..Cardinality(T) -> T] : Ascends(s, T)
           Bad == {T \in SUBSET Int : IsFiniteSet(T) /\ ~ Has(T)}
<1>1. SUFFICES ASSUME Bad # {} PROVE FALSE
  BY <1>1
<1>2. PICK T \in Bad : \A U \in Bad : Cardinality(T) <= Cardinality(U)
  BY <1>1, SmallestOfSets
<1>3. CASE T = {}
  <2>1. Cardinality(T) = 0
    BY <1>3, FS_EmptySet
  <2>2. <<>> \in [1..Cardinality(T) -> T] /\ Ascends(<<>>, T)
    BY <1>3, <2>1 DEF Ascends, Range
  <2>3. QED BY <2>2, <1>2
<1>4. CASE T # {}
  <2>1. T \in SUBSET Int /\ IsFiniteSet(T) /\ ~ Has(T)
    BY <1>2
  <2>2. PICK m \in T : \A n \in T : n <= m
    BY <1>4, <2>1, LargestOfFinite
  <2> DEFINE U == T \ {m}
             k == Cardinality(U)
  <2>3. IsFiniteSet(U) /\ k = Cardinality(T) - 1 /\ Cardinality(T) \in Nat /\ k \in Nat
    BY <2>1, <2>2, FS_RemoveElement, FS_CardinalityType
  <2>4. U \notin Bad
    <3> HIDE DEF Bad, U
    <3>1. SUFFICES ASSUME U \in Bad PROVE FALSE
      OBVIOUS
    <3>2. Cardinality(T) <= Cardinality(U)
      BY <1>2, <3>1
    <3>3. QED BY <3>2, <2>3 DEF k
  <2>5. PICK r \in [1..k -> U] : Ascends(r, U)
    BY <2>1, <2>3, <2>4
  <2> HIDE DEF k, Bad, Has
  <2> DEFINE s == [i \in 1..k + 1 |-> IF i <= k THEN r[i] ELSE m]
  <2>6. Cardinality(T) = k + 1
    BY <2>3
  <2>7. \A i \in 1..k + 1 : (i <= k /\ i \in 1..k /\ s[i] = r[i]) \/ (i = k + 1 /\ s[i] = m)
    BY <2>3
  <2>8. s \in [1..k + 1 -> T]
    BY <2>5, <2>2, <2>7
  <2>9. \A i \in 1..k : i \in 1..k + 1 /\ s[i] = r[i]
    BY <2>3
  <2>10. k + 1 \in 1..k + 1 /\ s[k + 1] = m
    BY <2>3
  <2> HIDE DEF s
  <2>11. Range(s) = T
    <3>1. \A x \in T : \E i \in 1..k + 1 : s[i] = x
      <4> SUFFICES ASSUME NEW x \in T PROVE \E i \in 1..k + 1 : s[i] = x
        OBVIOUS
      <4>1. CASE x = m
        BY <4>1, <2>10
      <4>2. CASE x # m
        <5>1. PICK i \in 1..k : r[i] = x
          BY <4>2, <2>5 DEF Ascends, Range
        <5>2. QED BY <5>1, <2>9
      <4>3. QED BY <4>1, <4>2
    <3>2. QED BY <3>1, <2>8 DEF Range
  <2>12. \A i, j \in 1..k + 1 : i < j => s[i] < s[j]
    <3> SUFFICES ASSUME NEW i \in 1..k + 1, NEW j \in 1..k + 1, i < j PROVE s[i] < s[j]
      OBVIOUS
    <3>1. i \in 1..k /\ s[i] = r[i] /\ r[i] \in U
      BY <2>3, <2>5, <2>7
    <3>2. CASE j <= k
      BY <3>1, <3>2, <2>5, <2>7, <2>3 DEF Ascends
    <3>3. CASE j = k + 1
      <4>1. s[j] = m /\ s[i] # m /\ s[i] <= m /\ s[i] \in Int /\ m \in Int
        BY <3>1, <3>3, <2>1, <2>2, <2>10
      <4>2. QED BY <4>1
    <3>4. QED BY <3>2, <3>3, <2>3
  <2>13. s \in [1..Cardinality(T) -> T] /\ Ascends(s, T)
    BY <2>6, <2>8, <2>11, <2>12 DEF Ascends
  <2>14. QED BY <2>1, <2>13 DEF Has
<1>5. QED BY <1>3, <1>4

LEMMA SortedNames ==
  ASSUME NEW s \in Seq(Int)
  PROVE  sorted(Range(s)) \in Seq(Int) /\ Range(sorted(Range(s))) = Range(s)
<1> DEFINE S == Range(s)
           C == [1..Cardinality(S) -> S]
<1>1. S \in SUBSET Int
  BY RangeOfSeq
<1>2. IsFiniteSet(S)
  <2>1. IsFiniteSet(1..Len(s)) /\ S = {s[i] : i \in 1..Len(s)}
    BY FS_Interval, LenProperties, RangeEquality
  <2> HIDE DEF S
  <2>2. [i \in 1..Len(s) |-> s[i]] \in Surjection(1..Len(s), S)
    BY <2>1 DEF Surjection
  <2>3. QED BY <2>1, <2>2, FS_Surjection
<1> HIDE DEF S
<1>3. \E t \in C : Ascends(t, S)
  BY <1>1, <1>2, SortedExists
<1>4. sorted(S) = CHOOSE t \in C : Ascends(t, S)
  BY DEF sorted, Ascends
<1>5. sorted(S) \in C /\ Ascends(sorted(S), S)
  BY <1>3, <1>4
<1>6. Cardinality(S) \in Nat
  BY <1>2, FS_CardinalityType
<1>7. sorted(S) \in Seq(S)
  BY <1>5, <1>6
<1>8. sorted(S) \in Seq(Int)
  BY <1>1, <1>7, SeqMonotonic
<1>9. QED BY <1>5, <1>8 DEF S, Ascends

-----------------------------------------------------------------------------
(***************************************************************************)
(* The inductive invariant.  It says of the workflow that is compiled next *)
(* what EdgesConserved says, of the connections read so far that they are  *)
(* traced to what was read, and of the entries restored so far that they   *)
(* hold the beginning of what the document has.                            *)
(***************************************************************************)
TripNames == Range(source.names)
TripEntries == wf.entries

TracedTo(L, es, P) == \E org : Traced(L, org, es, P)

TripKept ==
  /\ source \in Workflows
  /\ wf.names \in Seq(Int) /\ Range(wf.names) = TripNames
  /\ IsEntries(TripNames, TripEntries)
  /\ \A f, t : \A p \in Nat : Targets(wf, f, t, p) = Targets(source, f, t, p)
  /\ Effective(wf.policy) = Effective(source.policy)
  /\ source.settings \notin {None, "{}"} => wf.settings = source.settings

ParseInv ==
  /\ cursor \in Cursors
  /\ TracedTo(connections, TripEntries, ReadBefore(TripEntries, cursor, TRUE))
  /\ TracedTo(ai_connections, TripEntries, ReadBefore(TripEntries, cursor, FALSE))

CloseInv ==
  /\ Len(ir) < Trips
  /\ TracedTo(connections, TripEntries, OfKind(TripEntries, TRUE))
  /\ TracedTo(ai_connections, TripEntries, OfKind(TripEntries, FALSE))
  /\ OfKind(TripEntries, TRUE) \cup OfKind(TripEntries, FALSE) = Places(TripEntries)
  /\ \A x \in OfKind(TripEntries, TRUE), y \in OfKind(TripEntries, FALSE) :
       Precedes(TripEntries, x, y)

RestoreInv ==
  /\ ir # <<>>
  /\ LET d == Last(ir)
     IN  /\ d.nodes = sorted(TripNames)
         /\ d.policy = error_policy(wf.policy)
         /\ d.settings = IF wf.settings = None THEN "{}" ELSE wf.settings
         /\ \E org : \E c \in 0..Len(d.connections) :
              /\ Traced(d.connections, org, TripEntries, Places(TripEntries))
              /\ Len(pending) = Len(d.connections) - c
              /\ pending \in Seq(Range(d.connections))
              /\ \A i \in 1..Len(pending) : pending[i] = d.connections[c + i]
              /\ Restoring(org, c, TripEntries, restored)

TripInv ==
  /\ TripKept
  /\ ir \in Seq(Range(ir)) /\ Len(ir) <= Trips
  /\ IsEntries(TripNames, restored)
  /\ trip_pc \in {"parse", "close", "restore"}
  /\ trip_pc = "parse" => ParseInv
  /\ trip_pc = "close" => CloseInv
  /\ trip_pc = "restore" => RestoreInv

LEMMA TripKeptStays ==
  ASSUME TripKept, source' = source, wf' = wf
  PROVE  TripKept'
BY DEF TripKept, TripNames, TripEntries, Targets

LEMMA WorkflowEntries ==
  ASSUME source \in Workflows
  PROVE  /\ source.names \in Seq(Int) /\ Exit \notin TripNames
         /\ IsEntries(TripNames, source.entries)
BY DecompileAssumption DEF TripNames, IsEntries

LEMMA StartOfParse ==
  ASSUME NEW N, NEW es, IsEntries(N, es)
  PROVE  Start \in Cursors /\ \A m : TracedTo(<<>>, es, ReadBefore(es, Start, m))
<1>1. Start \in Cursors
  BY DEF Start, Cursors
<1>2. \E org : Traced(<<>>, org, es, {})
  BY TracedEmpty
<1>3. \A m : ReadBefore(es, Start, m) = {}
  BY ReadNothing
<1>4. QED BY <1>1, <1>2, <1>3 DEF TracedTo

LEMMA TripInitInv == TripInit => TripInv
<1> SUFFICES ASSUME TripInit PROVE TripInv
  OBVIOUS
<1>1. /\ source \in Workflows /\ wf = source /\ ir = <<>> /\ restored = <<>> /\ trip_pc = "parse"
      /\ cursor = Start /\ connections = <<>> /\ ai_connections = <<>>
  BY DEF TripInit
<1>2. /\ source.names \in Seq(Int)
      /\ IsEntries(TripNames, TripEntries)
  BY <1>1, WorkflowEntries DEF TripEntries
<1>3. TripKept
  BY <1>1, <1>2 DEF TripKept, TripNames, TripEntries
<1>4. ParseInv
  BY <1>1, <1>2, StartOfParse DEF ParseInv
<1>5. IsEntries(TripNames, restored)
  BY <1>1, <1>2, RestoringStarts
<1>6. ir \in Seq(Range(ir)) /\ Len(ir) = 0
  BY <1>1
<1>7. QED BY <1>1, <1>3, <1>4, <1>5, <1>6, DecompileAssumption DEF TripInv

LEMMA ReadPortStep ==
  ASSUME TripInv, ReadPort
  PROVE  TripInv'
<1> DEFINE es == TripEntries
           i == cursor.entry
           p == cursor.port
           read == PortConnections(es[i], p)
           here == PortPlaces(es, i, p)
<1>1. /\ trip_pc = "parse" /\ Len(ir) < Trips
      /\ i \in DOMAIN es /\ p \in DOMAIN es[i].ports
      /\ connections' = IF es[i].type = "main" THEN connections \o read ELSE connections
      /\ ai_connections' = IF es[i].type = "main" THEN ai_connections ELSE ai_connections \o read
      /\ cursor' = [cursor EXCEPT !.port = @ + 1]
      /\ UNCHANGED <<source, wf, ir, restored, trip_pc>>
  BY DEF ReadPort, Reading, TripEntries
<1>2. TripKept /\ IsEntries(TripNames, es) /\ ParseInv
  BY <1>1 DEF TripInv, TripKept
<1>3. TripKept' /\ TripNames' = TripNames /\ TripEntries' = es
  BY <1>1, <1>2, TripKeptStays DEF TripNames, TripEntries
<1>4. cursor \in Cursors /\ cursor' \in Cursors /\ cursor'.entry = i /\ cursor'.port = p + 1
  BY <1>1, <1>2 DEF ParseInv, Cursors
<1>5. \E org : Traced(read, org, es, here)
  BY <1>1, <1>2, TracedPort
<1> DEFINE old(m) == ReadBefore(es, cursor, m)
           new(m) == ReadBefore(es, cursor', m)
<1>6. \A m \in BOOLEAN :
        /\ new(m) = IF (es[i].type = "main") <=> m THEN old(m) \cup here ELSE old(m)
        /\ ((es[i].type = "main") <=> m) => \A x \in old(m), y \in here : Precedes(es, x, y)
  <2> SUFFICES ASSUME NEW m \in BOOLEAN
               PROVE  /\ new(m) = IF (es[i].type = "main") <=> m THEN old(m) \cup here ELSE old(m)
                      /\ ((es[i].type = "main") <=> m) =>
                           \A x \in old(m), y \in here : Precedes(es, x, y)
    OBVIOUS
  <2> DEFINE cur == cursor
             next == cursor'
  <2>1. /\ IsEntries(TripNames, es) /\ cur \in Cursors /\ next \in Cursors
        /\ cur.entry \in DOMAIN es /\ cur.port \in DOMAIN es[cur.entry].ports
        /\ next.entry = cur.entry /\ next.port = cur.port + 1
    BY <1>1, <1>2, <1>4
  <2> HIDE DEF es, cur, next
  <2>2. /\ ReadBefore(es, next, m) =
             IF (es[cur.entry].type = "main") <=> m
             THEN ReadBefore(es, cur, m) \cup PortPlaces(es, cur.entry, cur.port)
             ELSE ReadBefore(es, cur, m)
        /\ ((es[cur.entry].type = "main") <=> m) =>
             \A x \in ReadBefore(es, cur, m), y \in PortPlaces(es, cur.entry, cur.port) :
               Precedes(es, x, y)
    BY <2>1, ReadOnePort
  <2>3. QED BY <2>2 DEF cur, next
<1>7. Nowhere \notin here /\ \A m : Nowhere \notin old(m)
  BY <1>2, PlaceNumbers DEF PortPlaces, ReadBefore, OfKind
<1>8. /\ \E org : Traced(connections, org, es, old(TRUE))
      /\ \E org : Traced(ai_connections, org, es, old(FALSE))
  BY <1>2 DEF ParseInv, TracedTo
<1> HIDE DEF es, read, here, old, new, i, p
<1>9. CASE es[i].type = "main"
  <2>1. /\ connections' = connections \o read /\ ai_connections' = ai_connections
        /\ new(TRUE) = old(TRUE) \cup here /\ new(FALSE) = old(FALSE)
        /\ \A x \in old(TRUE), y \in here : Precedes(es, x, y)
    BY <1>1, <1>6, <1>9
  <2>2. \E org : Traced(connections \o read, org, es, old(TRUE) \cup here)
    BY <2>1, <1>5, <1>7, <1>8, TracedConcat
  <2>3. QED BY <2>1, <2>2, <1>1, <1>2, <1>3, <1>4, <1>8
           DEF TripInv, ParseInv, TracedTo, new, es
<1>10. CASE es[i].type # "main"
  <2>1. /\ connections' = connections /\ ai_connections' = ai_connections \o read
        /\ new(FALSE) = old(FALSE) \cup here /\ new(TRUE) = old(TRUE)
        /\ \A x \in old(FALSE), y \in here : Precedes(es, x, y)
    BY <1>1, <1>6, <1>10
  <2>2. \E org : Traced(ai_connections \o read, org, es, old(FALSE) \cup here)
    BY <2>1, <1>5, <1>7, <1>8, TracedConcat
  <2>3. QED BY <2>1, <2>2, <1>1, <1>2, <1>3, <1>4, <1>8
           DEF TripInv, ParseInv, TracedTo, new, es
<1>11. QED BY <1>9, <1>10

LEMMA NextEntryStep ==
  ASSUME TripInv, NextEntry
  PROVE  TripInv'
<1> DEFINE es == TripEntries
<1>1. /\ trip_pc = "parse"
      /\ cursor.entry \in DOMAIN es /\ cursor.port \notin DOMAIN es[cursor.entry].ports
      /\ cursor' = [entry |-> cursor.entry + 1, port |-> 1]
      /\ UNCHANGED <<source, wf, connections, ai_connections, ir, restored, trip_pc>>
  BY DEF NextEntry, Reading, TripEntries
<1>2. TripKept /\ IsEntries(TripNames, es) /\ ParseInv
  BY <1>1 DEF TripInv, TripKept
<1>3. TripKept' /\ TripNames' = TripNames /\ TripEntries' = es
  BY <1>1, <1>2, TripKeptStays DEF TripNames, TripEntries
<1>4. cursor \in Cursors /\ cursor' \in Cursors
  BY <1>1, <1>2 DEF ParseInv, Cursors
<1> HIDE DEF es
<1>5. \A m : ReadBefore(es, cursor', m) = ReadBefore(es, cursor, m)
  BY <1>1, <1>2, <1>4, ReadEntry
<1>6. ParseInv'
  BY <1>1, <1>2, <1>3, <1>4, <1>5 DEF ParseInv, TracedTo, es
<1>7. QED BY <1>1, <1>3, <1>6 DEF TripInv

LEMMA FindTerminalsStep ==
  ASSUME TripInv, FindTerminals
  PROVE  TripInv'
<1> DEFINE es == TripEntries
<1>1. /\ trip_pc = "parse" /\ Len(ir) < Trips /\ cursor.entry \notin DOMAIN es /\ trip_pc' = "close"
      /\ UNCHANGED <<source, wf, connections, ai_connections, ir, restored>>
  BY DEF FindTerminals, Reading, TripEntries
<1>2. TripKept /\ IsEntries(TripNames, es) /\ ParseInv /\ cursor \in Cursors
  BY <1>1 DEF TripInv, TripKept, ParseInv
<1>3. TripKept' /\ TripNames' = TripNames /\ TripEntries' = es
  BY <1>1, <1>2, TripKeptStays DEF TripNames, TripEntries
<1> HIDE DEF es
<1>4. /\ \A m : ReadBefore(es, cursor, m) = OfKind(es, m)
      /\ OfKind(es, TRUE) \cup OfKind(es, FALSE) = Places(es)
      /\ \A x \in OfKind(es, TRUE), y \in OfKind(es, FALSE) : Precedes(es, x, y)
  BY <1>1, <1>2, ReadAll
<1>5. CloseInv'
  BY <1>1, <1>2, <1>3, <1>4 DEF CloseInv, ParseInv, TracedTo, es
<1>6. QED BY <1>1, <1>3, <1>5 DEF TripInv

LEMMA CloseOneStep ==
  ASSUME TripInv, CloseOne
  PROVE  TripInv'
<1> DEFINE es == TripEntries
           P == OfKind(es, TRUE)
           exits == ExitConnections(Head(terminals))
<1>1. /\ trip_pc = "close" /\ connections' = connections \o exits
      /\ UNCHANGED <<source, wf, ai_connections, ir, restored, trip_pc>>
  BY DEF CloseOne
<1>2. TripKept /\ IsEntries(TripNames, es) /\ CloseInv
  BY <1>1 DEF TripInv, TripKept
<1>3. TripKept' /\ TripNames' = TripNames /\ TripEntries' = es
  BY <1>1, <1>2, TripKeptStays DEF TripNames, TripEntries
<1>4. /\ \E org : Traced(connections, org, es, P)
      /\ \E org : Traced(exits, org, es, {})
      /\ Nowhere \notin P
  BY <1>2, TracedExit, PlaceNumbers DEF CloseInv, TracedTo, OfKind
<1> HIDE DEF es, P, exits
<1>5. \E org : Traced(connections \o exits, org, es, P \cup {})
  BY <1>4, TracedConcat
<1>6. P \cup {} = P
  OBVIOUS
<1>7. CloseInv'
  BY <1>1, <1>2, <1>3, <1>5, <1>6 DEF CloseInv, TracedTo, es, P
<1>8. QED BY <1>1, <1>3, <1>7 DEF TripInv

LEMMA CompileStep ==
  ASSUME TripInv, Compile
  PROVE  TripInv'
<1> DEFINE es == TripEntries
           d == document
           L == connections \o ai_connections
<1>1. /\ trip_pc = "close" /\ trip_pc' = "restore"
      /\ ir' = Append(ir, d) /\ pending' = d.connections /\ restored' = <<>>
      /\ UNCHANGED <<source, wf>>
  BY DEF Compile
<1>2. TripKept /\ IsEntries(TripNames, es) /\ CloseInv /\ ir \in Seq(Range(ir))
  BY <1>1 DEF TripInv, TripKept
<1>3. TripKept' /\ TripNames' = TripNames /\ TripEntries' = es
  BY <1>1, <1>2, TripKeptStays DEF TripNames, TripEntries
<1>4. /\ d.nodes = sorted(TripNames) /\ d.connections = L /\ d.policy = error_policy(wf.policy)
      /\ d.settings = IF wf.settings = None THEN "{}" ELSE wf.settings
  BY <1>2 DEF document, TripKept
<1>5. \E org : Traced(L, org, es, Places(es))
  <2> DEFINE P == OfKind(es, TRUE)
             Q == OfKind(es, FALSE)
  <2>1. /\ \E org : Traced(connections, org, es, P)
        /\ \E org : Traced(ai_connections, org, es, Q)
        /\ Nowhere \notin P /\ Nowhere \notin Q
        /\ \A x \in P, y \in Q : Precedes(es, x, y)
        /\ P \cup Q = Places(es)
    BY <1>2, PlaceNumbers DEF CloseInv, TracedTo, OfKind
  <2> HIDE DEF es, P, Q
  <2>2. \E org : Traced(connections \o ai_connections, org, es, P \cup Q)
    BY <2>1, TracedConcat
  <2>3. QED BY <2>1, <2>2
<1> HIDE DEF es, d, L
<1>6. /\ ir' \in Seq(Range(ir')) /\ ir' # <<>> /\ Len(ir') = Len(ir) + 1 /\ Last(ir') = d
      /\ Len(ir) \in Nat
  <2>1. ir \in Seq(Range(ir) \cup {d}) /\ d \in Range(ir) \cup {d}
    <3>1. Range(ir) \subseteq Range(ir) \cup {d}
      OBVIOUS
    <3>2. QED BY <3>1, <1>2, SeqMonotonic
  <2>2. /\ ir' \in Seq(Range(ir) \cup {d}) /\ ir' # <<>> /\ Len(ir') = Len(ir) + 1
        /\ ir'[Len(ir) + 1] = d
    BY <2>1, <1>1, AppendProperties
  <2>3. ir' \in Seq(Range(ir'))
    BY <2>2, SeqOfItsRange
  <2>4. QED BY <2>2, <2>3, <1>2 DEF Last
<1>7. IsEntries(TripNames, <<>>) /\ \A org : Restoring(org, 0, es, <<>>)
  BY <1>2, RestoringStarts
<1>8. RestoreInv'
  <2>1. PICK org : Traced(L, org, es, Places(es))
    BY <1>5
  <2>2. L \in Seq(Range(L)) /\ Len(L) \in Nat /\ \A i \in 1..Len(L) : 0 + i = i
    BY <2>1 DEF Traced
  <2>3. \E o : \E c \in 0..Len(L) :
          /\ Traced(L, o, es, Places(es))
          /\ Len(pending') = Len(L) - c
          /\ pending' \in Seq(Range(L))
          /\ \A i \in 1..Len(pending') : pending'[i] = L[c + i]
          /\ Restoring(o, c, es, restored')
    <3>1. /\ 0 \in 0..Len(L) /\ pending' = L /\ Len(L) = Len(L) - 0
          /\ \A i \in 1..Len(L) : L[i] = L[0 + i]
      <4>1. pending' = L
        BY <1>1, <1>4
      <4>2. 0 \in 0..Len(L) /\ Len(L) = Len(L) - 0
        BY <2>2
      <4>3. \A i \in 1..Len(L) : L[i] = L[0 + i]
        BY <2>2
      <4>4. QED BY <4>1, <4>2, <4>3
    <3>2. Restoring(org, 0, es, restored')
      BY <1>1, <1>7
    <3>3. QED BY <3>1, <3>2, <2>1, <2>2
  <2>4. /\ Last(ir').nodes = sorted(TripNames) /\ Last(ir').connections = L
        /\ Last(ir').policy = error_policy(wf'.policy)
        /\ Last(ir').settings = IF wf'.settings = None THEN "{}" ELSE wf'.settings
    BY <1>1, <1>4, <1>6
  <2>5. QED BY <2>3, <2>4, <1>3, <1>6 DEF RestoreInv
<1>9. Len(ir') <= Trips
  BY <1>2, <1>6, DecompileAssumption DEF CloseInv
<1>10. QED BY <1>1, <1>3, <1>6, <1>7, <1>8, <1>9 DEF TripInv

LEMMA RestoreOneStep ==
  ASSUME TripInv, RestoreOne
  PROVE  TripInv'
<1> DEFINE es == TripEntries
           L == Last(ir).connections
           con == Head(pending)
<1>1. /\ trip_pc = "restore" /\ pending # <<>> /\ pending' = Tail(pending)
      /\ restored' = IF con.to_node = Exit THEN restored ELSE WithEdge(con)
      /\ UNCHANGED <<source, wf, ir, trip_pc>>
  BY DEF RestoreOne, WithEdge
<1>2. /\ TripKept /\ IsEntries(TripNames, es) /\ RestoreInv /\ IsEntries(TripNames, restored)
      /\ Exit \notin TripNames
  BY <1>1, WorkflowEntries DEF TripInv, TripKept
<1>3. TripKept' /\ TripNames' = TripNames /\ TripEntries' = es
  BY <1>1, <1>2, TripKeptStays DEF TripNames, TripEntries
<1>4. PICK org : \E c \in 0..Len(L) :
              /\ Traced(L, org, es, Places(es))
              /\ Len(pending) = Len(L) - c
              /\ pending \in Seq(Range(L))
              /\ \A i \in 1..Len(pending) : pending[i] = L[c + i]
              /\ Restoring(org, c, es, restored)
  BY <1>2 DEF RestoreInv
<1>5. PICK c \in 0..Len(L) :
              /\ Traced(L, org, es, Places(es))
              /\ Len(pending) = Len(L) - c
              /\ pending \in Seq(Range(L))
              /\ \A i \in 1..Len(pending) : pending[i] = L[c + i]
              /\ Restoring(org, c, es, restored)
  BY <1>4
<1> HIDE DEF es, L, con
<1>6. Len(L) \in Nat
  BY <1>5 DEF Traced
<1>7. /\ Len(pending) \in Nat /\ Len(pending) > 0
      /\ Tail(pending) \in Seq(Range(L)) /\ Len(Tail(pending)) = Len(pending) - 1
      /\ \A i \in 1..Len(Tail(pending)) : Tail(pending)[i] = pending[i + 1]
      /\ con = pending[1]
  <2>1. /\ Tail(pending) \in Seq(Range(L)) /\ Len(Tail(pending)) = Len(pending) - 1
        /\ \A i \in 1..Len(Tail(pending)) : Tail(pending)[i] = pending[i + 1]
    BY <1>1, <1>5, HeadTailProperties
  <2>2. Len(pending) \in Nat /\ Len(pending) > 0
    BY <1>1, <1>5
  <2>3. con = pending[1]
    BY <1>1, <1>5 DEF con
  <2>4. QED BY <2>1, <2>2, <2>3
<1>8. c \in Nat /\ c + 1 \in 1..Len(L) /\ con = L[c + 1]
  <2>1. c \in Nat /\ c + 1 \in 1..Len(L) /\ 1 \in 1..Len(pending)
    BY <1>5, <1>6, <1>7
  <2>2. QED BY <2>1, <1>5, <1>7
<1>9. /\ con.to_node = Exit => Restoring(org, c + 1, es, restored)
      /\ con.to_node # Exit => /\ IsEntries(TripNames, WithEdge(con))
                               /\ Restoring(org, c + 1, es, WithEdge(con))
  BY <1>2, <1>5, <1>8, RestoreNext
<1>10. IsEntries(TripNames, restored') /\ Restoring(org, c + 1, es, restored')
  BY <1>1, <1>2, <1>9
<1>11. /\ c + 1 \in 0..Len(L) /\ Len(pending') = Len(L) - (c + 1) /\ pending' \in Seq(Range(L))
       /\ \A i \in 1..Len(pending') : pending'[i] = L[(c + 1) + i]
  <2>1. /\ c + 1 \in 0..Len(L) /\ Len(pending') = Len(L) - (c + 1) /\ pending' \in Seq(Range(L))
    BY <1>1, <1>5, <1>6, <1>7, <1>8
  <2>2. ASSUME NEW i \in 1..Len(pending') PROVE pending'[i] = L[(c + 1) + i]
    <3>1. pending'[i] = pending[i + 1] /\ i + 1 \in 1..Len(pending)
      BY <1>1, <1>7
    <3>2. c + (i + 1) = (c + 1) + i
      BY <1>8
    <3>3. QED BY <3>1, <3>2, <1>5
  <2>3. QED BY <2>1, <2>2
<1>12. RestoreInv'
  <2>1. \E o : \E k \in 0..Len(L) :
          /\ Traced(L, o, es, Places(es))
          /\ Len(pending') = Len(L) - k
          /\ pending' \in Seq(Range(L))
          /\ \A i \in 1..Len(pending') : pending'[i] = L[k + i]
          /\ Restoring(o, k, es, restored')
    BY <1>5, <1>10, <1>11
  <2>2. ir' = ir /\ Last(ir') = Last(ir) /\ wf' = wf
    BY <1>1
  <2>3. QED BY <2>1, <2>2, <1>2, <1>3 DEF RestoreInv, L
<1>13. QED BY <1>1, <1>3, <1>10, <1>12 DEF TripInv

LEMMA PolicyComesBack ==
  ASSUME NEW raw
  PROVE  Effective(restore_policy(error_policy(raw))) = Effective(raw)
<1> DEFINE p == error_policy(raw)
           r == restore_policy(p)
<1>1. /\ p.on_error = IF raw.onError \in {"continue", "stop"} THEN raw.onError ELSE "stop"
      /\ p.retry = raw.retry /\ p.tries = IF raw.retry THEN raw.tries ELSE None
  BY DEF error_policy
<1>2. /\ r.onError = IF p.on_error = "stop" THEN None ELSE p.on_error
      /\ r.retry = p.retry /\ r.tries = IF p.retry THEN p.tries ELSE None
  BY DEF restore_policy
<1>3. error_policy(r).on_error = IF r.onError \in {"continue", "stop"} THEN r.onError ELSE "stop"
  BY DEF error_policy
<1> HIDE DEF p, r
<1>4. error_policy(r).on_error = p.on_error
  BY <1>1, <1>2, <1>3, DecompileAssumption
<1>5. (IF r.retry THEN r.tries ELSE 0) = (IF raw.retry THEN raw.tries ELSE 0)
  BY <1>1, <1>2
<1>6. QED BY <1>4, <1>5 DEF Effective, p, r

LEMMA RestoredStep ==
  ASSUME TripInv, Restored
  PROVE  TripInv'
<1> DEFINE es == TripEntries
           d == Last(ir)
           L == d.connections
<1>1. /\ trip_pc = "restore" /\ pending = <<>> /\ trip_pc' = "parse"
      /\ wf' = [names    |-> d.nodes,
                entries  |-> restored,
                policy   |-> restore_policy(d.policy),
                settings |-> IF d.settings = "{}" THEN "v1" ELSE d.settings]
      /\ cursor' = Start /\ connections' = <<>> /\ ai_connections' = <<>>
      /\ UNCHANGED <<source, ir, restored>>
  BY DEF Restored
<1>2. /\ TripKept /\ IsEntries(TripNames, es) /\ RestoreInv /\ IsEntries(TripNames, restored)
  BY <1>1 DEF TripInv, TripKept
<1>3. /\ d.nodes = sorted(TripNames) /\ d.policy = error_policy(wf.policy)
      /\ d.settings = IF wf.settings = None THEN "{}" ELSE wf.settings
  BY <1>2 DEF RestoreInv
<1>4. PICK org : \E c \in 0..Len(L) :
              /\ Traced(L, org, es, Places(es))
              /\ Len(pending) = Len(L) - c
              /\ Restoring(org, c, es, restored)
  BY <1>2 DEF RestoreInv
<1>5. PICK c \in 0..Len(L) :
              /\ Traced(L, org, es, Places(es))
              /\ Len(pending) = Len(L) - c
              /\ Restoring(org, c, es, restored)
  BY <1>4
<1>6. wf'.names = d.nodes /\ wf'.entries = restored /\ wf'.policy = restore_policy(d.policy)
      /\ wf'.settings = IF d.settings = "{}" THEN "v1" ELSE d.settings
  BY <1>1
<1> HIDE DEF es, L, d
<1>7. c = Len(L)
  <2>1. Len(L) \in Nat
    <3>1. L \in Seq(Range(L))
      BY <1>5 DEF Traced
    <3>2. QED BY <3>1
  <2>2. Len(pending) = 0
    BY <1>1
  <2>3. QED BY <2>1, <2>2, <1>5
<1>8. \A f, t : \A p \in Nat : TargetsIn(restored, f, t, p) = TargetsIn(es, f, t, p)
  BY <1>2, <1>5, <1>7, RestoredAll
<1>9. /\ source \in Workflows /\ source' = source
      /\ wf.names \in Seq(Int) /\ Range(wf.names) = TripNames
      /\ \A f, t : \A p \in Nat : Targets(wf, f, t, p) = Targets(source, f, t, p)
      /\ Effective(wf.policy) = Effective(source.policy)
      /\ source.settings \notin {None, "{}"} => wf.settings = source.settings
  BY <1>1, <1>2 DEF TripKept
<1>10. TripNames' = TripNames /\ TripEntries' = restored
  BY <1>6, <1>9 DEF TripNames, TripEntries
<1>11. wf'.names \in Seq(Int) /\ Range(wf'.names) = TripNames
  BY <1>3, <1>6, <1>9, SortedNames
<1>12. \A f, t : \A p \in Nat : Targets(wf', f, t, p) = Targets(source, f, t, p)
  BY <1>6, <1>8, <1>9 DEF Targets, es, TripEntries
<1>13. Effective(wf'.policy) = Effective(source.policy)
  BY <1>3, <1>6, <1>9, PolicyComesBack
<1>14. source.settings \notin {None, "{}"} => wf'.settings = source.settings
  BY <1>3, <1>6, <1>9
<1>15. TripKept'
  BY <1>2, <1>9, <1>10, <1>11, <1>12, <1>13, <1>14, <1>1 DEF TripKept
<1>16. ParseInv'
  BY <1>1, <1>2, <1>10, StartOfParse DEF ParseInv
<1>17. QED BY <1>1, <1>2, <1>10, <1>15, <1>16 DEF TripInv

LEMMA TripStepInv == TripInv /\ [TripNext]_trip_vars => TripInv'
<1> SUFFICES ASSUME TripInv, [TripNext]_trip_vars PROVE TripInv'
  OBVIOUS
<1>1. CASE UNCHANGED trip_vars
  <2>1. /\ UNCHANGED <<source, wf, cursor, connections, ai_connections, ir, pending, restored, trip_pc>>
    BY <1>1 DEF trip_vars, parse_vars
  <2>2. TripKept' /\ TripNames' = TripNames /\ TripEntries' = TripEntries
    BY <2>1, TripKeptStays DEF TripInv, TripNames, TripEntries
  <2>3. ParseInv => ParseInv'
    BY <2>1, <2>2 DEF ParseInv, TracedTo
  <2>4. CloseInv => CloseInv'
    BY <2>1, <2>2 DEF CloseInv, TracedTo
  <2>5. RestoreInv => RestoreInv'
    BY <2>1, <2>2 DEF RestoreInv
  <2>6. QED BY <2>1, <2>2, <2>3, <2>4, <2>5 DEF TripInv
<1>2. QED BY <1>1, ReadPortStep, NextEntryStep, FindTerminalsStep, CloseOneStep, CompileStep,
             RestoreOneStep, RestoredStep DEF TripNext

(* The invariant holds in every state of a round trip, however many trips  *)
(* it makes.                                                               *)
THEOREM TripInvariance == TripSpec => []TripInv
<1>1. QED BY TripInitInv, TripStepInv, PTL DEF TripSpec

(* The workflow between two trips has the names of the given one.          *)
THEOREM TripTypes == TripSpec => []TripTypeOK
<1>1. TripInv => TripTypeOK
  <2> SUFFICES ASSUME TripInv PROVE TripTypeOK
    OBVIOUS
  <2>1. /\ TripKept /\ IsEntries(TripNames, wf.entries) /\ IsEntries(TripNames, restored)
    BY DEF TripInv, TripKept, TripEntries
  <2>2. \A e \in Range(wf.entries) : e.from \in TripNames
    BY <2>1, EntryIsRecord DEF Range
  <2>3. \A e, f \in Range(restored) : e.from = f.from /\ e.type = f.type => e = f
    BY <2>1 DEF IsEntries, Distinct, Range
  <2>4. QED BY <2>1, <2>2, <2>3 DEF TripTypeOK, TripInv, TripKept, TripNames
<1>2. QED BY <1>1, TripInvariance, PTL

(* Parsing, compiling and decompiling lose no edge, add none and keep the  *)
(* order of those of one port: for any workflow, its ports and parallel    *)
(* edges as many as there may be, and after any number of trips.  The      *)
(* error policy and given settings keep their meaning.                     *)
THEOREM EdgesAlwaysConserved == TripSpec => []EdgesConserved
<1>1. TripInv => EdgesConserved
  <2> SUFFICES ASSUME TripInv PROVE EdgesConserved
    OBVIOUS
  <2>1. /\ TripKept /\ IsEntries(TripNames, wf.entries) /\ IsEntries(TripNames, source.entries)
    BY WorkflowEntries DEF TripInv, TripKept, TripEntries
  <2>2. ASSUME NEW w, IsEntries(TripNames, w.entries), NEW o \in Outputs(w)
        PROVE  o[3] \in Nat
    <3>1. PICK i \in DOMAIN w.entries : \E p \in DOMAIN w.entries[i].ports :
            o = <<w.entries[i].from, w.entries[i].type, p>>
      BY <2>2 DEF Outputs, Range
    <3>2. PICK p \in DOMAIN w.entries[i].ports : o = <<w.entries[i].from, w.entries[i].type, p>>
      BY <3>1
    <3>3. p \in Nat
      BY <2>2, PlaceNumbers
    <3>4. QED BY <3>2, <3>3
  <2>3. \A o \in Outputs(source) \cup Outputs(wf) : o[3] \in Nat
    BY <2>1, <2>2
  <2>4. QED BY <2>1, <2>3 DEF EdgesConserved, TripKept
<1>2. QED BY <1>1, TripInvariance, PTL

-----------------------------------------------------------------------------
(***************************************************************************)
(* Lists that have the members of a set in the order of their places: for  *)
(* a set there is one such list.                                           *)
(***************************************************************************)
Enumerates(org, n, P) ==
  /\ \A i \in 1..n : org[i] \in P
  /\ \A x \in P : \E i \in 1..n : org[i] = x
  /\ \A i, j \in 1..n : i < j => Before(org[i], org[j])

InOrder(L, P, f) ==
  /\ L \in Seq(Range(L))
  /\ \E org : Enumerates(org, Len(L), P) /\ \A i \in 1..Len(L) : L[i] = f[org[i]]

LEMMA NotBoth ==
  ASSUME NEW x \in PlaceRecords, NEW y \in PlaceRecords, Before(x, y)
  PROVE  ~ Before(y, x) /\ x # y
BY DEF Before, PlaceRecords

LEMMA LeastOf ==
  ASSUME NEW S \in SUBSET Nat, S # {}
  PROVE  \E k \in S : \A n \in S : k <= n
<1> DEFINE R == OpToRel(<, Nat)
<1>1. \A m, n \in Nat : <<m, n>> \in R <=> m < n
  BY DEF OpToRel
<1>2. IsWellFoundedOn(R, Nat)
  BY NatLessThanWellFounded
<1> HIDE DEF R
<1>3. PICK k \in S : \A n \in S : <<n, k>> \notin R
  BY <1>2, WFMin
<1>4. \A n \in S : ~ (n < k)
  BY <1>1, <1>3, Zenon
<1>5. QED BY <1>4

LEMMA EnumerationsMeet ==
  ASSUME NEW P \in SUBSET PlaceRecords, NEW n \in Nat, NEW m \in Nat,
         NEW f, NEW g, Enumerates(f, n, P), Enumerates(g, m, P)
  PROVE  \A k \in 1..n : k <= m /\ f[k] = g[k]
<1> DEFINE Bad == {k \in 1..n : ~ (k <= m /\ f[k] = g[k])}
<1>1. SUFFICES ASSUME Bad # {} PROVE FALSE
  OBVIOUS
<1>2. PICK k \in Bad : \A h \in Bad : k <= h
  <2>1. Bad \in SUBSET Nat
    OBVIOUS
  <2> HIDE DEF Bad
  <2>2. QED BY <1>1, <2>1, LeastOf
<1>3. /\ \A i \in 1..n : f[i] \in PlaceRecords
      /\ \A i \in 1..m : g[i] \in PlaceRecords
      /\ \A i, j \in 1..n : i < j => Before(f[i], f[j])
      /\ \A i, j \in 1..m : i < j => Before(g[i], g[j])
      /\ \A x \in P : (\E i \in 1..n : f[i] = x) /\ (\E i \in 1..m : g[i] = x)
      /\ \A i \in 1..n : f[i] \in P
      /\ \A i \in 1..m : g[i] \in P
  BY DEF Enumerates
<1>4. /\ k \in 1..n /\ ~ (k <= m /\ f[k] = g[k])
      /\ \A h \in 1..n : h < k => h <= m /\ f[h] = g[h]
  BY <1>2
<1>5. PICK l \in 1..m : g[l] = f[k]
  BY <1>3, <1>4
<1>6. ~ (l < k)
  <2>1. SUFFICES ASSUME l < k PROVE FALSE
    OBVIOUS
  <2>2. l \in 1..n /\ f[l] = g[l]
    BY <2>1, <1>4
  <2>3. Before(f[l], f[k])
    BY <2>1, <2>2, <1>3, <1>4
  <2>4. QED BY <2>2, <2>3, <1>3, <1>4, <1>5, NotBoth
<1>7. l > k /\ k \in 1..m
  BY <1>4, <1>5, <1>6
<1>8. PICK h \in 1..n : f[h] = g[k]
  BY <1>3, <1>7
<1>9. ~ (h < k)
  <2>1. SUFFICES ASSUME h < k PROVE FALSE
    OBVIOUS
  <2>2. h \in 1..m /\ f[h] = g[h]
    BY <2>1, <1>4
  <2>3. Before(g[h], g[k])
    BY <2>1, <2>2, <1>3, <1>7
  <2>4. QED BY <2>2, <2>3, <1>3, <1>7, <1>8, NotBoth
<1>10. h > k
  BY <1>4, <1>7, <1>8, <1>9
<1>11. Before(f[k], g[k]) /\ Before(g[k], f[k])
  BY <1>3, <1>4, <1>5, <1>7, <1>8, <1>10
<1>12. QED BY <1>3, <1>4, <1>7, <1>11, NotBoth

LEMMA OneEnumeration ==
  ASSUME NEW P \in SUBSET PlaceRecords, NEW n \in Nat, NEW m \in Nat,
         NEW f, NEW g, Enumerates(f, n, P), Enumerates(g, m, P)
  PROVE  n = m /\ \A k \in 1..n : f[k] = g[k]
<1>1. \A k \in 1..n : k <= m /\ f[k] = g[k]
  BY EnumerationsMeet
<1>2. \A k \in 1..m : k <= n /\ g[k] = f[k]
  BY EnumerationsMeet
<1>3. n <= m /\ m <= n
  <2>1. n # 0 => n \in 1..n
    OBVIOUS
  <2>2. m # 0 => m \in 1..m
    OBVIOUS
  <2>3. QED BY <2>1, <2>2, <1>1, <1>2
<1>4. QED BY <1>1, <1>3

LEMMA OneInOrder ==
  ASSUME NEW P \in SUBSET PlaceRecords, NEW f, NEW L, NEW K, InOrder(L, P, f), InOrder(K, P, f)
  PROVE  L = K
<1>1. PICK lo : Enumerates(lo, Len(L), P) /\ \A i \in 1..Len(L) : L[i] = f[lo[i]]
  BY DEF InOrder
<1>2. PICK ko : Enumerates(ko, Len(K), P) /\ \A i \in 1..Len(K) : K[i] = f[ko[i]]
  BY DEF InOrder
<1>3. L \in Seq(Range(L)) /\ K \in Seq(Range(K)) /\ Len(L) \in Nat /\ Len(K) \in Nat
  BY DEF InOrder
<1>4. Len(L) = Len(K) /\ \A i \in 1..Len(L) : lo[i] = ko[i]
  BY <1>1, <1>2, <1>3, OneEnumeration
<1>5. \A i \in 1..Len(L) : L[i] = K[i]
  BY <1>1, <1>2, <1>4
<1>6. L \in Seq(Range(L) \cup Range(K)) /\ K \in Seq(Range(L) \cup Range(K))
  <2>1. Range(L) \subseteq Range(L) \cup Range(K) /\ Range(K) \subseteq Range(L) \cup Range(K)
    OBVIOUS
  <2>2. QED BY <2>1, <1>3, SeqMonotonic
<1>7. QED BY <1>4, <1>5, <1>6, SeqEqual

LEMMA InOrderEmpty ==
  ASSUME NEW f
  PROVE  InOrder(<<>>, {}, f)
<1>1. <<>> \in Seq(Range(<<>>)) /\ Len(<<>>) = 0
  OBVIOUS
<1>2. \A i \in 1..0 : FALSE
  OBVIOUS
<1>3. \A org : Enumerates(org, 0, {})
  BY <1>2 DEF Enumerates
<1>4. QED BY <1>1, <1>2, <1>3 DEF InOrder

LEMMA InOrderConcat ==
  ASSUME NEW f, NEW P, NEW Q, NEW s, NEW t, InOrder(s, P, f), InOrder(t, Q, f),
         \A x \in P, y \in Q : Before(x, y)
  PROVE  InOrder(s \o t, P \cup Q, f)
<1> DEFINE n == Len(s)
           m == Len(t)
           L == s \o t
<1>1. /\ L \in Seq(Range(L)) /\ Len(L) = n + m /\ n \in Nat /\ m \in Nat
      /\ \A i \in 1..n + m : L[i] = IF i <= n THEN s[i] ELSE t[i - n]
  <2>1. s \in Seq(Range(s)) /\ t \in Seq(Range(t))
    BY DEF InOrder
  <2>2. QED BY <2>1, ConcatOfRanges
<1>2. PICK so :
            /\ \A i \in 1..n : so[i] \in P
            /\ \A x \in P : \E i \in 1..n : so[i] = x
            /\ \A i, j \in 1..n : i < j => Before(so[i], so[j])
            /\ \A i \in 1..n : s[i] = f[so[i]]
  BY DEF InOrder, Enumerates
<1>3. PICK to :
            /\ \A i \in 1..m : to[i] \in Q
            /\ \A x \in Q : \E i \in 1..m : to[i] = x
            /\ \A i, j \in 1..m : i < j => Before(to[i], to[j])
            /\ \A i \in 1..m : t[i] = f[to[i]]
  BY DEF InOrder, Enumerates
<1> HIDE DEF n, m, L
<1> DEFINE org == [i \in 1..n + m |-> IF i <= n THEN so[i] ELSE to[i - n]]
<1>4. \A i \in 1..n + m : i <= n => /\ i \in 1..n /\ so[i] \in P
                                    /\ org[i] = so[i] /\ L[i] = s[i]
  BY <1>1, <1>2
<1>5. \A i \in 1..n + m : i > n => /\ i - n \in 1..m /\ to[i - n] \in Q
                                   /\ org[i] = to[i - n] /\ L[i] = t[i - n]
  BY <1>1, <1>3
<1>6. /\ \A i \in 1..n : i \in 1..n + m /\ i <= n
      /\ \A i \in 1..m : n + i \in 1..n + m /\ n + i > n /\ (n + i) - n = i
      /\ \A i \in 1..n + m : i <= n \/ i > n
  BY <1>1
<1> HIDE DEF org
<1>8. \A i \in 1..n + m : org[i] \in P \cup Q
  BY <1>4, <1>5, <1>6
<1>9. ASSUME NEW x \in P \cup Q PROVE \E i \in 1..n + m : org[i] = x
  <2>1. CASE x \in P
    BY <2>1, <1>2, <1>4, <1>6
  <2>2. CASE x \in Q
    <3>1. PICK i \in 1..m : to[i] = x
      BY <2>2, <1>3
    <3>2. n + i \in 1..n + m /\ org[n + i] = x
      BY <3>1, <1>5, <1>6
    <3>3. QED BY <3>2
  <2>3. QED BY <2>1, <2>2
<1>10. ASSUME NEW i \in 1..n + m PROVE L[i] = f[org[i]]
  <2>1. CASE i <= n
    BY <2>1, <1>2, <1>4
  <2>2. CASE i > n
    BY <2>2, <1>3, <1>5
  <2>3. QED BY <2>1, <2>2, <1>6
<1>11. ASSUME NEW i \in 1..n + m, NEW j \in 1..n + m, i < j
       PROVE  Before(org[i], org[j])
  <2>1. CASE j <= n
    BY <2>1, <1>11, <1>1, <1>2, <1>4
  <2>2. CASE i > n
    <3>1. /\ i - n \in 1..m /\ j - n \in 1..m /\ i - n < j - n
          /\ org[i] = to[i - n] /\ org[j] = to[j - n]
      BY <2>2, <1>1, <1>5, <1>11
    <3>2. QED BY <3>1, <1>3
  <2>3. CASE i <= n /\ j > n
    BY <2>3, <1>4, <1>5
  <2>4. QED BY <2>1, <2>2, <2>3, <1>6
<1>12. Enumerates(org, n + m, P \cup Q)
  BY <1>8, <1>9, <1>11 DEF Enumerates
<1>13. InOrder(L, P \cup Q, f)
  BY <1>1, <1>10, <1>12 DEF InOrder
<1>14. QED BY <1>13 DEF L

-----------------------------------------------------------------------------
(***************************************************************************)
(* The document of a workflow: its main connections in the order of its    *)
(* entries, ports and targets, those to the exit in the order of the       *)
(* nodes, the others.  There is one.                                       *)
(***************************************************************************)
AsRead(es) == [x \in PlaceRecords |-> ConnectionAt(es, x)]

Ways(n) == IF n \in Multi THEN 2 ELSE 1
ExitPlaces(T, t) ==
  {x \in PlaceRecords : x.entry \in 1..t /\ x.port \in 1..Ways(T[x.entry]) /\ x.place = 0}
ExitAt(T) == [x \in PlaceRecords |-> ExitConnections(T[x.entry])[x.port]]

Exits(X, T) == InOrder(X, ExitPlaces(T, Len(T)), ExitAt(T))

Lists(w, M, X, A) ==
  /\ InOrder(M, OfKind(w.entries, TRUE), AsRead(w.entries))
  /\ InOrder(A, OfKind(w.entries, FALSE), AsRead(w.entries))
  /\ Exits(X, Ends(w.names, M, A))

DocumentOf(w, cs) ==
  [nodes       |-> sorted(Range(w.names)),
   connections |-> cs,
   policy      |-> error_policy(w.policy),
   settings    |-> IF w.settings = None THEN "{}" ELSE w.settings]

Written(d, w) == \E M, X, A : Lists(w, M, X, A) /\ d = DocumentOf(w, (M \o X) \o A)

LEMMA PlacesAreRecords ==
  ASSUME NEW es, NEW m, NEW T, NEW t
  PROVE  OfKind(es, m) \in SUBSET PlaceRecords /\ ExitPlaces(T, t) \in SUBSET PlaceRecords
BY DEF OfKind, Places, ExitPlaces

LEMMA WrittenOnce ==
  ASSUME NEW w, NEW d, NEW e, Written(d, w), Written(e, w)
  PROVE  d = e
<1>1. PICK M, X, A : Lists(w, M, X, A) /\ d = DocumentOf(w, (M \o X) \o A)
  BY DEF Written
<1>2. PICK N, Y, B : Lists(w, N, Y, B) /\ e = DocumentOf(w, (N \o Y) \o B)
  BY DEF Written
<1>3. M = N /\ A = B
  <2>1. InOrder(M, OfKind(w.entries, TRUE), AsRead(w.entries)) /\ InOrder(N, OfKind(w.entries, TRUE), AsRead(w.entries))
    BY <1>1, <1>2 DEF Lists
  <2>2. InOrder(A, OfKind(w.entries, FALSE), AsRead(w.entries)) /\ InOrder(B, OfKind(w.entries, FALSE), AsRead(w.entries))
    BY <1>1, <1>2 DEF Lists
  <2>3. QED BY <2>1, <2>2, PlacesAreRecords, OneInOrder
<1>4. X = Y
  <2> DEFINE T == Ends(w.names, M, A)
  <2>1. Exits(X, T) /\ Exits(Y, T)
    BY <1>1, <1>2, <1>3 DEF Lists
  <2> HIDE DEF T
  <2>2. InOrder(X, ExitPlaces(T, Len(T)), ExitAt(T)) /\ InOrder(Y, ExitPlaces(T, Len(T)), ExitAt(T))
    BY <2>1 DEF Exits
  <2>3. QED BY <2>2, PlacesAreRecords, OneInOrder
<1>5. QED BY <1>1, <1>2, <1>3, <1>4

(* What parse_workflow makes of a port.                                    *)
LEMMA InOrderPort ==
  ASSUME NEW N, NEW es, IsEntries(N, es), NEW i \in DOMAIN es, NEW p \in DOMAIN es[i].ports
  PROVE  InOrder(PortConnections(es[i], p), PortPlaces(es, i, p), AsRead(es))
<1> DEFINE L == PortConnections(es[i], p)
           P == PortPlaces(es, i, p)
<1>1. PICK org : Traced(L, org, es, P)
  BY TracedPort
<1>2. /\ i \in Nat /\ p \in Nat /\ i # 0
      /\ \A x \in P : /\ x \in Places(es) /\ x \in PlaceRecords
                      /\ x.entry = i /\ x.port = p /\ x.place \in Nat
  BY PlaceNumbers DEF PortPlaces, Places, PlaceRecords
<1> DEFINE list == es[i].ports[p]
           n == Len(list)
           place == [k \in 1..n |-> [entry |-> i, port |-> p, place |-> k]]
<1>3. n \in Nat /\ DOMAIN list = 1..n /\ DOMAIN L = 1..n
  <2>1. es[i].ports \in PortLists(N)
    BY EntryIsRecord
  <2>2. list \in Seq(Edges(N))
    BY <2>1 DEF PortLists
  <2>3. QED BY <2>2 DEF PortConnections
<1>4. L \in Seq(Range(L)) /\ Len(L) = n
  <2>1. L \in Seq(Range(L))
    BY <1>1 DEF Traced
  <2> HIDE DEF L, n
  <2>2. QED BY <2>1, <1>3
<1>5. \A x \in PlaceRecords : x \in P <=> x.entry = i /\ x.port = p /\ x.place \in 1..n
  BY <1>2, <1>3 DEF PortPlaces, Places
<1>6. ASSUME NEW k \in 1..n
      PROVE  /\ place[k] \in PlaceRecords /\ place[k].entry = i /\ place[k].port = p /\ place[k].place = k
             /\ L[k] = AsRead(es)[place[k]]
  <2>1. /\ place[k] \in PlaceRecords /\ place[k].entry = i /\ place[k].port = p /\ place[k].place = k
    BY <1>2, <1>3 DEF PlaceRecords
  <2> HIDE DEF place
  <2>2. AsRead(es)[place[k]] = PortConnections(es[i], p)[k]
    BY <2>1 DEF AsRead, ConnectionAt
  <2>3. QED BY <2>1, <2>2
<1> HIDE DEF place, n, L, P, list
<1>7. Enumerates(place, n, P)
  <2>1. \A k \in 1..n : place[k] \in P
    BY <1>5, <1>6
  <2>2. ASSUME NEW x \in P PROVE \E k \in 1..n : place[k] = x
    <3>1. x \in PlaceRecords /\ x.entry = i /\ x.port = p /\ x.place \in 1..n
      BY <1>2, <1>5
    <3>2. /\ place[x.place] \in PlaceRecords
          /\ place[x.place].entry = i /\ place[x.place].port = p /\ place[x.place].place = x.place
      BY <3>1, <1>6
    <3>3. place[x.place] = x
      BY <3>1, <3>2 DEF PlaceRecords
    <3>4. QED BY <3>1, <3>3
  <2>3. \A k, l \in 1..n : k < l => Before(place[k], place[l])
    BY <1>3, <1>6 DEF Before
  <2>4. QED BY <2>1, <2>2, <2>3 DEF Enumerates
<1>8. InOrder(L, P, AsRead(es))
  BY <1>4, <1>6, <1>7 DEF InOrder
<1>9. QED BY <1>8 DEF L, P

LEMMA ReadIsBefore ==
  ASSUME NEW N, NEW es, IsEntries(N, es), NEW cur \in Cursors, NEW m,
         NEW x \in ReadBefore(es, cur, m), NEW y \in PortPlaces(es, cur.entry, cur.port)
  PROVE  Before(x, y)
<1>1. x \in PlaceRecords /\ y \in PlaceRecords /\ cur.entry \in Nat /\ cur.port \in Nat
  BY DEF ReadBefore, OfKind, Places, PortPlaces, Cursors
<1>2. /\ x.entry < cur.entry \/ (x.entry = cur.entry /\ x.port < cur.port)
      /\ y.entry = cur.entry /\ y.port = cur.port
  BY DEF ReadBefore, PortPlaces
<1>3. QED BY <1>1, <1>2 DEF Before

(* One more end of the main flow is led to the exit.                       *)
LEMMA OneMoreExit ==
  ASSUME NEW T, NEW t \in Nat, NEW X, InOrder(X, ExitPlaces(T, t), ExitAt(T))
  PROVE  InOrder(X \o ExitConnections(T[t + 1]), ExitPlaces(T, t + 1), ExitAt(T))
<1> DEFINE n == T[t + 1]
           L == ExitConnections(n)
           k == Ways(n)
           P == {x \in PlaceRecords : x.entry = t + 1 /\ x.port \in 1..k /\ x.place = 0}
           place == [i \in 1..k |-> [entry |-> t + 1, port |-> i, place |-> 0]]
<1>1. k \in Nat /\ DOMAIN L = 1..k
  BY DEF Ways, ExitConnections
<1>2. L \in Seq(Range(L)) /\ Len(L) = k
  <2>1. PICK org : Traced(L, org, {}, {})
    BY TracedExit
  <2>2. L \in Seq(Range(L))
    BY <2>1 DEF Traced
  <2> HIDE DEF L, k
  <2>3. QED BY <2>2, <1>1
<1>3. ASSUME NEW i \in 1..k
      PROVE  /\ place[i] \in PlaceRecords /\ place[i].entry = t + 1 /\ place[i].port = i /\ place[i].place = 0
             /\ place[i] \in P /\ L[i] = ExitAt(T)[place[i]]
  <2>1. place[i] \in PlaceRecords /\ place[i].entry = t + 1 /\ place[i].port = i /\ place[i].place = 0
    BY <1>1 DEF PlaceRecords
  <2> HIDE DEF place
  <2>2. ExitAt(T)[place[i]] = ExitConnections(T[t + 1])[i]
    BY <2>1 DEF ExitAt
  <2>3. QED BY <2>1, <2>2
<1>4. \A x \in P : x \in PlaceRecords /\ x.entry = t + 1 /\ x.port \in 1..k /\ x.place = 0
  OBVIOUS
<1>5. /\ ExitPlaces(T, t + 1) = ExitPlaces(T, t) \cup P
      /\ \A x \in ExitPlaces(T, t), y \in P : Before(x, y)
  <2>1. \A e : e \in 1..t + 1 <=> e \in 1..t \/ e = t + 1
    OBVIOUS
  <2>2. \A x : x \in ExitPlaces(T, t + 1) <=> x \in ExitPlaces(T, t) \/ x \in P
    BY <2>1 DEF ExitPlaces
  <2>3. \A x \in ExitPlaces(T, t) : x.entry < t + 1
    BY DEF ExitPlaces
  <2>4. QED BY <2>2, <2>3, <1>4 DEF Before
<1> HIDE DEF place, k, L, P, n
<1>6. Enumerates(place, k, P)
  <2>1. ASSUME NEW x \in P PROVE \E i \in 1..k : place[i] = x
    <3>1. x.port \in 1..k /\ place[x.port] = x
      BY <1>3, <1>4 DEF PlaceRecords
    <3>2. QED BY <3>1
  <2>2. \A i, j \in 1..k : i < j => Before(place[i], place[j])
    BY <1>1, <1>3 DEF Before
  <2>3. QED BY <2>1, <2>2, <1>3 DEF Enumerates
<1>7. InOrder(L, P, ExitAt(T))
  BY <1>2, <1>3, <1>6 DEF InOrder
<1>8. InOrder(X \o L, ExitPlaces(T, t) \cup P, ExitAt(T))
  BY <1>5, <1>7, InOrderConcat
<1>9. QED BY <1>5, <1>8 DEF L, n

LEMMA NoExits ==
  ASSUME NEW T
  PROVE  InOrder(<<>>, ExitPlaces(T, 0), ExitAt(T))
<1>1. ExitPlaces(T, 0) = {}
  BY DEF ExitPlaces
<1>2. QED BY <1>1, InOrderEmpty

LEMMA EndsAreList ==
  ASSUME NEW names \in Seq(Int), NEW main, NEW ai
  PROVE  Ends(names, main, ai) \in Seq(Int)
<1> DEFINE S == {i \in DOMAIN names : terminal(names[i], main, ai)}
           place == sorted(S)
           C == [1..Cardinality(S) -> S]
<1>1. S \in SUBSET Int /\ IsFiniteSet(S)
  <2>1. DOMAIN names = 1..Len(names) /\ Len(names) \in Nat /\ S \subseteq 1..Len(names)
    OBVIOUS
  <2> HIDE DEF S
  <2>2. IsFiniteSet(1..Len(names))
    BY <2>1, FS_Interval
  <2>3. IsFiniteSet(S)
    BY <2>1, <2>2, FS_Subset
  <2>4. QED BY <2>1, <2>3
<1>2. \A i \in S : names[i] \in Int
  OBVIOUS
<1>3. Ends(names, main, ai) = [k \in DOMAIN place |-> names[place[k]]]
  BY DEF Ends
<1> HIDE DEF S
<1>4. \E s \in C : Ascends(s, S)
  BY <1>1, SortedExists
<1>5. place = CHOOSE s \in C : Ascends(s, S)
  BY DEF sorted, Ascends
<1>6. place \in C
  BY <1>4, <1>5
<1>7. Cardinality(S) \in Nat
  BY <1>1, FS_CardinalityType
<1> HIDE DEF place
<1>8. DOMAIN place = 1..Cardinality(S) /\ \A k \in DOMAIN place : names[place[k]] \in Int
  <2>1. DOMAIN place = 1..Cardinality(S) /\ \A k \in DOMAIN place : place[k] \in S
    BY <1>6
  <2>2. QED BY <2>1, <1>2
<1>9. Ends(names, main, ai) \in [1..Cardinality(S) -> Int]
  BY <1>3, <1>8
<1>10. \A c \in Nat : \A s \in [1..c -> Int] : s \in Seq(Int)
  OBVIOUS
<1>11. QED BY <1>7, <1>9, <1>10

-----------------------------------------------------------------------------
(***************************************************************************)
(* What one restored connection does to the entries: one of them grows, or *)
(* a new one is put behind the last of its source.                         *)
(***************************************************************************)
Matches(e, con) == e.from = con.from_node /\ e.type = con.conn_type
NewEntry(con) == [from |-> con.from_node, type |-> con.conn_type, ports |-> AddEdge(<<>>, con)]

Grown(es, rs, con) ==
  /\ \E i \in DOMAIN es : Matches(es[i], con)
  /\ DOMAIN rs = DOMAIN es
  /\ \A i \in DOMAIN es :
       /\ rs[i].from = es[i].from /\ rs[i].type = es[i].type
       /\ rs[i].ports \in {es[i].ports, AddEdge(es[i].ports, con)}

Spot(es, con, q) ==
  \/ q = Len(es) + 1 /\ \A i \in DOMAIN es : es[i].from # con.from_node
  \/ \E h \in DOMAIN es :
       /\ es[h].from = con.from_node
       /\ \A i \in DOMAIN es : es[i].from = con.from_node => i <= h
       /\ q = h + 1

Shifted(es, rs, q, e, old) ==
  /\ q \in DOMAIN rs /\ rs[q] = e
  /\ \A i \in DOMAIN rs \ {q} :
       /\ old[i] \in DOMAIN es /\ rs[i] = es[old[i]]
       /\ i < q => old[i] < q
       /\ i > q => old[i] >= q
  /\ \A i, j \in DOMAIN rs \ {q} : i < j => old[i] < old[j]
  /\ \A j \in DOMAIN es : \E i \in DOMAIN rs \ {q} : old[i] = j
  /\ DOMAIN es \subseteq Nat /\ DOMAIN rs \subseteq Nat

Put(es, rs, con) ==
  /\ \A i \in DOMAIN es : ~ Matches(es[i], con)
  /\ \E q, old : Spot(es, con, q) /\ Shifted(es, rs, q, NewEntry(con), old)

LEMMA InsertShifts ==
  ASSUME NEW S, NEW s \in Seq(S), NEW e \in S, NEW q \in 1..Len(s) + 1
  PROVE  \E old : Shifted(s, InsertAt(s, q, e), q, e, old)
<1> DEFINE n == Len(s)
           rs == InsertAt(s, q, e)
           old == [i \in 1..n + 1 |-> IF i < q THEN i ELSE i - 1]
<1>1. /\ DOMAIN rs = 1..n + 1
      /\ \A i \in 1..n + 1 : rs[i] = IF i < q THEN s[i] ELSE IF i = q THEN e ELSE s[i - 1]
  BY Inserted
<1>2. n \in Nat /\ DOMAIN s = 1..n /\ q \in Nat /\ q \in 1..n + 1
  OBVIOUS
<1> HIDE DEF n, rs
<1>3. ASSUME NEW i \in 1..n + 1, i # q
      PROVE  /\ old[i] = IF i < q THEN i ELSE i - 1
             /\ old[i] \in 1..n /\ rs[i] = s[old[i]]
             /\ i < q => old[i] < q
             /\ i > q => old[i] >= q
  <2>1. old[i] = IF i < q THEN i ELSE i - 1
    OBVIOUS
  <2> HIDE DEF old
  <2>2. CASE i < q
    BY <2>1, <2>2, <1>1, <1>2
  <2>3. CASE ~ (i < q)
    BY <2>1, <2>3, <1>1, <1>2, <1>3
  <2>4. QED BY <2>2, <2>3, <2>1
<1> HIDE DEF old
<1>4. \A i, j \in 1..n + 1 : i # q /\ j # q /\ i < j => old[i] < old[j]
  BY <1>2, <1>3
<1>5. ASSUME NEW j \in 1..n PROVE \E i \in 1..n + 1 : i # q /\ old[i] = j
  <2>1. CASE j < q
    <3>1. j \in 1..n + 1 /\ j # q
      BY <2>1, <1>2
    <3>2. old[j] = j
      BY <3>1, <2>1, <1>3
    <3>3. QED BY <3>1, <3>2
  <2>2. CASE ~ (j < q)
    <3>1. j + 1 \in 1..n + 1 /\ j + 1 # q /\ ~ (j + 1 < q) /\ (j + 1) - 1 = j
      BY <2>2, <1>2
    <3>2. old[j + 1] = j
      BY <3>1, <1>3
    <3>3. QED BY <3>1, <3>2
  <2>3. QED BY <2>1, <2>2
<1>6. rs[q] = e
  BY <1>1, <1>2
<1>7. Shifted(s, rs, q, e, old)
  <2>1. q \in DOMAIN rs /\ DOMAIN s \subseteq Nat /\ DOMAIN rs \subseteq Nat
    BY <1>1, <1>2
  <2>2. \A i : i \in DOMAIN rs \ {q} <=> i \in 1..n + 1 /\ i # q
    BY <1>1
  <2>3. \A i \in DOMAIN rs \ {q} :
          /\ old[i] \in DOMAIN s /\ rs[i] = s[old[i]]
          /\ i < q => old[i] < q
          /\ i > q => old[i] >= q
    BY <2>2, <1>2, <1>3
  <2>4. \A i, j \in DOMAIN rs \ {q} : i < j => old[i] < old[j]
    BY <2>2, <1>4
  <2>5. \A j \in DOMAIN s : \E i \in DOMAIN rs \ {q} : old[i] = j
    BY <2>2, <1>2, <1>5
  <2>6. QED BY <2>1, <2>3, <2>4, <2>5, <1>6 DEF Shifted
<1>8. QED BY <1>7 DEF rs

LEMMA PlaceOfNew ==
  ASSUME NEW N, NEW es, es = restored, IsEntries(N, es), NEW con, SameEntry(es, con) = {}
  PROVE  Spot(es, con, Place(con).at)
<1> DEFINE same == SameSource(es, con)
           last == CHOOSE i \in same : \A j \in same : j <= i
<1>1. Place(con) = [at |-> IF same = {} THEN Len(es) + 1 ELSE 1 + last, new |-> TRUE]
  BY DEF Place, SameSource, SameEntry
<1>2. same \subseteq 1..Len(es) /\ Len(es) \in Nat /\ DOMAIN es = 1..Len(es)
  BY EntryIsRecord DEF SameSource
<1>3. \A i \in DOMAIN es : i \in same <=> es[i].from = con.from_node
  BY DEF SameSource
<1>4. Place(con).at = IF same = {} THEN Len(es) + 1 ELSE 1 + last
  BY <1>1
<1> HIDE DEF same
<1>5. CASE same = {}
  BY <1>3, <1>4, <1>5 DEF Spot
<1>6. CASE same # {}
  <2>1. \E i \in same : \A j \in same : j <= i
    BY <1>2, <1>6, LastOfSome
  <2>2. last \in same /\ \A j \in same : j <= last
    BY <2>1
  <2> HIDE DEF last
  <2>3. last \in DOMAIN es /\ Place(con).at = last + 1
    BY <2>2, <1>2, <1>4, <1>6
  <2>4. QED BY <2>2, <2>3, <1>3 DEF Spot
<1>7. QED BY <1>5, <1>6

LEMMA EdgePut ==
  ASSUME NEW N, NEW es, es = restored, IsEntries(N, es), NEW con,
         con.from_node \in N, con.conn_type \in ConnTypes, EdgeOf(con) \in Edges(N),
         port_index(con.from_port) \in Nat
  PROVE  Grown(es, WithEdge(con), con) \/ Put(es, WithEdge(con), con)
<1> DEFINE spot == Place(con).at
           hit == SameEntry(es, con)
           e == NewEntry(con)
<1>1. /\ hit # {} => spot \in hit /\ ~ Place(con).new
      /\ hit = {} => spot \in 1..Len(es) + 1 /\ Place(con).new
  BY PlaceOfConnection
<1>2. \A i \in DOMAIN es : i \in hit <=> Matches(es[i], con)
  BY DEF SameEntry, SameSource, Matches
<1>3. hit \subseteq DOMAIN es /\ es \in Seq(EntryRecords(N))
  BY EntryIsRecord DEF SameEntry, SameSource
<1>4. CASE hit # {}
  <2>1. WithEdge(con) = [es EXCEPT ![spot].ports = AddEdge(@, con)]
    BY <1>1, <1>4 DEF WithEdge
  <2>2. spot \in DOMAIN es /\ Matches(es[spot], con)
    BY <1>1, <1>2, <1>3, <1>4
  <2> DEFINE rs == WithEdge(con)
  <2>3. DOMAIN rs = DOMAIN es
    BY <2>1
  <2>4. ASSUME NEW i \in DOMAIN es
        PROVE  /\ rs[i].from = es[i].from /\ rs[i].type = es[i].type
               /\ rs[i].ports \in {es[i].ports, AddEdge(es[i].ports, con)}
    <3>1. es[i] = [from |-> es[i].from, type |-> es[i].type, ports |-> es[i].ports]
      <4>1. es[i] \in EntryRecords(N)
        BY EntryIsRecord
      <4> DEFINE entry == es[i]
      <4> HIDE DEF entry
      <4>2. entry \in EntryRecords(N)
        BY <4>1 DEF entry
      <4>3. entry = [from |-> entry.from, type |-> entry.type, ports |-> entry.ports]
        BY <4>2 DEF EntryRecords
      <4>4. QED BY <4>3 DEF entry
    <3>2. rs[i] = IF i = spot THEN [es[i] EXCEPT !.ports = AddEdge(@, con)] ELSE es[i]
      BY <2>1
    <3> HIDE DEF rs
    <3>3. QED BY <3>1, <3>2
  <2>5. Grown(es, rs, con)
    BY <2>2, <2>3, <2>4 DEF Grown
  <2>6. QED BY <2>5
<1>5. CASE hit = {}
  <2>1. WithEdge(con) = InsertAt(es, spot, e)
    BY <1>1, <1>5 DEF WithEdge, NewEntry
  <2>2. AddEdge(<<>>, con) \in PortLists(N)
    <3>1. <<>> \in PortLists(N)
      BY DEF PortLists
    <3>2. [node |-> con.to_node, index |-> con.to_index] \in Edges(N)
      BY DEF EdgeOf
    <3>3. QED BY <3>1, <3>2, AddEdgeHolds
  <2>3. e \in EntryRecords(N)
    BY <2>2 DEF NewEntry, EntryRecords, PortLists
  <2>4. Spot(es, con, spot)
    BY <1>5, PlaceOfNew
  <2> HIDE DEF spot, e
  <2>5. PICK old : Shifted(es, InsertAt(es, spot, e), spot, e, old)
    BY <1>1, <1>3, <1>5, <2>3, InsertShifts
  <2>6. Put(es, InsertAt(es, spot, e), con)
    BY <2>4, <2>5, <1>2, <1>5 DEF Put, e
  <2>7. QED BY <2>1, <2>6
<1>6. QED BY <1>4, <1>5
-----------------------------------------------------------------------------
(***************************************************************************)
(* How decompile_to_workflow orders entries: those of a source are next to *)
(* each other, the main one first, and the sources that have a main one    *)
(* are before those that have none.                                        *)
(***************************************************************************)
Grouped(es, D) ==
  \A i, j, k \in D : i < j /\ j < k /\ es[i].from = es[k].from => es[j].from = es[i].from
MainFirst(es, D) ==
  \A i, j \in D : i < j /\ es[j].type = "main" => es[i].from # es[j].from
MainSources(es, D) ==
  \A i, j \in D : i < j /\ es[j].type = "main" =>
    \E k \in D : es[k].from = es[i].from /\ es[k].type = "main"
OrderedOn(es, D) == Grouped(es, D) /\ MainFirst(es, D) /\ MainSources(es, D)
Canonical(es) == OrderedOn(es, DOMAIN es)

LEMMA CanonicalGrown ==
  ASSUME NEW es, NEW rs, NEW con, Grown(es, rs, con), Canonical(es)
  PROVE  Canonical(rs)
<1>1. DOMAIN rs = DOMAIN es /\ \A i \in DOMAIN es : rs[i].from = es[i].from /\ rs[i].type = es[i].type
  BY DEF Grown
<1>2. Grouped(rs, DOMAIN rs)
  BY <1>1 DEF Canonical, OrderedOn, Grouped
<1>3. MainFirst(rs, DOMAIN rs)
  BY <1>1 DEF Canonical, OrderedOn, MainFirst
<1>4. MainSources(rs, DOMAIN rs)
  BY <1>1 DEF Canonical, OrderedOn, MainSources
<1>5. QED BY <1>2, <1>3, <1>4 DEF Canonical, OrderedOn

(* Where a new entry stands among the others.                              *)
AtEnd(rs, q, f) ==
  \A i \in DOMAIN rs \ {q} : i < q /\ rs[i].from # f
Behind(rs, q, f, h) ==
  /\ h \in DOMAIN rs \ {q} /\ rs[h].from = f /\ h < q
  /\ \A i \in DOMAIN rs \ {q} : (rs[i].from = f => i <= h) /\ (i <= h \/ i > q)
Joined(rs, q, f) == AtEnd(rs, q, f) \/ \E h : Behind(rs, q, f, h)

LEMMA PutShape ==
  ASSUME NEW es, DOMAIN es = 1..Len(es), Len(es) \in Nat, NEW rs, NEW con,
         NEW q, NEW old, Spot(es, con, q), Shifted(es, rs, q, NewEntry(con), old)
  PROVE  Joined(rs, q, con.from_node)
<1> DEFINE f == con.from_node
           R == DOMAIN rs \ {q}
<1>1. /\ \A i \in R : /\ old[i] \in 1..Len(es) /\ rs[i] = es[old[i]] /\ i \in Nat
                      /\ i < q => old[i] < q
                      /\ i > q => old[i] >= q
      /\ \A i, j \in R : i < j => old[i] < old[j]
      /\ \A j \in 1..Len(es) : \E i \in R : old[i] = j
      /\ q \in Nat
      /\ \A i \in R : i # q
  BY DEF Shifted
<1> HIDE DEF R
<1>2. CASE q = Len(es) + 1 /\ \A i \in DOMAIN es : es[i].from # f
  <2>1. ASSUME NEW i \in R PROVE i < q /\ rs[i].from # f
    BY <1>1, <1>2
  <2>2. QED BY <2>1 DEF Joined, AtEnd, R
<1>3. CASE \E h \in DOMAIN es :
             /\ es[h].from = f
             /\ \A i \in DOMAIN es : es[i].from = f => i <= h
             /\ q = h + 1
  <2>1. PICK l \in 1..Len(es) : es[l].from = f /\ q = l + 1 /\ \A i \in 1..Len(es) : es[i].from = f => i <= l
    BY <1>3
  <2>2. PICK h \in R : old[h] = l
    BY <1>1
  <2>3. rs[h].from = f /\ h < q
    BY <1>1, <2>1, <2>2
  <2>4. ASSUME NEW i \in R PROVE (rs[i].from = f => i <= h) /\ (i <= h \/ i > q)
    <3>1. CASE i <= h
      BY <3>1
    <3>2. CASE i > h
      <4>1. old[i] > l /\ old[i] \in 1..Len(es)
        BY <3>2, <1>1, <2>2
      <4>2. rs[i].from # f
        <5>1. es[old[i]].from = f => old[i] <= l
          BY <4>1, <2>1
        <5>2. es[old[i]].from # f
          BY <4>1, <5>1
        <5>3. QED BY <5>2, <1>1
      <4>3. ~ (i < q)
        BY <4>1, <1>1, <2>1
      <4>4. i > q
        BY <4>3, <1>1
      <4>5. QED BY <4>2, <4>4
    <3>3. QED BY <3>1, <3>2, <1>1
  <2>5. Behind(rs, q, f, h)
    BY <2>2, <2>3, <2>4 DEF Behind, R
  <2>6. QED BY <2>5 DEF Joined
<1>4. QED BY <1>2, <1>3 DEF Spot

LEMMA OrderedOthers ==
  ASSUME NEW es, NEW rs, NEW q, NEW e, NEW old, Shifted(es, rs, q, e, old), Canonical(es)
  PROVE  OrderedOn(rs, DOMAIN rs \ {q})
<1> DEFINE R == DOMAIN rs \ {q}
<1>1. /\ \A i \in R : old[i] \in DOMAIN es /\ rs[i] = es[old[i]]
      /\ \A i, j \in R : i < j => old[i] < old[j]
      /\ \A j \in DOMAIN es : \E i \in R : old[i] = j
  BY DEF Shifted
<1> HIDE DEF R
<1>2. Grouped(rs, R)
  <2> SUFFICES ASSUME NEW i \in R, NEW j \in R, NEW k \in R, i < j, j < k, rs[i].from = rs[k].from
               PROVE  rs[j].from = rs[i].from
    BY DEF Grouped
  <2>1. old[i] < old[j] /\ old[j] < old[k]
    BY <1>1
  <2>2. QED BY <2>1, <1>1 DEF Canonical, OrderedOn, Grouped
<1>3. MainFirst(rs, R)
  <2> SUFFICES ASSUME NEW i \in R, NEW j \in R, i < j, rs[j].type = "main"
               PROVE  rs[i].from # rs[j].from
    BY DEF MainFirst
  <2>1. old[i] < old[j]
    BY <1>1
  <2>2. QED BY <2>1, <1>1 DEF Canonical, OrderedOn, MainFirst
<1>4. MainSources(rs, R)
  <2> SUFFICES ASSUME NEW i \in R, NEW j \in R, i < j, rs[j].type = "main"
               PROVE  \E k \in R : rs[k].from = rs[i].from /\ rs[k].type = "main"
    BY DEF MainSources
  <2>1. old[i] < old[j]
    BY <1>1
  <2>2. PICK k \in DOMAIN es : es[k].from = rs[i].from /\ es[k].type = "main"
    BY <2>1, <1>1 DEF Canonical, OrderedOn, MainSources
  <2>3. PICK l \in R : old[l] = k
    BY <1>1
  <2>4. QED BY <2>2, <2>3, <1>1
<1>5. QED BY <1>2, <1>3, <1>4 DEF OrderedOn, R

LEMMA CanonicalJoined ==
  ASSUME NEW rs, DOMAIN rs \subseteq Nat, NEW q \in DOMAIN rs, NEW f, rs[q].from = f,
         OrderedOn(rs, DOMAIN rs \ {q}), Joined(rs, q, f),
         \A i \in DOMAIN rs \ {q} : ~ (rs[i].from = f /\ rs[i].type = rs[q].type),
         rs[q].type = "main" => \A i \in DOMAIN rs : rs[i].type = "main"
  PROVE  Canonical(rs)
<1> DEFINE D == DOMAIN rs
           R == DOMAIN rs \ {q}
<1>0. \A i \in D : i \in Nat /\ (i \in R \/ i = q)
  OBVIOUS
<1>1. Grouped(rs, R) /\ MainFirst(rs, R) /\ MainSources(rs, R) /\ q \in D /\ R \subseteq D
  BY DEF OrderedOn
<1>2. CASE AtEnd(rs, q, f)
  <2>1. \A i \in R : i < q /\ rs[i].from # f
    BY <1>2 DEF AtEnd
  <2> HIDE DEF D, R
  <2>2. Grouped(rs, D)
    <3> SUFFICES ASSUME NEW i \in D, NEW j \in D, NEW k \in D, i < j, j < k, rs[i].from = rs[k].from
                 PROVE  rs[j].from = rs[i].from
      BY DEF Grouped
    <3>1. i \in R /\ j \in R
      BY <1>0, <2>1
    <3>2. k \in R
      BY <3>1, <1>0, <2>1
    <3>3. QED BY <3>1, <3>2, <1>1 DEF Grouped
  <2>3. MainFirst(rs, D)
    <3> SUFFICES ASSUME NEW i \in D, NEW j \in D, i < j, rs[j].type = "main"
                 PROVE  rs[i].from # rs[j].from
      BY DEF MainFirst
    <3>1. i \in R
      BY <1>0, <2>1
    <3>2. CASE j = q
      BY <3>1, <3>2, <2>1
    <3>3. CASE j \in R
      BY <3>1, <3>3, <1>1 DEF MainFirst
    <3>4. QED BY <3>2, <3>3, <1>0
  <2>4. MainSources(rs, D)
    <3> SUFFICES ASSUME NEW i \in D, NEW j \in D, i < j, rs[j].type = "main"
                 PROVE  \E k \in D : rs[k].from = rs[i].from /\ rs[k].type = "main"
      BY DEF MainSources
    <3>1. i \in R
      BY <1>0, <2>1
    <3>2. CASE j = q
      BY <3>2 DEF D
    <3>3. CASE j \in R
      BY <3>1, <3>3, <1>1 DEF MainSources
    <3>4. QED BY <3>2, <3>3, <1>0
  <2>5. QED BY <2>2, <2>3, <2>4 DEF Canonical, OrderedOn, D
<1>3. CASE \E h : Behind(rs, q, f, h)
  <2>1. PICK h : Behind(rs, q, f, h)
    BY <1>3
  <2>2. /\ h \in R /\ rs[h].from = f /\ h < q
        /\ \A i \in R : (rs[i].from = f => i <= h) /\ (i <= h \/ i > q)
    BY <2>1 DEF Behind
  <2>3. rs[q].type # "main"
    BY <2>2
  <2> HIDE DEF D, R
  <2>4. Grouped(rs, D)
    <3> SUFFICES ASSUME NEW i \in D, NEW j \in D, NEW k \in D, i < j, j < k, rs[i].from = rs[k].from
                 PROVE  rs[j].from = rs[i].from
      BY DEF Grouped
    <3>1. CASE i = q
      <4>1. k \in R /\ k > h /\ rs[k].from = f
        BY <3>1, <1>0, <1>1, <2>2
      <4>2. QED BY <4>1, <2>2, <1>0, <1>1
    <3>2. CASE j = q
      <4>1. i \in R /\ k \in R /\ i <= h /\ h < k
        BY <3>2, <1>0, <1>1, <2>2
      <4>2. CASE i = h
        BY <4>2, <3>2, <2>2
      <4>3. CASE i # h
        <5>1. i < h
          BY <4>1, <4>3, <1>0, <1>1, <2>2
        <5>2. rs[h].from = rs[i].from
          BY <5>1, <4>1, <2>2, <1>1 DEF Grouped
        <5>3. QED BY <5>2, <3>2, <2>2
      <4>4. QED BY <4>2, <4>3
    <3>3. CASE k = q
      <4>1. i \in R /\ j \in R /\ j <= h /\ rs[i].from = f
        BY <3>3, <1>0, <1>1, <2>2
      <4>2. CASE j = h
        BY <4>1, <4>2, <2>2
      <4>3. CASE j # h
        <5>1. j < h
          BY <4>1, <4>3, <1>0, <1>1, <2>2
        <5>2. QED BY <5>1, <4>1, <2>2, <1>1 DEF Grouped
      <4>4. QED BY <4>2, <4>3
    <3>4. CASE i \in R /\ j \in R /\ k \in R
      BY <3>4, <1>1 DEF Grouped
    <3>5. QED BY <3>1, <3>2, <3>3, <3>4, <1>0
  <2>5. MainFirst(rs, D)
    <3> SUFFICES ASSUME NEW i \in D, NEW j \in D, i < j, rs[j].type = "main"
                 PROVE  rs[i].from # rs[j].from
      BY DEF MainFirst
    <3>1. j \in R
      BY <1>0, <2>3
    <3>2. CASE i = q
      <4>1. j > h
        BY <3>1, <3>2, <1>0, <1>1, <2>2
      <4>2. rs[j].from # f
        BY <4>1, <3>1, <1>0, <1>1, <2>2
      <4>3. QED BY <4>2, <3>2
    <3>3. CASE i \in R
      BY <3>1, <3>3, <1>1 DEF MainFirst
    <3>4. QED BY <3>2, <3>3, <1>0
  <2>6. MainSources(rs, D)
    <3> SUFFICES ASSUME NEW i \in D, NEW j \in D, i < j, rs[j].type = "main"
                 PROVE  \E k \in R : rs[k].from = rs[i].from /\ rs[k].type = "main"
      BY <1>1 DEF MainSources
    <3>1. j \in R
      BY <1>0, <2>3
    <3>2. CASE i = q
      <4>1. h < j
        BY <3>1, <3>2, <1>0, <1>1, <2>2
      <4>2. \E k \in R : rs[k].from = rs[h].from /\ rs[k].type = "main"
        BY <4>1, <3>1, <2>2, <1>1 DEF MainSources
      <4>3. QED BY <4>2, <3>2, <2>2
    <3>3. CASE i \in R
      BY <3>1, <3>3, <1>1 DEF MainSources
    <3>4. QED BY <3>2, <3>3, <1>0
  <2>7. QED BY <2>4, <2>5, <2>6 DEF Canonical, OrderedOn, D
<1>4. QED BY <1>2, <1>3 DEF Joined

LEMMA CanonicalPut ==
  ASSUME NEW es, DOMAIN es = 1..Len(es), Len(es) \in Nat, NEW rs, NEW con, Put(es, rs, con),
         Canonical(es), con.conn_type = "main" => \A i \in DOMAIN es : es[i].type = "main"
  PROVE  Canonical(rs)
<1>1. PICK q, old : Spot(es, con, q) /\ Shifted(es, rs, q, NewEntry(con), old)
  BY DEF Put
<1>2. /\ q \in DOMAIN rs /\ DOMAIN rs \subseteq Nat
      /\ rs[q].from = con.from_node /\ rs[q].type = con.conn_type
      /\ \A i \in DOMAIN rs \ {q} : old[i] \in DOMAIN es /\ rs[i] = es[old[i]]
  BY <1>1 DEF Shifted, NewEntry
<1>3. Joined(rs, q, con.from_node)
  BY <1>1, PutShape
<1>4. OrderedOn(rs, DOMAIN rs \ {q})
  BY <1>1, OrderedOthers
<1>5. \A i \in DOMAIN rs \ {q} : ~ (rs[i].from = con.from_node /\ rs[i].type = rs[q].type)
  BY <1>2 DEF Put, Matches
<1>6. rs[q].type = "main" => \A i \in DOMAIN rs : rs[i].type = "main"
  BY <1>2
<1>7. QED BY <1>2, <1>3, <1>4, <1>5, <1>6, CanonicalJoined
-----------------------------------------------------------------------------
(***************************************************************************)
(* What is restored has no list of ports that ends with an empty one.      *)
(***************************************************************************)
Ended(ports) == ports # <<>> /\ ports[Len(ports)] # <<>>
Tight(es) == \A i \in DOMAIN es : Ended(es[i].ports)

LEMMA AddEdgeEnds ==
  ASSUME NEW N, NEW ports \in PortLists(N), NEW con,
         port_index(con.from_port) \in Nat, EdgeOf(con) \in Edges(N),
         ports = <<>> \/ Ended(ports)
  PROVE  AddEdge(ports, con) \in PortLists(N) /\ Ended(AddEdge(ports, con))
<1> DEFINE q == port_index(con.from_port) + 1
           edge == [node |-> con.to_node, index |-> con.to_index]
           n == IF q > Len(ports) THEN q ELSE Len(ports)
           padded == [i \in 1..n |-> IF i <= Len(ports) THEN ports[i] ELSE <<>>]
           added == [padded EXCEPT ![q] = Append(@, edge)]
<1>1. AddEdge(ports, con) = added
  BY DEF AddEdge
<1>2. edge \in Edges(N)
  BY DEF EdgeOf
<1>3. AddEdge(ports, con) \in PortLists(N)
  BY <1>2, AddEdgeHolds
<1>4. /\ q \in 1..n /\ n \in Nat /\ Len(ports) \in Nat
      /\ q <= Len(ports) => n = Len(ports)
      /\ q > Len(ports) => n = q
      /\ \A i \in 1..Len(ports) : ports[i] \in Seq(Edges(N))
  BY DEF PortLists
<1> HIDE DEF n, q, edge
<1>5. \A i \in 1..n : padded[i] = IF i <= Len(ports) THEN ports[i] ELSE <<>>
  OBVIOUS
<1>6. \A i \in 1..n : padded[i] \in Seq(Edges(N))
  BY <1>4, <1>5
<1>7. DOMAIN added = 1..n /\ n \in 1..n
  BY <1>4
<1>8. added[q] = Append(padded[q], edge) /\ \A i \in 1..n : i # q => added[i] = padded[i]
  BY <1>4
<1> HIDE DEF padded, added
<1>9. added \in Seq(Seq(Edges(N)))
  BY <1>1, <1>3 DEF PortLists
<1>10. Len(added) = n /\ added # <<>>
  BY <1>4, <1>7, <1>9
<1>11. added[n] # <<>>
  <2>1. CASE n = q
    <3>1. padded[q] \in Seq(Edges(N)) /\ added[q] = Append(padded[q], edge)
      BY <1>4, <1>6, <1>8
    <3>2. QED BY <2>1, <3>1, <1>2
  <2>2. CASE n # q
    <3>1. n = Len(ports) /\ ports # <<>>
      BY <2>2, <1>4
    <3>2. added[n] = ports[n]
      BY <2>2, <3>1, <1>4, <1>5, <1>7, <1>8
    <3>3. QED BY <3>1, <3>2 DEF Ended
  <2>3. QED BY <2>1, <2>2
<1>12. QED BY <1>1, <1>3, <1>10, <1>11 DEF Ended

LEMMA TightKept ==
  ASSUME NEW N, NEW es, IsEntries(N, es), NEW rs, NEW con, Tight(es),
         port_index(con.from_port) \in Nat, EdgeOf(con) \in Edges(N),
         Grown(es, rs, con) \/ Put(es, rs, con)
  PROVE  Tight(rs)
<1>1. \A i \in DOMAIN es : es[i].ports \in PortLists(N) /\ Ended(es[i].ports)
  BY EntryIsRecord DEF Tight
<1>2. CASE Grown(es, rs, con)
  <2>1. DOMAIN rs = DOMAIN es
        /\ \A i \in DOMAIN es : rs[i].ports \in {es[i].ports, AddEdge(es[i].ports, con)}
    BY <1>2 DEF Grown
  <2>2. ASSUME NEW i \in DOMAIN es PROVE Ended(rs[i].ports)
    <3> DEFINE ports == es[i].ports
    <3>1. ports \in PortLists(N) /\ Ended(ports)
      BY <1>1
    <3>2. rs[i].ports = ports \/ rs[i].ports = AddEdge(ports, con)
      BY <2>1
    <3> HIDE DEF ports
    <3>3. Ended(AddEdge(ports, con))
      BY <3>1, AddEdgeEnds
    <3>4. QED BY <3>1, <3>2, <3>3
  <2>3. QED BY <2>1, <2>2 DEF Tight
<1>3. CASE Put(es, rs, con)
  <2>1. PICK q, old : Shifted(es, rs, q, NewEntry(con), old)
    BY <1>3 DEF Put
  <2>2. /\ rs[q].ports = AddEdge(<<>>, con)
        /\ \A i \in DOMAIN rs \ {q} : old[i] \in DOMAIN es /\ rs[i] = es[old[i]]
    BY <2>1 DEF Shifted, NewEntry
  <2>3. <<>> \in PortLists(N)
    BY DEF PortLists
  <2>4. Ended(AddEdge(<<>>, con))
    BY <2>3, AddEdgeEnds
  <2>5. ASSUME NEW i \in DOMAIN rs PROVE Ended(rs[i].ports)
    <3>1. CASE i = q
      BY <3>1, <2>2, <2>4
    <3>2. CASE i # q
      BY <3>2, <2>2, <1>1
    <3>3. QED BY <3>1, <3>2
  <2>6. QED BY <2>5 DEF Tight
<1>4. QED BY <1>2, <1>3

-----------------------------------------------------------------------------
(***************************************************************************)
(* Entries that are restored from a document of canonical ones keep their  *)
(* order.  A connection comes in turn when those of the main entries come  *)
(* before all others, and both in the order of the entries.                *)
(***************************************************************************)
SameKey(e, d) == e.from = d.from /\ e.type = d.type

SameOrder(rs, es) ==
  \A i, j \in DOMAIN rs : \A a, b \in DOMAIN es :
    SameKey(rs[i], es[a]) /\ SameKey(rs[j], es[b]) /\ i < j => a < b

InTurn(rs, es, con, a) ==
  /\ a \in DOMAIN es /\ Matches(es[a], con)
  /\ \A i \in DOMAIN rs : \E b \in DOMAIN es : SameKey(rs[i], es[b])
  /\ con.conn_type = "main" =>
       \A i \in DOMAIN rs : \A b \in DOMAIN es :
         SameKey(rs[i], es[b]) => rs[i].type = "main" /\ b <= a
  /\ con.conn_type # "main" =>
       /\ \A b \in DOMAIN es : es[b].type = "main" => \E i \in DOMAIN rs : SameKey(rs[i], es[b])
       /\ \A i \in DOMAIN rs : \A b \in DOMAIN es :
            SameKey(rs[i], es[b]) /\ es[b].type # "main" => b <= a

LEMMA OrderGrown ==
  ASSUME NEW es, NEW rs, NEW rt, NEW con, Grown(rs, rt, con), SameOrder(rs, es)
  PROVE  SameOrder(rt, es)
<1>1. DOMAIN rt = DOMAIN rs /\ \A i \in DOMAIN rs : rt[i].from = rs[i].from /\ rt[i].type = rs[i].type
  BY DEF Grown
<1>2. QED BY <1>1 DEF SameOrder, SameKey

LEMMA OrderPut ==
  ASSUME NEW es, DOMAIN es \subseteq Nat, Distinct(es), Canonical(es),
         NEW rs, DOMAIN rs = 1..Len(rs), Len(rs) \in Nat, SameOrder(rs, es),
         NEW rt, NEW con, Put(rs, rt, con), NEW a, InTurn(rs, es, con, a)
  PROVE  SameOrder(rt, es)
<1> DEFINE f == con.from_node
           t == con.conn_type
<1>1. PICK q, old : Spot(rs, con, q) /\ Shifted(rs, rt, q, NewEntry(con), old)
  BY DEF Put
<1> DEFINE R == DOMAIN rt \ {q}
<1>2. /\ q \in DOMAIN rt /\ q \in Nat /\ rt[q].from = f /\ rt[q].type = t
      /\ \A i \in R : old[i] \in DOMAIN rs /\ rt[i] = rs[old[i]] /\ i \in Nat
      /\ \A i, j \in R : i < j => old[i] < old[j]
      /\ \A j \in DOMAIN rs : \E i \in R : old[i] = j
  BY <1>1 DEF Shifted, NewEntry
<1>3. \A i \in DOMAIN rt : i \in R \/ i = q
  OBVIOUS
<1>4. Joined(rt, q, f)
  BY <1>1, PutShape
<1>5. /\ a \in DOMAIN es /\ a \in Nat /\ es[a].from = f /\ es[a].type = t
      /\ \A i \in R : ~ (rt[i].from = f /\ rt[i].type = t)
  BY <1>2 DEF InTurn, Matches, Put
<1>6. \A b, d \in DOMAIN es : es[b].from = es[d].from /\ es[b].type = es[d].type => b = d
  BY DEF Distinct
<1>7. \A i \in R : \E b \in DOMAIN es : SameKey(rt[i], es[b])
  BY <1>2 DEF InTurn
<1>8. t = "main" => \A i \in R : \A b \in DOMAIN es : SameKey(rt[i], es[b]) => rt[i].type = "main" /\ b <= a
  BY <1>2 DEF InTurn
<1>9. t # "main" =>
        /\ \A b \in DOMAIN es : es[b].type = "main" => \E i \in R : SameKey(rt[i], es[b])
        /\ \A i \in R : \A b \in DOMAIN es : SameKey(rt[i], es[b]) /\ es[b].type # "main" => b <= a
  <2> SUFFICES ASSUME t # "main"
               PROVE  /\ \A b \in DOMAIN es : es[b].type = "main" => \E i \in R : SameKey(rt[i], es[b])
                      /\ \A i \in R : \A b \in DOMAIN es :
                           SameKey(rt[i], es[b]) /\ es[b].type # "main" => b <= a
    OBVIOUS
  <2>1. ASSUME NEW b \in DOMAIN es, es[b].type = "main" PROVE \E i \in R : SameKey(rt[i], es[b])
    <3>1. PICK j \in DOMAIN rs : SameKey(rs[j], es[b])
      BY <2>1 DEF InTurn
    <3>2. PICK i \in R : old[i] = j
      BY <1>2
    <3>3. QED BY <3>1, <3>2, <1>2
  <2>2. \A i \in R : \A b \in DOMAIN es : SameKey(rt[i], es[b]) /\ es[b].type # "main" => b <= a
    BY <1>2 DEF InTurn
  <2>3. QED BY <2>1, <2>2
<1>10. \A i, j \in R : \A b, d \in DOMAIN es :
         SameKey(rt[i], es[b]) /\ SameKey(rt[j], es[d]) /\ i < j => b < d
  BY <1>2 DEF SameOrder
<1>11. \A i \in R : \A b \in DOMAIN es : SameKey(rt[i], es[b]) => b # a /\ b \in Nat
  BY <1>5 DEF SameKey
<1>12. \A b \in DOMAIN es : SameKey(rt[q], es[b]) => b = a
  BY <1>2, <1>5, <1>6 DEF SameKey
<1> HIDE DEF R
<1>13. \A i \in R : \A b \in DOMAIN es :
         SameKey(rt[i], es[b]) => (i < q => b < a) /\ (i > q => b > a)
  <2> SUFFICES ASSUME NEW i \in R, NEW b \in DOMAIN es, SameKey(rt[i], es[b])
               PROVE  (i < q => b < a) /\ (i > q => b > a)
    OBVIOUS
  <2>0. b # a /\ b \in Nat /\ a \in Nat /\ i \in Nat /\ q \in Nat
    BY <1>11, <1>5, <1>2
  <2>1. CASE AtEnd(rt, q, f)
    <3>1. \A l \in R : l < q /\ rt[l].from # f
      BY <2>1 DEF AtEnd, R
    <3>2. b <= a
      <4>1. CASE t = "main"
        BY <4>1, <1>8
      <4>2. CASE t # "main" /\ es[b].type # "main"
        BY <4>2, <1>9
      <4>3. CASE t # "main" /\ es[b].type = "main"
        <5>1. SUFFICES ASSUME a < b PROVE FALSE
          BY <2>0
        <5>2. PICK k \in DOMAIN es : es[k].from = f /\ es[k].type = "main"
          BY <4>3, <5>1, <1>5 DEF Canonical, OrderedOn, MainSources
        <5>3. PICK l \in R : SameKey(rt[l], es[k])
          BY <4>3, <5>2, <1>9
        <5>4. QED BY <5>2, <5>3, <3>1 DEF SameKey
      <4>4. QED BY <4>1, <4>2, <4>3
    <3>3. QED BY <2>0, <3>1, <3>2
  <2>2. CASE \E h : Behind(rt, q, f, h)
    <3>1. PICK h : Behind(rt, q, f, h)
      BY <2>2
    <3>2. /\ h \in R /\ rt[h].from = f /\ h < q /\ h \in Nat
          /\ \A l \in R : (rt[l].from = f => l <= h) /\ (l <= h \/ l > q)
      BY <3>1, <1>2 DEF Behind, R
    <3>3. PICK d \in DOMAIN es : SameKey(rt[h], es[d])
      BY <3>2, <1>7
    <3>4. t # "main"
      BY <3>2, <3>3, <1>5, <1>8
    <3>5. d \in Nat /\ d < a /\ es[d].from = f
      <4>1. d # a /\ d \in Nat /\ es[d].from = f
        BY <3>2, <3>3, <1>11 DEF SameKey
      <4>2. ~ (a < d)
        <5>1. CASE es[d].type = "main"
          <6>1. SUFFICES ASSUME a < d PROVE FALSE
            OBVIOUS
          <6>2. es[a].from # es[d].from
            BY <5>1, <6>1, <1>5 DEF Canonical, OrderedOn, MainFirst
          <6>3. QED BY <6>2, <4>1, <1>5
        <5>2. CASE es[d].type # "main"
          <6>1. d <= a
            BY <5>2, <3>2, <3>3, <3>4, <1>9
          <6>2. QED BY <6>1, <4>1, <2>0
        <5>3. QED BY <5>1, <5>2
      <4>3. QED BY <4>1, <4>2, <2>0
    <3>6. CASE i = h
      <4>1. b = d
        BY <3>6, <3>3, <1>6 DEF SameKey
      <4>2. QED BY <4>1, <3>2, <3>5, <3>6, <2>0
    <3>7. CASE i < h
      <4>1. b < d
        BY <3>7, <3>2, <3>3, <1>10
      <4>2. QED BY <4>1, <3>2, <3>5, <3>7, <2>0
    <3>8. CASE i > h
      <4>1. d < b /\ i > q /\ rt[i].from # f
        <5>1. d < b
          BY <3>8, <3>2, <3>3, <1>10
        <5>2. (rt[i].from = f => i <= h) /\ (i <= h \/ i > q)
          BY <3>2
        <5>3. QED BY <5>1, <5>2, <3>8, <3>2, <2>0
      <4>2. ~ (b < a)
        <5>1. SUFFICES ASSUME b < a PROVE FALSE
          OBVIOUS
        <5>2. es[b].from = es[d].from
          BY <4>1, <5>1, <3>5, <1>5 DEF Canonical, OrderedOn, Grouped
        <5>3. QED BY <5>2, <4>1, <3>5 DEF SameKey
      <4>3. QED BY <4>1, <4>2, <2>0
    <3>9. QED BY <3>6, <3>7, <3>8, <3>2, <2>0
  <2>3. QED BY <2>1, <2>2, <1>4 DEF Joined
<1>14. ASSUME NEW i \in DOMAIN rt, NEW j \in DOMAIN rt, NEW b \in DOMAIN es, NEW d \in DOMAIN es,
              SameKey(rt[i], es[b]), SameKey(rt[j], es[d]), i < j
       PROVE  b < d
  <2>1. CASE i \in R /\ j \in R
    BY <2>1, <1>10, <1>14
  <2>2. CASE i \in R /\ j = q
    BY <2>2, <1>12, <1>13, <1>14
  <2>3. CASE i = q /\ j \in R
    <3>1. b = a /\ j > q
      BY <2>3, <1>2, <1>12, <1>14
    <3>2. d > a
      BY <2>3, <3>1, <1>13, <1>14
    <3>3. d \in Nat /\ a \in Nat
      BY <1>5
    <3>4. QED BY <3>1, <3>2, <3>3
  <2>4. CASE i = q /\ j = q
    BY <2>4, <1>14, <1>2
  <2>5. QED BY <2>1, <2>2, <2>3, <2>4, <1>3
<1>15. QED BY <1>14 DEF SameOrder
LEMMA TightIsThere ==
  ASSUME NEW N, NEW es, IsEntries(N, es), Tight(es), NEW i \in DOMAIN es
  PROVE  LET p == Len(es[i].ports)
         IN  /\ p \in Nat /\ p \in DOMAIN es[i].ports
             /\ Len(TargetsIn(es, es[i].from, es[i].type, p)) \in Nat \ {0}
             /\ es[i].ports[p] = TargetsIn(es, es[i].from, es[i].type, p)
             /\ es[i].ports[p] \in Seq(Edges(N))
<1> DEFINE ports == es[i].ports
           p == Len(ports)
<1>1. ports \in Seq(Seq(Edges(N))) /\ ports # <<>> /\ ports[p] # <<>>
  BY EntryIsRecord DEF Tight, Ended, PortLists
<1>2. TargetsIn(es, es[i].from, es[i].type, p) = Held(ports, p)
  BY TargetsOfEntry
<1> HIDE DEF ports
<1>3. p \in Nat /\ p \in DOMAIN ports
  BY <1>1
<1>4. Held(ports, p) = ports[p] /\ ports[p] \in Seq(Edges(N))
  BY <1>1, <1>3 DEF Held
<1>5. Len(ports[p]) \in Nat \ {0}
  BY <1>1, <1>4
<1>6. QED BY <1>2, <1>3, <1>4, <1>5 DEF ports

(* Two lists of entries that feed the same, in one order, are the same.    *)
LEMMA KeysMeet ==
  ASSUME NEW N, NEW es, IsEntries(N, es), NEW rs, IsEntries(N, rs), Tight(rs),
         \A f, t : \A p \in Nat : TargetsIn(rs, f, t, p) = TargetsIn(es, f, t, p),
         NEW i \in DOMAIN rs
  PROVE  \E a \in DOMAIN es : SameKey(rs[i], es[a])
<1> DEFINE p == Len(rs[i].ports)
           f == rs[i].from
           t == rs[i].type
<1>1. p \in Nat /\ Len(TargetsIn(rs, f, t, p)) \in Nat \ {0}
  BY TightIsThere
<1> HIDE DEF p
<1>2. TargetsIn(es, f, t, p) # <<>>
  BY <1>1
<1>3. \E a \in DOMAIN es : es[a].from = f /\ es[a].type = t
  BY <1>2, TargetsOfNone
<1>4. QED BY <1>3 DEF SameKey

LEMMA SameLength ==
  ASSUME NEW N, NEW es, IsEntries(N, es), NEW rs, IsEntries(N, rs), Tight(rs),
         \A f, t : \A p \in Nat : TargetsIn(rs, f, t, p) = TargetsIn(es, f, t, p),
         NEW i \in DOMAIN rs, NEW a \in DOMAIN es, SameKey(rs[i], es[a])
  PROVE  Len(rs[i].ports) <= Len(es[a].ports)
<1> DEFINE p == Len(rs[i].ports)
           f == rs[i].from
           t == rs[i].type
           ports == es[a].ports
<1>1. p \in Nat /\ Len(TargetsIn(rs, f, t, p)) \in Nat \ {0}
  BY TightIsThere
<1>2. TargetsIn(es, f, t, p) = Held(ports, p)
  BY TargetsOfEntry DEF SameKey
<1>3. DOMAIN ports = 1..Len(ports) /\ Len(ports) \in Nat
  BY PlaceNumbers
<1> HIDE DEF p, ports
<1>4. Held(ports, p) # <<>>
  BY <1>1, <1>2
<1>5. p \in DOMAIN ports
  BY <1>4 DEF Held
<1>6. p <= Len(ports)
  BY <1>3, <1>5
<1>7. QED BY <1>6 DEF p, ports

LEMMA SamePorts ==
  ASSUME NEW N, NEW es, IsEntries(N, es), Tight(es), NEW rs, IsEntries(N, rs), Tight(rs),
         \A f, t : \A p \in Nat : TargetsIn(rs, f, t, p) = TargetsIn(es, f, t, p),
         NEW i \in DOMAIN rs, NEW a \in DOMAIN es, SameKey(rs[i], es[a])
  PROVE  rs[i] = es[a]
<1> DEFINE r == rs[i].ports
           w == es[a].ports
           f == rs[i].from
           t == rs[i].type
<1>1. r \in PortLists(N) /\ w \in PortLists(N)
  BY EntryIsRecord
<1>2. Len(r) <= Len(w)
  BY SameLength
<1>3. Len(w) <= Len(r)
  <2>1. SameKey(es[a], rs[i])
    BY DEF SameKey
  <2>2. \A g, u : \A p \in Nat : TargetsIn(es, g, u, p) = TargetsIn(rs, g, u, p)
    OBVIOUS
  <2>3. QED BY <2>1, <2>2, SameLength
<1>4. \A p : TargetsIn(rs, f, t, p) = Held(r, p) /\ TargetsIn(es, f, t, p) = Held(w, p)
  BY TargetsOfEntry DEF SameKey
<1>5. \A p \in Nat : Held(r, p) = Held(w, p)
  BY <1>4
<1>6. rs[i] = [from |-> f, type |-> t, ports |-> r] /\ es[a] = [from |-> f, type |-> t, ports |-> w]
  <2>1. rs[i] \in EntryRecords(N) /\ es[a] \in EntryRecords(N)
    BY EntryIsRecord
  <2> DEFINE d == rs[i]
             e == es[a]
  <2> HIDE DEF d, e
  <2>2. /\ d \in EntryRecords(N) /\ e \in EntryRecords(N) /\ SameKey(d, e)
    BY <2>1 DEF d, e
  <2>3. d = [from |-> d.from, type |-> d.type, ports |-> d.ports]
        /\ e = [from |-> d.from, type |-> d.type, ports |-> e.ports]
    BY <2>2 DEF EntryRecords, SameKey
  <2>4. QED BY <2>3 DEF d, e
<1> HIDE DEF r, w
<1>7. r \in Seq(Seq(Edges(N))) /\ w \in Seq(Seq(Edges(N))) /\ Len(r) = Len(w) /\ Len(r) \in Nat
  BY <1>1, <1>2, <1>3 DEF PortLists
<1>8. \A k \in 1..Len(r) : r[k] = w[k]
  <2> SUFFICES ASSUME NEW k \in 1..Len(r) PROVE r[k] = w[k]
    OBVIOUS
  <2>1. k \in Nat /\ k \in DOMAIN r /\ k \in DOMAIN w
    BY <1>7
  <2>2. QED BY <2>1, <1>5 DEF Held
<1>9. r = w
  BY <1>7, <1>8, SeqEqual
<1>10. QED BY <1>6, <1>9

LEMMA SameEntries ==
  ASSUME NEW N, NEW es, IsEntries(N, es), Tight(es), NEW rs, IsEntries(N, rs), Tight(rs),
         \A f, t : \A p \in Nat : TargetsIn(rs, f, t, p) = TargetsIn(es, f, t, p),
         SameOrder(rs, es)
  PROVE  rs = es
<1> DEFINE n == Len(rs)
           m == Len(es)
           Spots(k) == [entry |-> k, port |-> 0, place |-> 0]
           P == {Spots(a) : a \in 1..m}
           own == [a \in 1..m |-> Spots(a)]
           pos == [i \in 1..n |-> CHOOSE a \in 1..m : SameKey(rs[i], es[a])]
           their == [i \in 1..n |-> Spots(pos[i])]
<1>1. /\ n \in Nat /\ DOMAIN rs = 1..n /\ m \in Nat /\ DOMAIN es = 1..m
      /\ rs \in Seq(EntryRecords(N)) /\ es \in Seq(EntryRecords(N)) /\ Distinct(rs) /\ Distinct(es)
  BY EntryIsRecord
<1> HIDE DEF n, m
<1>2. ASSUME NEW i \in 1..n
      PROVE  pos[i] \in 1..m /\ SameKey(rs[i], es[pos[i]])
  <2>1. \E a \in DOMAIN es : SameKey(rs[i], es[a])
    BY <1>1, KeysMeet
  <2>2. pos[i] = CHOOSE a \in 1..m : SameKey(rs[i], es[a])
    OBVIOUS
  <2> HIDE DEF pos
  <2>3. QED BY <2>1, <2>2, <1>1
<1>3. ASSUME NEW a \in 1..m
      PROVE  \E i \in 1..n : pos[i] = a
  <2>1. \A f, t : \A p \in Nat : TargetsIn(es, f, t, p) = TargetsIn(rs, f, t, p)
    OBVIOUS
  <2>2. \E i \in DOMAIN rs : SameKey(es[a], rs[i])
    BY <1>1, <2>1, KeysMeet
  <2>3. PICK i \in 1..n : SameKey(es[a], rs[i])
    BY <2>2, <1>1
  <2>4. pos[i] \in 1..m /\ SameKey(rs[i], es[pos[i]])
    BY <1>2
  <2> HIDE DEF pos
  <2>5. pos[i] = a
    BY <2>3, <2>4, <1>1 DEF Distinct, SameKey
  <2>6. QED BY <2>5
<1> HIDE DEF pos
<1>4. \A i, j \in 1..n : i < j => pos[i] < pos[j]
  BY <1>1, <1>2 DEF SameOrder
<1>5. \A k \in Nat : /\ Spots(k) \in PlaceRecords
                     /\ Spots(k).entry = k /\ Spots(k).port = 0 /\ Spots(k).place = 0
  BY DEF PlaceRecords
<1>6. P \in SUBSET PlaceRecords
  BY <1>5
<1>7. \A a \in 1..m : own[a] = Spots(a) /\ a \in Nat
  OBVIOUS
<1>8. \A i \in 1..n : their[i] = Spots(pos[i]) /\ pos[i] \in Nat /\ Spots(pos[i]) \in P
  BY <1>2
<1>9. /\ \A x \in P : \E a \in 1..m : x = Spots(a)
      /\ \A a \in 1..m : Spots(a) \in P
  OBVIOUS
<1> HIDE DEF P, own, their, Spots
<1>10. Enumerates(own, m, P)
  <2>1. \A a \in 1..m : own[a] \in P
    BY <1>7, <1>9
  <2>2. \A x \in P : \E a \in 1..m : own[a] = x
    BY <1>7, <1>9
  <2>3. \A a, b \in 1..m : a < b => Before(own[a], own[b])
    BY <1>5, <1>7 DEF Before
  <2>4. QED BY <2>1, <2>2, <2>3 DEF Enumerates
<1>11. Enumerates(their, n, P)
  <2>1. \A i \in 1..n : their[i] \in P
    BY <1>8
  <2>2. ASSUME NEW x \in P PROVE \E i \in 1..n : their[i] = x
    <3>1. PICK a \in 1..m : x = Spots(a)
      BY <1>9
    <3>2. PICK i \in 1..n : pos[i] = a
      BY <1>3
    <3>3. their[i] = x
      BY <3>1, <3>2, <1>8
    <3>4. QED BY <3>3
  <2>3. ASSUME NEW i \in 1..n, NEW j \in 1..n, i < j PROVE Before(their[i], their[j])
    <3>1. their[i].entry = pos[i] /\ their[j].entry = pos[j]
      BY <1>5, <1>8
    <3>2. QED BY <3>1, <2>3, <1>4 DEF Before
  <2>4. QED BY <2>1, <2>2, <2>3 DEF Enumerates
<1>12. n = m /\ \A k \in 1..n : their[k] = own[k]
  BY <1>1, <1>6, <1>10, <1>11, OneEnumeration
<1>13. \A k \in 1..n : pos[k] = k
  <2> SUFFICES ASSUME NEW k \in 1..n PROVE pos[k] = k
    OBVIOUS
  <2>1. Spots(pos[k]) = Spots(k) /\ pos[k] \in Nat /\ k \in Nat
    BY <1>7, <1>8, <1>12
  <2>2. Spots(pos[k]).entry = pos[k] /\ Spots(k).entry = k
    BY <2>1, <1>5
  <2>3. QED BY <2>1, <2>2
<1>14. \A k \in 1..n : rs[k] = es[k]
  <2> SUFFICES ASSUME NEW k \in 1..n PROVE rs[k] = es[k]
    OBVIOUS
  <2>1. k \in DOMAIN rs /\ k \in DOMAIN es /\ SameKey(rs[k], es[k])
    BY <1>1, <1>2, <1>12, <1>13
  <2>2. QED BY <2>1, SamePorts
<1>15. QED BY <1>1, <1>12, <1>14, SeqEqual DEF n, m
-----------------------------------------------------------------------------
(***************************************************************************)
(* Connections of a traced list come in turn.                              *)
(***************************************************************************)
LEMMA KeyWasRead ==
  ASSUME NEW N, NEW es, IsEntries(N, es), NEW rs, IsEntries(N, rs), Tight(rs),
         NEW org, NEW c \in Nat, Restoring(org, c, es, rs), NEW i \in DOMAIN rs
  PROVE  \E j \in 1..c : org[j] \in Places(es) /\ SameKey(rs[i], es[org[j].entry])
<1> DEFINE p == Len(rs[i].ports)
           f == rs[i].from
           t == rs[i].type
           r == TargetsIn(rs, f, t, p)
           w == TargetsIn(es, f, t, p)
<1>1. p \in Nat /\ Len(r) \in Nat \ {0}
  BY TightIsThere
<1> HIDE DEF p
<1>2. w \in Seq(Edges(N)) /\ Len(r) <= Len(w)
  BY <1>1, TargetsAreSequences DEF Restoring, Begins
<1> HIDE DEF r, w
<1>3. Len(w) \in Nat \ {0} /\ w # <<>> /\ DOMAIN w = 1..Len(w)
  BY <1>1, <1>2
<1>4. PICK a \in DOMAIN es : es[a].from = f /\ es[a].type = t
  BY <1>3, TargetsOfNone DEF w
<1>5. w = Held(es[a].ports, p)
  BY <1>4, TargetsOfEntry DEF w
<1>6. p \in DOMAIN es[a].ports /\ w = es[a].ports[p]
  BY <1>3, <1>5 DEF Held
<1> DEFINE x == [entry |-> a, port |-> p, place |-> 1]
<1>7. x \in PlaceRecords /\ x.entry = a /\ x.port = p /\ x.place = 1
  BY <1>1, <1>4, PlaceNumbers DEF PlaceRecords
<1> HIDE DEF x
<1>8. x \in Places(es)
  BY <1>3, <1>4, <1>6, <1>7 DEF Places
<1>9. RestoredOf(rs, es, x) = r
  BY <1>4, <1>7 DEF RestoredOf, r
<1>10. x.place <= Len(RestoredOf(rs, es, x))
  BY <1>1, <1>7, <1>9
<1>11. PICK j \in 1..c : org[j] = x
  BY <1>8, <1>10 DEF Restoring
<1>12. SameKey(rs[i], es[x.entry])
  BY <1>4, <1>7 DEF SameKey
<1>13. QED BY <1>8, <1>11, <1>12

LEMMA ReadIsThere ==
  ASSUME NEW N, NEW es, IsEntries(N, es), NEW rs, IsEntries(N, rs),
         NEW org, NEW c \in Nat, Restoring(org, c, es, rs),
         NEW j \in 1..c, org[j] \in Places(es)
  PROVE  \E i \in DOMAIN rs : SameKey(rs[i], es[org[j].entry])
<1> DEFINE x == org[j]
           f == es[x.entry].from
           t == es[x.entry].type
<1>1. x \in Places(es) /\ x.place \in Nat \ {0}
  <2>1. x \in Places(es)
    OBVIOUS
  <2> HIDE DEF x
  <2>2. x.place \in 1..Len(es[x.entry].ports[x.port])
    BY <2>1, ConnectionOfPlace
  <2>3. QED BY <2>1, <2>2
<1>2. x.place <= Len(RestoredOf(rs, es, x))
  BY DEF Restoring
<1>3. RestoredOf(rs, es, x) = TargetsIn(rs, f, t, x.port)
  BY DEF RestoredOf
<1> HIDE DEF x
<1>4. TargetsIn(rs, f, t, x.port) # <<>>
  BY <1>1, <1>2, <1>3
<1>5. \E i \in DOMAIN rs : rs[i].from = f /\ rs[i].type = t
  BY <1>4, TargetsOfNone
<1>6. QED BY <1>5 DEF SameKey, x

LEMMA ComesInTurn ==
  ASSUME NEW N, NEW es, IsEntries(N, es), NEW rs, IsEntries(N, rs), Tight(rs),
         NEW L, NEW org, Traced(L, org, es, Places(es)),
         NEW c \in Nat, c + 1 \in 1..Len(L), Restoring(org, c, es, rs),
         org[c + 1] \in Places(es)
  PROVE  /\ L[c + 1].conn_type = "main" => \A i \in DOMAIN rs : rs[i].type = "main"
         /\ Tight(es) => InTurn(rs, es, L[c + 1], org[c + 1].entry)
<1> DEFINE x == org[c + 1]
           con == L[c + 1]
           a == x.entry
<1>1. con = ConnectionAt(es, x) /\ x \in Places(es)
  BY DEF Traced
<1>2. con.from_node = es[a].from /\ con.conn_type = es[a].type
  <2> HIDE DEF x, con
  <2>1. /\ ConnectionAt(es, x).from_node = es[x.entry].from
        /\ ConnectionAt(es, x).conn_type = es[x.entry].type
    BY <1>1, ConnectionOfPlace
  <2>2. QED BY <1>1, <2>1
<1>3. /\ \A y \in Places(es) : y.entry \in DOMAIN es /\ y.entry \in Nat
      /\ Distinct(es) /\ Len(L) \in Nat
  BY PlaceNumbers, EntryIsRecord DEF Traced
<1>4. a \in DOMAIN es /\ a \in Nat /\ Matches(es[a], con)
  BY <1>1, <1>2, <1>3 DEF Matches
<1>5. \A j \in 1..c : j \in 1..Len(L) /\ (org[j] \in Places(es) => Precedes(es, org[j], x))
  <2>1. \A j \in 1..c : j \in 1..Len(L) /\ j < c + 1
    BY <1>3
  <2>2. QED BY <2>1 DEF Traced
<1>6. \A j \in c + 2..Len(L) : j \in 1..Len(L) /\ (org[j] \in Places(es) => Precedes(es, x, org[j]))
  <2>1. \A j \in c + 2..Len(L) : j \in 1..Len(L) /\ c + 1 < j
    BY <1>3
  <2>2. QED BY <2>1 DEF Traced
<1>7. \A i \in DOMAIN rs : \E j \in 1..c : org[j] \in Places(es) /\ SameKey(rs[i], es[org[j].entry])
  BY KeyWasRead
<1> HIDE DEF x, con, a
<1>8. ASSUME NEW i \in DOMAIN rs, NEW b \in DOMAIN es, SameKey(rs[i], es[b])
      PROVE  \E y \in Places(es) : y.entry = b /\ Precedes(es, y, x)
  <2>1. PICK j \in 1..c : org[j] \in Places(es) /\ SameKey(rs[i], es[org[j].entry])
    BY <1>7
  <2>2. org[j].entry = b
    BY <2>1, <1>3, <1>8 DEF Distinct, SameKey
  <2>3. QED BY <2>1, <2>2, <1>5
<1>9. \A y \in Places(es) :
        Precedes(es, y, x) =>
          /\ es[a].type = "main" => es[y.entry].type = "main" /\ y.entry <= a
          /\ es[a].type # "main" /\ es[y.entry].type # "main" => y.entry <= a
  <2> SUFFICES ASSUME NEW y \in Places(es), Precedes(es, y, x)
               PROVE  /\ es[a].type = "main" => es[y.entry].type = "main" /\ y.entry <= a
                      /\ es[a].type # "main" /\ es[y.entry].type # "main" => y.entry <= a
    OBVIOUS
  <2>1. y.entry \in Nat /\ a \in Nat /\ x.entry = a
    BY <1>3, <1>4 DEF a
  <2>2. Before(y, x) => y.entry <= a
    BY <2>1 DEF Before
  <2>3. QED BY <2>1, <2>2 DEF Precedes, IsMain
<1>10. \A i \in DOMAIN rs : \E b \in DOMAIN es : SameKey(rs[i], es[b])
  BY <1>3, <1>7
<1>11. ASSUME con.conn_type = "main"
       PROVE  \A i \in DOMAIN rs : \A b \in DOMAIN es :
                SameKey(rs[i], es[b]) => rs[i].type = "main" /\ b <= a
  <2>1. es[a].type = "main"
    BY <1>4, <1>11 DEF Matches
  <2>2. QED BY <2>1, <1>8, <1>9 DEF SameKey
<1>12. con.conn_type = "main" => \A i \in DOMAIN rs : rs[i].type = "main"
  BY <1>10, <1>11
<1>13. ASSUME Tight(es) PROVE InTurn(rs, es, con, a)
  <2>1. ASSUME con.conn_type # "main", NEW b \in DOMAIN es, es[b].type = "main"
        PROVE  \E i \in DOMAIN rs : SameKey(rs[i], es[b])
    <3> DEFINE p == Len(es[b].ports)
               y == [entry |-> b, port |-> p, place |-> 1]
    <3>1. /\ p \in Nat /\ p \in DOMAIN es[b].ports
          /\ Len(TargetsIn(es, es[b].from, es[b].type, p)) \in Nat \ {0}
          /\ es[b].ports[p] = TargetsIn(es, es[b].from, es[b].type, p)
          /\ es[b].ports[p] \in Seq(Edges(N))
      BY <1>13, TightIsThere
    <3> HIDE DEF p
    <3>2. 1 \in DOMAIN es[b].ports[p]
      <4> DEFINE list == es[b].ports[p]
      <4>1. list \in Seq(Edges(N)) /\ Len(list) \in Nat \ {0}
        BY <3>1
      <4> HIDE DEF list
      <4>2. 1 \in DOMAIN list
        BY <4>1
      <4>3. QED BY <4>2 DEF list
    <3>3. y \in PlaceRecords /\ y.entry = b /\ y.port = p /\ y.place = 1
      BY <3>1, PlaceNumbers DEF PlaceRecords
    <3> HIDE DEF y
    <3>4. y \in Places(es)
      BY <3>1, <3>2, <3>3 DEF Places
    <3>5. PICK j \in 1..Len(L) : org[j] = y
      BY <3>4 DEF Traced
    <3>6. es[a].type # "main" /\ x.entry = a
      BY <1>4, <2>1 DEF Matches, a
    <3>7. j # c + 1
      BY <3>3, <3>5, <3>6, <2>1 DEF x
    <3>8. j \notin c + 2..Len(L)
      <4>1. ~ Precedes(es, x, y)
        BY <3>3, <3>6, <2>1 DEF Precedes, IsMain
      <4>2. QED BY <4>1, <1>6, <3>4, <3>5
    <3>9. j \in 1..c
      BY <3>7, <3>8, <1>3
    <3>10. \E i \in DOMAIN rs : SameKey(rs[i], es[org[j].entry])
      BY <3>4, <3>5, <3>9, ReadIsThere
    <3>11. QED BY <3>3, <3>5, <3>10
  <2>2. ASSUME con.conn_type # "main"
        PROVE  \A i \in DOMAIN rs : \A b \in DOMAIN es :
                 SameKey(rs[i], es[b]) /\ es[b].type # "main" => b <= a
    <3>1. es[a].type # "main"
      BY <1>4, <2>2 DEF Matches
    <3>2. QED BY <3>1, <1>8, <1>9
  <2>3. QED BY <1>4, <1>10, <1>11, <2>1, <2>2 DEF InTurn
<1>14. QED BY <1>12, <1>13 DEF con, x, a
-----------------------------------------------------------------------------
(***************************************************************************)
(* The invariant.  A workflow that was decompiled once is what it would be *)
(* decompiled to again, and so every document but the first is the one of  *)
(* the workflow that is compiled next.                                     *)
(***************************************************************************)
WrittenSettings(s) == IF s = None THEN "{}" ELSE s
KeptSettings(s) == IF s = "{}" THEN "v1" ELSE s

Decompiled(w, es) ==
  [names    |-> sorted(Range(w.names)),
   entries  |-> es,
   policy   |-> restore_policy(error_policy(w.policy)),
   settings |-> KeptSettings(WrittenSettings(w.settings))]

Normal(w) ==
  /\ Canonical(w.entries) /\ Tight(w.entries)
  /\ \E v : Range(v.names) = Range(w.names) /\ w = Decompiled(v, w.entries)

Closing(w, M, X, A, ts, t) ==
  /\ InOrder(M, OfKind(w.entries, TRUE), AsRead(w.entries))
  /\ InOrder(A, OfKind(w.entries, FALSE), AsRead(w.entries))
  /\ LET T == Ends(w.names, M, A)
     IN  /\ t <= Len(T) /\ ts \in Seq(Int) /\ Len(ts) = Len(T) - t
         /\ \A i \in 1..Len(ts) : ts[i] = T[t + i]
         /\ InOrder(X, ExitPlaces(T, t), ExitAt(T))

SettleParse ==
  /\ InOrder(connections, ReadBefore(TripEntries, cursor, TRUE), AsRead(TripEntries))
  /\ InOrder(ai_connections, ReadBefore(TripEntries, cursor, FALSE), AsRead(TripEntries))

SettleClose ==
  \E M, X : \E t \in Nat :
    connections = M \o X /\ Closing(wf, M, X, ai_connections, terminals, t)

SettleRestore ==
  /\ Canonical(restored) /\ Tight(restored)
  /\ Len(ir) >= 2 => SameOrder(restored, TripEntries)

DocumentsAgree == \A i \in 2..Len(ir) : Written(ir[i], wf)

SettleInv ==
  /\ DocumentsAgree
  /\ Len(ir) >= (IF trip_pc = "restore" THEN 2 ELSE 1) => Normal(wf)
  /\ trip_pc = "parse" => SettleParse
  /\ trip_pc = "close" => SettleClose
  /\ trip_pc = "restore" => SettleRestore

LEMMA PolicyStays ==
  ASSUME NEW raw
  PROVE  restore_policy(error_policy(restore_policy(error_policy(raw))))
           = restore_policy(error_policy(raw))
<1> DEFINE p == error_policy(raw)
           r == restore_policy(p)
           q == error_policy(r)
<1>1. /\ p.on_error = IF raw.onError \in {"continue", "stop"} THEN raw.onError ELSE "stop"
      /\ p.retry = raw.retry /\ p.tries = IF raw.retry THEN raw.tries ELSE None
  BY DEF error_policy
<1>2. r = [onError |-> IF p.on_error = "stop" THEN None ELSE p.on_error,
           retry |-> p.retry, tries |-> IF p.retry THEN p.tries ELSE None]
  BY DEF restore_policy
<1>3. q = [on_error |-> IF r.onError \in {"continue", "stop"} THEN r.onError ELSE "stop",
           retry |-> r.retry, tries |-> IF r.retry THEN r.tries ELSE None]
  BY DEF error_policy
<1>4. restore_policy(q) = [onError |-> IF q.on_error = "stop" THEN None ELSE q.on_error,
                           retry |-> q.retry, tries |-> IF q.retry THEN q.tries ELSE None]
  BY DEF restore_policy
<1> HIDE DEF p, r, q
<1>5. q.on_error = p.on_error
  BY <1>1, <1>2, <1>3, DecompileAssumption
<1>6. q.retry = p.retry /\ (IF q.retry THEN q.tries ELSE None) = (IF p.retry THEN p.tries ELSE None)
  BY <1>2, <1>3
<1>7. restore_policy(q) = r
  BY <1>2, <1>4, <1>5, <1>6
<1>8. QED BY <1>7 DEF p, q, r

LEMMA DecompiledAgain ==
  ASSUME NEW w, Normal(w)
  PROVE  Decompiled(w, w.entries) = w
<1>1. PICK v : Range(v.names) = Range(w.names) /\ w = Decompiled(v, w.entries)
  BY DEF Normal
<1>2. /\ w.names = sorted(Range(v.names)) /\ w.policy = restore_policy(error_policy(v.policy))
      /\ w.settings = KeptSettings(WrittenSettings(v.settings))
      /\ w = [names |-> w.names, entries |-> w.entries, policy |-> w.policy, settings |-> w.settings]
  BY <1>1 DEF Decompiled
<1>3. sorted(Range(w.names)) = w.names
  BY <1>1, <1>2
<1>4. restore_policy(error_policy(w.policy)) = w.policy
  BY <1>2, PolicyStays
<1>5. KeptSettings(WrittenSettings(w.settings)) = w.settings
  BY <1>2 DEF KeptSettings, WrittenSettings
<1>6. QED BY <1>2, <1>3, <1>4, <1>5 DEF Decompiled

LEMMA NothingRestored == Canonical(<<>>) /\ Tight(<<>>) /\ \A es : SameOrder(<<>>, es)
<1>1. DOMAIN <<>> = {}
  OBVIOUS
<1> DEFINE empty == <<>>
<1>2. DOMAIN empty = {}
  BY <1>1
<1> HIDE DEF empty
<1>3. Canonical(empty) /\ Tight(empty) /\ \A es : SameOrder(empty, es)
  BY <1>2 DEF Canonical, OrderedOn, Grouped, MainFirst, MainSources, Tight, SameOrder
<1>4. QED BY <1>3 DEF empty

LEMMA SettleInitInv == TripInit => SettleInv
<1> SUFFICES ASSUME TripInit PROVE SettleInv
  OBVIOUS
<1>1. /\ wf = source /\ ir = <<>> /\ trip_pc = "parse"
      /\ cursor = Start /\ connections = <<>> /\ ai_connections = <<>> /\ source \in Workflows
  BY DEF TripInit
<1>2. IsEntries(TripNames, TripEntries)
  BY <1>1, WorkflowEntries DEF TripEntries
<1>3. \A m : ReadBefore(TripEntries, Start, m) = {}
  BY <1>2, ReadNothing
<1>4. SettleParse
  BY <1>1, <1>3, InOrderEmpty DEF SettleParse
<1>5. Len(ir) = 0
  BY <1>1
<1>6. QED BY <1>1, <1>4, <1>5 DEF SettleInv, DocumentsAgree

(* What stays while the workflow and the documents do.                     *)
LEMMA SettleStays ==
  ASSUME SettleInv, UNCHANGED <<wf, ir>>
  PROVE  /\ DocumentsAgree' /\ TripEntries' = TripEntries /\ Len(ir') = Len(ir)
         /\ Normal(wf') <=> Normal(wf)
<1>1. wf' = wf /\ ir' = ir
  OBVIOUS
<1>2. DocumentsAgree'
  BY <1>1 DEF SettleInv, DocumentsAgree
<1>3. QED BY <1>1, <1>2 DEF TripEntries

LEMMA SettleReadPort == TripInv /\ SettleInv /\ ReadPort => SettleInv'
<1> SUFFICES ASSUME TripInv, SettleInv, ReadPort PROVE SettleInv'
  OBVIOUS
<1> DEFINE es == TripEntries
           i == cursor.entry
           p == cursor.port
           read == PortConnections(es[i], p)
           here == PortPlaces(es, i, p)
           old(m) == ReadBefore(es, cursor, m)
           new(m) == ReadBefore(es, cursor', m)
<1>1. /\ trip_pc = "parse"
      /\ i \in DOMAIN es /\ p \in DOMAIN es[i].ports
      /\ connections' = IF es[i].type = "main" THEN connections \o read ELSE connections
      /\ ai_connections' = IF es[i].type = "main" THEN ai_connections ELSE ai_connections \o read
      /\ cursor' = [cursor EXCEPT !.port = @ + 1]
      /\ UNCHANGED <<wf, ir, trip_pc>>
  BY DEF ReadPort, Reading, TripEntries
<1>2. IsEntries(TripNames, es) /\ cursor \in Cursors
  BY <1>1 DEF TripInv, TripKept, ParseInv
<1>3. cursor' \in Cursors /\ cursor'.entry = i /\ cursor'.port = p + 1
  BY <1>1, <1>2 DEF Cursors
<1>4. /\ DocumentsAgree' /\ TripEntries' = es /\ Len(ir') = Len(ir)
      /\ Normal(wf') <=> Normal(wf)
  BY <1>1, SettleStays
<1>5. InOrder(read, here, AsRead(es))
  BY <1>1, <1>2, InOrderPort
<1>6. \A m \in BOOLEAN : new(m) = IF (es[i].type = "main") <=> m THEN old(m) \cup here ELSE old(m)
  <2> SUFFICES ASSUME NEW m \in BOOLEAN
               PROVE  new(m) = IF (es[i].type = "main") <=> m THEN old(m) \cup here ELSE old(m)
    OBVIOUS
  <2> DEFINE cur == cursor
             next == cursor'
  <2>1. /\ IsEntries(TripNames, es) /\ cur \in Cursors /\ next \in Cursors
        /\ cur.entry \in DOMAIN es /\ cur.port \in DOMAIN es[cur.entry].ports
        /\ next.entry = cur.entry /\ next.port = cur.port + 1
    BY <1>1, <1>2, <1>3
  <2> HIDE DEF es, cur, next
  <2>2. ReadBefore(es, next, m) =
          IF (es[cur.entry].type = "main") <=> m
          THEN ReadBefore(es, cur, m) \cup PortPlaces(es, cur.entry, cur.port)
          ELSE ReadBefore(es, cur, m)
    BY <2>1, ReadOnePort
  <2>3. QED BY <2>2 DEF cur, next
<1>7. \A m : \A x \in old(m), y \in here : Before(x, y)
  <2> SUFFICES ASSUME NEW m, NEW x \in old(m), NEW y \in here PROVE Before(x, y)
    OBVIOUS
  <2> DEFINE cur == cursor
  <2>1. cur \in Cursors /\ x \in ReadBefore(es, cur, m) /\ y \in PortPlaces(es, cur.entry, cur.port)
    BY <1>2
  <2> HIDE DEF es, cur
  <2>2. IsEntries(TripNames, es)
    BY <1>2 DEF es
  <2>3. QED BY <2>1, <2>2, ReadIsBefore
<1>8. InOrder(connections, old(TRUE), AsRead(es)) /\ InOrder(ai_connections, old(FALSE), AsRead(es))
  BY <1>1 DEF SettleInv, SettleParse
<1> HIDE DEF es, read, here, old, new, i, p
<1>9. InOrder(connections', new(TRUE), AsRead(es)) /\ InOrder(ai_connections', new(FALSE), AsRead(es))
  <2>1. CASE es[i].type = "main"
    <3>1. /\ connections' = connections \o read /\ ai_connections' = ai_connections
          /\ new(TRUE) = old(TRUE) \cup here /\ new(FALSE) = old(FALSE)
      BY <1>1, <1>6, <2>1
    <3>2. InOrder(connections \o read, old(TRUE) \cup here, AsRead(es))
      BY <1>5, <1>7, <1>8, InOrderConcat
    <3>3. QED BY <3>1, <3>2, <1>8
  <2>2. CASE es[i].type # "main"
    <3>1. /\ connections' = connections /\ ai_connections' = ai_connections \o read
          /\ new(FALSE) = old(FALSE) \cup here /\ new(TRUE) = old(TRUE)
      BY <1>1, <1>6, <2>2
    <3>2. InOrder(ai_connections \o read, old(FALSE) \cup here, AsRead(es))
      BY <1>5, <1>7, <1>8, InOrderConcat
    <3>3. QED BY <3>1, <3>2, <1>8
  <2>3. QED BY <2>1, <2>2
<1>10. SettleParse'
  BY <1>4, <1>9 DEF SettleParse, new
<1>11. QED BY <1>1, <1>4, <1>10 DEF SettleInv

LEMMA SettleNextEntry == TripInv /\ SettleInv /\ NextEntry => SettleInv'
<1> SUFFICES ASSUME TripInv, SettleInv, NextEntry PROVE SettleInv'
  OBVIOUS
<1> DEFINE es == TripEntries
<1>1. /\ trip_pc = "parse"
      /\ cursor.entry \in DOMAIN es /\ cursor.port \notin DOMAIN es[cursor.entry].ports
      /\ cursor' = [entry |-> cursor.entry + 1, port |-> 1]
      /\ UNCHANGED <<wf, connections, ai_connections, ir, trip_pc>>
  BY DEF NextEntry, Reading, TripEntries
<1>2. IsEntries(TripNames, es) /\ cursor \in Cursors
  BY <1>1 DEF TripInv, TripKept, ParseInv
<1>3. /\ DocumentsAgree' /\ TripEntries' = es /\ Len(ir') = Len(ir)
      /\ Normal(wf') <=> Normal(wf)
  BY <1>1, SettleStays
<1> HIDE DEF es
<1>4. \A m : ReadBefore(es, cursor', m) = ReadBefore(es, cursor, m)
  BY <1>1, <1>2, ReadEntry
<1>5. SettleParse'
  BY <1>1, <1>3, <1>4 DEF SettleInv, SettleParse, es
<1>6. QED BY <1>1, <1>3, <1>5 DEF SettleInv

LEMMA SettleFindTerminals == TripInv /\ SettleInv /\ FindTerminals => SettleInv'
<1> SUFFICES ASSUME TripInv, SettleInv, FindTerminals PROVE SettleInv'
  OBVIOUS
<1> DEFINE es == TripEntries
           T == Ends(wf.names, connections, ai_connections)
<1>1. /\ trip_pc = "parse" /\ cursor.entry \notin DOMAIN es /\ trip_pc' = "close"
      /\ terminals' = T
      /\ UNCHANGED <<wf, connections, ai_connections, ir>>
  BY DEF FindTerminals, Reading, TripEntries
<1>2. IsEntries(TripNames, es) /\ cursor \in Cursors /\ wf.names \in Seq(Int)
  BY <1>1 DEF TripInv, TripKept, ParseInv
<1>3. /\ DocumentsAgree' /\ TripEntries' = es /\ Len(ir') = Len(ir)
      /\ Normal(wf') <=> Normal(wf)
  BY <1>1, SettleStays
<1>4. T \in Seq(Int)
  BY <1>2, EndsAreList
<1>5. \A m : ReadBefore(es, cursor, m) = OfKind(es, m)
  <2> HIDE DEF es
  <2>1. QED BY <1>1, <1>2, ReadAll
<1>6. InOrder(connections, OfKind(es, TRUE), AsRead(es)) /\ InOrder(ai_connections, OfKind(es, FALSE), AsRead(es))
  BY <1>1, <1>5 DEF SettleInv, SettleParse
<1>7. connections = connections \o <<>>
  <2>1. connections \in Seq(Range(connections))
    BY <1>6 DEF InOrder
  <2>2. QED BY <2>1, ConcatEmptySeq
<1>8. Closing(wf, connections, <<>>, ai_connections, terminals', 0)
  <2>1. Len(T) \in Nat /\ Len(T) = Len(T) - 0 /\ 0 <= Len(T) /\ \A k \in 1..Len(T) : T[k] = T[0 + k]
    BY <1>4
  <2>2. InOrder(<<>>, ExitPlaces(T, 0), ExitAt(T))
    BY NoExits
  <2> HIDE DEF T
  <2>3. Closing(wf, connections, <<>>, ai_connections, T, 0)
    BY <1>4, <1>6, <2>1, <2>2 DEF Closing, es, TripEntries, T
  <2>4. QED BY <1>1, <2>3
<1>9. SettleClose'
  <2>1. /\ wf' = wf /\ connections' = connections \o <<>> /\ ai_connections' = ai_connections
    BY <1>1, <1>7
  <2>2. 0 \in Nat
    OBVIOUS
  <2> HIDE DEF T
  <2>3. \E M, X : \E t \in Nat :
          connections' = M \o X /\ Closing(wf', M, X, ai_connections', terminals', t)
    BY <1>8, <2>1, <2>2
  <2>4. QED BY <2>3 DEF SettleClose
<1>10. QED BY <1>1, <1>3, <1>9 DEF SettleInv
LEMMA ConcatsAssociate ==
  ASSUME NEW s, s \in Seq(Range(s)), NEW t, t \in Seq(Range(t)), NEW u, u \in Seq(Range(u))
  PROVE  (s \o t) \o u = s \o (t \o u)
<1> DEFINE S == Range(s) \cup (Range(t) \cup Range(u))
<1>1. s \in Seq(S) /\ t \in Seq(S) /\ u \in Seq(S)
  <2>1. Range(s) \subseteq S /\ Range(t) \subseteq S /\ Range(u) \subseteq S
    OBVIOUS
  <2> HIDE DEF S
  <2>2. QED BY <2>1, SeqMonotonic
<1> HIDE DEF S
<1>2. QED BY <1>1, ConcatAssociative

(* One more end is led to the exit.                                        *)
LEMMA ClosesOne ==
  ASSUME NEW w, w.names \in Seq(Int), NEW M, NEW X, NEW A, NEW ts, NEW t \in Nat,
         Closing(w, M, X, A, ts, t), ts # <<>>
  PROVE  LET E == ExitConnections(Head(ts))
         IN  /\ (M \o X) \o E = M \o (X \o E)
             /\ Closing(w, M, X \o E, A, Tail(ts), t + 1)
<1> DEFINE T == Ends(w.names, M, A)
           E == ExitConnections(Head(ts))
           rest == Tail(ts)
<1>1. /\ InOrder(M, OfKind(w.entries, TRUE), AsRead(w.entries))
      /\ InOrder(A, OfKind(w.entries, FALSE), AsRead(w.entries))
      /\ t <= Len(T) /\ ts \in Seq(Int) /\ Len(ts) = Len(T) - t
      /\ \A i \in 1..Len(ts) : ts[i] = T[t + i]
      /\ InOrder(X, ExitPlaces(T, t), ExitAt(T))
  BY DEF Closing
<1>2. T \in Seq(Int)
  BY EndsAreList
<1> HIDE DEF T
<1>3. /\ Len(T) \in Nat /\ Len(ts) \in Nat /\ Len(ts) > 0 /\ 1 \in 1..Len(ts) /\ Head(ts) = ts[1]
      /\ rest \in Seq(Int) /\ Len(rest) = Len(ts) - 1
      /\ \A i \in 1..Len(rest) : rest[i] = ts[i + 1]
  <2>1. Len(T) \in Nat /\ Len(ts) \in Nat /\ Len(ts) > 0 /\ 1 \in 1..Len(ts) /\ Head(ts) = ts[1]
    BY <1>1, <1>2
  <2>2. /\ rest \in Seq(Int) /\ Len(rest) = Len(ts) - 1
        /\ \A i \in 1..Len(rest) : rest[i] = ts[i + 1]
    BY <1>1, HeadTailProperties
  <2>3. QED BY <2>1, <2>2
<1>4. E = ExitConnections(T[t + 1])
  BY <1>1, <1>3
<1>5. InOrder(X \o E, ExitPlaces(T, t + 1), ExitAt(T))
  BY <1>1, <1>4, OneMoreExit
<1>6. (M \o X) \o E = M \o (X \o E)
  <2>1. M \in Seq(Range(M)) /\ X \in Seq(Range(X))
    BY <1>1 DEF InOrder
  <2>2. E \in Seq(Range(E))
    <3>1. PICK org : Traced(ExitConnections(Head(ts)), org, {}, {})
      BY TracedExit
    <3>2. QED BY <3>1 DEF Traced
  <2> HIDE DEF E
  <2>3. QED BY <2>1, <2>2, ConcatsAssociate
<1> HIDE DEF E, rest
<1>7. t + 1 <= Len(T) /\ Len(rest) = Len(T) - (t + 1)
  BY <1>1, <1>3
<1>8. ASSUME NEW i \in 1..Len(rest) PROVE rest[i] = T[(t + 1) + i]
  <2>1. i + 1 \in 1..Len(ts) /\ t + (i + 1) = (t + 1) + i
    BY <1>3
  <2>2. QED BY <2>1, <1>1, <1>3
<1>9. Closing(w, M, X \o E, A, rest, t + 1)
  BY <1>1, <1>3, <1>5, <1>7, <1>8 DEF Closing, T
<1>10. QED BY <1>6, <1>9 DEF E, rest

LEMMA SettleCloseOne == TripInv /\ SettleInv /\ CloseOne => SettleInv'
<1> SUFFICES ASSUME TripInv, SettleInv, CloseOne PROVE SettleInv'
  OBVIOUS
<1> DEFINE E == ExitConnections(Head(terminals))
<1>1. /\ trip_pc = "close" /\ terminals # <<>>
      /\ connections' = connections \o E /\ terminals' = Tail(terminals)
      /\ UNCHANGED <<wf, ai_connections, ir, trip_pc>>
  BY DEF CloseOne
<1>2. wf.names \in Seq(Int)
  BY DEF TripInv, TripKept
<1>3. /\ DocumentsAgree' /\ Len(ir') = Len(ir)
      /\ Normal(wf') <=> Normal(wf)
  BY <1>1, SettleStays
<1>4. PICK M, X : \E t \in Nat :
        connections = M \o X /\ Closing(wf, M, X, ai_connections, terminals, t)
  BY <1>1 DEF SettleInv, SettleClose
<1>5. PICK t \in Nat : connections = M \o X /\ Closing(wf, M, X, ai_connections, terminals, t)
  BY <1>4
<1>6. /\ (M \o X) \o E = M \o (X \o E)
      /\ Closing(wf, M, X \o E, ai_connections, Tail(terminals), t + 1)
  BY <1>1, <1>2, <1>5, ClosesOne
<1> HIDE DEF E
<1>7. /\ connections' = M \o (X \o E) /\ t + 1 \in Nat
      /\ Closing(wf', M, X \o E, ai_connections', terminals', t + 1)
  BY <1>1, <1>5, <1>6
<1>8. SettleClose'
  BY <1>7 DEF SettleClose
<1>9. QED BY <1>1, <1>3, <1>8 DEF SettleInv

LEMMA SettleCompile == TripInv /\ SettleInv /\ Compile => SettleInv'
<1> SUFFICES ASSUME TripInv, SettleInv, Compile PROVE SettleInv'
  OBVIOUS
<1> DEFINE d == document
<1>1. /\ trip_pc = "close" /\ terminals = <<>> /\ trip_pc' = "restore"
      /\ ir' = Append(ir, d) /\ restored' = <<>>
      /\ UNCHANGED wf
  BY DEF Compile
<1>2. /\ wf.names \in Seq(Int) /\ ir \in Seq(Range(ir))
  BY DEF TripInv, TripKept
<1>3. PICK M, X : \E t \in Nat :
        connections = M \o X /\ Closing(wf, M, X, ai_connections, terminals, t)
  BY <1>1 DEF SettleInv, SettleClose
<1>4. PICK t \in Nat : connections = M \o X /\ Closing(wf, M, X, ai_connections, terminals, t)
  BY <1>3
<1> DEFINE T == Ends(wf.names, M, ai_connections)
<1>5. /\ InOrder(M, OfKind(wf.entries, TRUE), AsRead(wf.entries))
      /\ InOrder(ai_connections, OfKind(wf.entries, FALSE), AsRead(wf.entries))
      /\ t <= Len(T) /\ Len(terminals) = Len(T) - t /\ InOrder(X, ExitPlaces(T, t), ExitAt(T))
  BY <1>4 DEF Closing
<1>6. T \in Seq(Int)
  BY <1>2, EndsAreList
<1> HIDE DEF T
<1>7. t = Len(T)
  BY <1>1, <1>5, <1>6
<1>8. Lists(wf, M, X, ai_connections)
  BY <1>5, <1>7 DEF Lists, Exits, T
<1>9. d = DocumentOf(wf, (M \o X) \o ai_connections)
  BY <1>4 DEF document, DocumentOf
<1>10. Written(d, wf)
  BY <1>8, <1>9 DEF Written
<1> HIDE DEF d
<1>11. /\ Len(ir) \in Nat /\ Len(ir') = Len(ir) + 1 /\ ir'[Len(ir) + 1] = d
       /\ \A i \in 1..Len(ir) : ir'[i] = ir[i]
  <2>1. ir \in Seq(Range(ir) \cup {d}) /\ d \in Range(ir) \cup {d}
    <3>1. Range(ir) \subseteq Range(ir) \cup {d}
      OBVIOUS
    <3>2. QED BY <3>1, <1>2, SeqMonotonic
  <2>2. /\ Len(ir') = Len(ir) + 1 /\ ir'[Len(ir) + 1] = d
        /\ \A i \in 1..Len(ir) : ir'[i] = ir[i]
    BY <2>1, <1>1, AppendProperties
  <2>3. QED BY <2>2, <1>2
<1>12. DocumentsAgree'
  <2>1. ASSUME NEW i \in 2..Len(ir') PROVE Written(ir'[i], wf')
    <3>1. CASE i = Len(ir) + 1
      BY <3>1, <1>1, <1>10, <1>11
    <3>2. CASE i # Len(ir) + 1
      <4>1. i \in 2..Len(ir) /\ i \in 1..Len(ir)
        BY <3>2, <1>11
      <4>2. Written(ir[i], wf)
        BY <4>1 DEF SettleInv, DocumentsAgree
      <4>3. QED BY <4>1, <4>2, <1>1, <1>11
    <3>3. QED BY <3>1, <3>2
  <2>2. QED BY <2>1 DEF DocumentsAgree
<1>13. Len(ir') >= 2 => Normal(wf')
  <2>1. Len(ir') >= 2 => Len(ir) >= 1
    BY <1>11
  <2>2. QED BY <2>1, <1>1 DEF SettleInv
<1>14. SettleRestore'
  BY <1>1, NothingRestored DEF SettleRestore
<1>15. QED BY <1>1, <1>12, <1>13, <1>14 DEF SettleInv

(* A connection is restored where it belongs.                              *)
LEMMA RestoreSettles ==
  ASSUME NEW N, NEW es, IsEntries(N, es), Exit \notin N,
         IsEntries(N, restored), Canonical(restored), Tight(restored),
         NEW L, NEW org, Traced(L, org, es, Places(es)),
         NEW c \in Nat, c + 1 \in 1..Len(L), Restoring(org, c, es, restored),
         L[c + 1].to_node # Exit
  PROVE  LET rt == WithEdge(L[c + 1])
         IN  /\ Canonical(rt) /\ Tight(rt)
             /\ Canonical(es) /\ Tight(es) /\ SameOrder(restored, es) => SameOrder(rt, es)
<1> DEFINE con == L[c + 1]
           x == org[c + 1]
           rt == WithEdge(con)
           rs == restored
<1>1. x \in Places(es) /\ con = ConnectionAt(es, x)
  <2>1. c + 1 \in 1..Len(L)
    OBVIOUS
  <2>2. QED BY <2>1 DEF Traced
<1>2. /\ con.from_node \in N /\ con.conn_type \in ConnTypes /\ EdgeOf(con) \in Edges(N)
      /\ port_index(con.from_port) \in Nat
  <2> HIDE DEF con, x
  <2>1. LET d == ConnectionAt(es, x)
        IN  /\ d.from_node \in N /\ d.conn_type \in ConnTypes /\ EdgeOf(d) \in Edges(N)
            /\ port_index(d.from_port) \in Nat
    BY <1>1, ConnectionOfPlace
  <2>2. QED BY <1>1, <2>1
<1>3. /\ con.conn_type = "main" => \A i \in DOMAIN rs : rs[i].type = "main"
      /\ Tight(es) => InTurn(rs, es, con, x.entry)
  BY <1>1, ComesInTurn
<1>4. DOMAIN rs = 1..Len(rs) /\ Len(rs) \in Nat
  BY EntryIsRecord
<1>5. DOMAIN es \subseteq Nat /\ Distinct(es)
  BY EntryIsRecord
<1> DEFINE a == x.entry
<1> HIDE DEF con, x, a
<1>6. Grown(rs, rt, con) \/ Put(rs, rt, con)
  BY <1>2, EdgePut
<1> HIDE DEF rt, rs
<1>7. IsEntries(N, rs) /\ Canonical(rs) /\ Tight(rs)
  BY DEF rs
<1>8. Canonical(rt)
  <2>1. CASE Grown(rs, rt, con)
    BY <2>1, <1>7, CanonicalGrown
  <2>2. CASE Put(rs, rt, con)
    BY <2>2, <1>3, <1>4, <1>7, CanonicalPut
  <2>3. QED BY <2>1, <2>2, <1>6
<1>9. Tight(rt)
  BY <1>2, <1>6, <1>7, TightKept
<1>10. ASSUME Canonical(es), Tight(es), SameOrder(rs, es) PROVE SameOrder(rt, es)
  <2>1. CASE Grown(rs, rt, con)
    BY <2>1, <1>10, OrderGrown
  <2>2. CASE Put(rs, rt, con)
    <3>1. InTurn(rs, es, con, a)
      BY <1>3, <1>10 DEF a
    <3>2. QED BY <2>2, <3>1, <1>4, <1>5, <1>10, OrderPut
  <2>3. QED BY <2>1, <2>2, <1>6
<1>11. QED BY <1>8, <1>9, <1>10 DEF rt, rs, con

LEMMA PendingIsNext ==
  ASSUME TripInv, trip_pc = "restore", pending # <<>>
  PROVE  \E L, org : \E c \in Nat :
           /\ Traced(L, org, TripEntries, Places(TripEntries))
           /\ c + 1 \in 1..Len(L) /\ Head(pending) = L[c + 1]
           /\ Restoring(org, c, TripEntries, restored)
<1> DEFINE L == Last(ir).connections
<1>1. PICK org : \E c \in 0..Len(L) :
              /\ Traced(L, org, TripEntries, Places(TripEntries))
              /\ Len(pending) = Len(L) - c
              /\ pending \in Seq(Range(L))
              /\ \A i \in 1..Len(pending) : pending[i] = L[c + i]
              /\ Restoring(org, c, TripEntries, restored)
  BY DEF TripInv, RestoreInv
<1>2. PICK c \in 0..Len(L) :
              /\ Traced(L, org, TripEntries, Places(TripEntries))
              /\ Len(pending) = Len(L) - c
              /\ pending \in Seq(Range(L))
              /\ \A i \in 1..Len(pending) : pending[i] = L[c + i]
              /\ Restoring(org, c, TripEntries, restored)
  BY <1>1
<1> HIDE DEF L
<1>3. Len(L) \in Nat
  BY <1>2 DEF Traced
<1>4. Len(pending) \in Nat /\ Len(pending) > 0 /\ Head(pending) = pending[1]
  BY <1>2
<1>5. c \in Nat /\ c + 1 \in 1..Len(L) /\ 1 \in 1..Len(pending)
  BY <1>2, <1>3, <1>4
<1>6. Head(pending) = L[c + 1]
  BY <1>2, <1>4, <1>5
<1>7. QED BY <1>2, <1>5, <1>6

LEMMA SettleRestoreOne == TripInv /\ SettleInv /\ RestoreOne => SettleInv'
<1> SUFFICES ASSUME TripInv, SettleInv, RestoreOne PROVE SettleInv'
  OBVIOUS
<1> DEFINE con == Head(pending)
           es == TripEntries
<1>1. /\ trip_pc = "restore" /\ pending # <<>>
      /\ restored' = IF con.to_node = Exit THEN restored ELSE WithEdge(con)
      /\ UNCHANGED <<wf, ir, trip_pc>>
  BY DEF RestoreOne, WithEdge
<1>2. /\ IsEntries(TripNames, es) /\ IsEntries(TripNames, restored) /\ Exit \notin TripNames
  BY WorkflowEntries DEF TripInv, TripKept
<1>3. /\ DocumentsAgree' /\ TripEntries' = es /\ Len(ir') = Len(ir)
      /\ Normal(wf') <=> Normal(wf)
  BY <1>1, SettleStays
<1>4. Canonical(restored) /\ Tight(restored) /\ (Len(ir) >= 2 => SameOrder(restored, es))
  BY <1>1 DEF SettleInv, SettleRestore
<1>5. Len(ir) >= 2 => Canonical(es) /\ Tight(es)
  BY <1>1 DEF SettleInv, Normal, TripEntries
<1>6. PICK L, org : \E c \in Nat :
           /\ Traced(L, org, es, Places(es))
           /\ c + 1 \in 1..Len(L) /\ con = L[c + 1]
           /\ Restoring(org, c, es, restored)
  BY <1>1, PendingIsNext
<1>7. PICK c \in Nat :
           /\ Traced(L, org, es, Places(es))
           /\ c + 1 \in 1..Len(L) /\ con = L[c + 1]
           /\ Restoring(org, c, es, restored)
  BY <1>6
<1> HIDE DEF con, es
<1>8. SettleRestore'
  <2>1. CASE con.to_node = Exit
    BY <2>1, <1>1, <1>3, <1>4 DEF SettleRestore
  <2>2. CASE con.to_node # Exit
    <3>1. LET rt == WithEdge(L[c + 1])
          IN  /\ Canonical(rt) /\ Tight(rt)
              /\ Canonical(es) /\ Tight(es) /\ SameOrder(restored, es) => SameOrder(rt, es)
      BY <2>2, <1>2, <1>4, <1>7, RestoreSettles
    <3>2. restored' = WithEdge(L[c + 1])
      BY <2>2, <1>1, <1>7
    <3>3. QED BY <3>1, <3>2, <1>3, <1>4, <1>5 DEF SettleRestore
  <2>3. QED BY <2>1, <2>2
<1>9. QED BY <1>1, <1>3, <1>8 DEF SettleInv

LEMMA SettleRestored == TripInv /\ SettleInv /\ Restored => SettleInv'
<1> SUFFICES ASSUME TripInv, SettleInv, Restored PROVE SettleInv'
  OBVIOUS
<1> DEFINE es == TripEntries
           d == Last(ir)
<1>1. /\ trip_pc = "restore" /\ trip_pc' = "parse"
      /\ wf' = [names    |-> d.nodes,
                entries  |-> restored,
                policy   |-> restore_policy(d.policy),
                settings |-> IF d.settings = "{}" THEN "v1" ELSE d.settings]
      /\ cursor' = Start /\ connections' = <<>> /\ ai_connections' = <<>>
      /\ UNCHANGED <<source, ir, restored>>
  BY DEF Restored
<1>2. /\ TripKept /\ TripKept' /\ RestoreInv
      /\ IsEntries(TripNames, restored) /\ IsEntries(TripNames, es)
  BY <1>1, RestoredStep DEF TripInv, TripKept
<1>3. /\ d.nodes = sorted(TripNames) /\ d.policy = error_policy(wf.policy)
      /\ d.settings = IF wf.settings = None THEN "{}" ELSE wf.settings
  BY <1>2 DEF RestoreInv
<1>4. Range(wf.names) = TripNames /\ TripNames' = TripNames /\ Range(wf'.names) = TripNames
  BY <1>1, <1>2 DEF TripKept, TripNames
<1> HIDE DEF d
<1>5. wf' = Decompiled(wf, restored) /\ wf'.entries = restored
  BY <1>1, <1>3, <1>4 DEF Decompiled, KeptSettings, WrittenSettings
<1>6. Canonical(restored) /\ Tight(restored) /\ (Len(ir) >= 2 => SameOrder(restored, es))
  BY <1>1 DEF SettleInv, SettleRestore
<1>7. Normal(wf')
  BY <1>4, <1>5, <1>6 DEF Normal
<1>8. \A f, t : \A p \in Nat : TargetsIn(restored, f, t, p) = TargetsIn(es, f, t, p)
  <2>1. \A f, t : \A p \in Nat : Targets(wf, f, t, p) = Targets(source, f, t, p)
    BY <1>2 DEF TripKept
  <2>2. \A f, t : \A p \in Nat : TargetsIn(wf'.entries, f, t, p) = TargetsIn(source'.entries, f, t, p)
    BY <1>2 DEF TripKept, Targets
  <2>3. source' = source /\ wf'.entries = restored
    BY <1>1, <1>5
  <2>4. QED BY <2>1, <2>2, <2>3 DEF Targets, es, TripEntries
<1>9. ASSUME Len(ir) >= 2 PROVE wf' = wf
  <2>1. Normal(wf)
    BY <1>1, <1>9 DEF SettleInv
  <2>2. Tight(es)
    BY <2>1 DEF Normal, es, TripEntries
  <2>3. SameOrder(restored, es)
    BY <1>6, <1>9
  <2> HIDE DEF es
  <2>4. restored = es
    BY <2>2, <2>3, <1>2, <1>6, <1>8, SameEntries
  <2>5. Decompiled(wf, wf.entries) = wf
    BY <2>1, DecompiledAgain
  <2>6. QED BY <2>4, <2>5, <1>5 DEF es, TripEntries
<1>10. DocumentsAgree'
  <2>1. ASSUME NEW i \in 2..Len(ir) PROVE Written(ir[i], wf')
    <3>1. Len(ir) >= 2
      <4>1. ir \in Seq(Range(ir))
        BY DEF TripInv
      <4>2. QED BY <4>1
    <3>2. Written(ir[i], wf)
      BY DEF SettleInv, DocumentsAgree
    <3>3. QED BY <3>1, <3>2, <1>9
  <2>2. QED BY <2>1, <1>1 DEF DocumentsAgree
<1>11. SettleParse'
  <2>1. TripEntries' = restored
    BY <1>5 DEF TripEntries
  <2>2. \A m : ReadBefore(restored, Start, m) = {}
    BY <1>2, ReadNothing
  <2>3. QED BY <2>1, <2>2, <1>1, InOrderEmpty DEF SettleParse
<1>12. QED BY <1>1, <1>7, <1>10, <1>11 DEF SettleInv

LEMMA SettleStepInv == TripInv /\ SettleInv /\ [TripNext]_trip_vars => SettleInv'
<1> SUFFICES ASSUME TripInv, SettleInv, [TripNext]_trip_vars PROVE SettleInv'
  OBVIOUS
<1>1. CASE UNCHANGED trip_vars
  <2>1. UNCHANGED <<wf, cursor, connections, ai_connections, terminals, ir, restored, trip_pc>>
    BY <1>1 DEF trip_vars, parse_vars
  <2>2. /\ DocumentsAgree' /\ TripEntries' = TripEntries /\ Len(ir') = Len(ir)
        /\ Normal(wf') <=> Normal(wf)
    BY <2>1, SettleStays
  <2>3. SettleParse => SettleParse'
    BY <2>1, <2>2 DEF SettleParse
  <2>4. SettleClose => SettleClose'
    BY <2>1 DEF SettleClose
  <2>5. SettleRestore => SettleRestore'
    BY <2>1, <2>2 DEF SettleRestore
  <2>6. QED BY <2>1, <2>2, <2>3, <2>4, <2>5 DEF SettleInv
<1>2. QED BY <1>1, SettleReadPort, SettleNextEntry, SettleFindTerminals, SettleCloseOne,
             SettleCompile, SettleRestoreOne, SettleRestored DEF TripNext

(* From the second trip on nothing moves: whatever the workflow, its       *)
(* second document is its third, its fourth and so on.                     *)
THEOREM SettlesAlwaysAfterTwo == TripSpec => []SettlesAfterTwo
<1>1. SettleInv => SettlesAfterTwo
  <2> SUFFICES ASSUME SettleInv, NEW i \in 2..Len(ir), NEW j \in 2..Len(ir) PROVE ir[i] = ir[j]
    BY DEF SettlesAfterTwo
  <2>1. Written(ir[i], wf) /\ Written(ir[j], wf)
    BY DEF SettleInv, DocumentsAgree
  <2>2. QED BY <2>1, WrittenOnce
<1>2. TripSpec => []SettleInv
  BY SettleInitInv, SettleStepInv, TripInvariance, PTL DEF TripSpec
<1>3. QED BY <1>1, <1>2, PTL

-----------------------------------------------------------------------------
(***************************************************************************)
(* NodeIr.  The sources that were resolved are in their buckets, what was  *)
(* written and not edited is the declaration in JSON, and the enumerations *)
(* of the contract hold unless a value was replaced.                       *)
(***************************************************************************)
Declared == \E n \in Declarations : node = [n EXCEPT !.error_policy = from_node(@)]

IsList(l) == l \in Seq(Range(l))

NodeSources == node.input_sources
OfBucket(xs, b, k) == {i \in 1 .. k : bucket_of(xs[i]) = b}

BucketLists(d, xs, S) ==
  /\ DOMAIN d = {xs[i].node : i \in S}
  /\ \A x \in DOMAIN d : IsList(d[x]) /\ ListsInOrder(d[x], xs, {i \in S : xs[i].node = x})

DependencyInv ==
  /\ resolved \in 0 .. Len(NodeSources)
  /\ dependencies = [direct |-> dependencies.direct, indirect |-> dependencies.indirect,
                     variables |-> dependencies.variables]
  /\ IsList(dependencies.variables)
  /\ ListsInOrder(dependencies.variables, NodeSources, OfBucket(NodeSources, "variables", resolved))
  /\ BucketLists(dependencies.direct, NodeSources, OfBucket(NodeSources, "direct", resolved))
  /\ BucketLists(dependencies.indirect, NodeSources, OfBucket(NodeSources, "indirect", resolved))

(* The enumerations of a contract hold unless a value was replaced.        *)
EnumerationsHold ==
  LET c == Within(dict, "contract")
  IN  /\ <<"value", "effect">> \notin edits => Get(c, "effect", "unknown") \in CodeEffects
      /\ <<"value", "output.kind">> \notin edits =>
           ("output" \in DOMAIN c => c.output.kind \in OutputShapeKinds)

NodeInv ==
  /\ Declared
  /\ node_stage \in {"declared", "written", "accepted", "refused", "loaded", "raised"}
  /\ DependencyInv
  /\ IsFiniteSet(edits) /\ Cardinality(edits) <= MaxEdits
  /\ IF node_stage = "declared" THEN dict = <<>> /\ edits = {}
     ELSE resolved = Len(NodeSources) /\ (edits = {} => dict = node_to_dict(node))
  /\ EnumerationsHold
  /\ node_stage = "refused" => ~ valid_node(dict)
  /\ node_stage \in {"accepted", "loaded", "raised"} => valid_node(dict)
  /\ node_stage = "loaded" <=> loaded # <<>>
  /\ node_stage = "loaded" => loaded = load_typed_node(dict)
  /\ node_stage = "raised" =>
       /\ "js" \in DOMAIN dict.config
       /\ contract_raises(dict.config.js)

LEMMA DeclaredIs ==
  ASSUME Declared
  PROVE  IsDeclaration(node) /\ node.error_policy.on_error \in ErrorPolicies
<1>1. PICK n \in Declarations : node = [n EXCEPT !.error_policy = from_node(@)]
  BY DEF Declared
<1>2. IsDeclaration(n)
  BY NodeIrAssumption
<1>3. /\ DOMAIN node = DOMAIN n
      /\ node.error_policy = from_node(n.error_policy)
      /\ node.n8n_type = n.n8n_type /\ node.parameters = n.parameters
      /\ node.credentials = n.credentials /\ node.input_types = n.input_types
      /\ node.output_types = n.output_types /\ node.input_sources = n.input_sources
      /\ node.js_contract = n.js_contract /\ node.js_ast = n.js_ast
  BY <1>1, <1>2 DEF IsDeclaration
<1>4. DOMAIN from_node(n.error_policy) = DOMAIN n.error_policy
  BY DEF from_node
<1>5. from_node(n.error_policy).on_error \in ErrorPolicies
  BY <1>2 DEF from_node, IsDeclaration, ErrorPolicies
<1>6. IsDeclaration(node)
  BY <1>2, <1>3, <1>4 DEF IsDeclaration
<1>7. QED BY <1>3, <1>5, <1>6

LEMMA ListOfOne ==
  ASSUME NEW l, IsList(l), NEW e
  PROVE  /\ IsList(Append(l, e))
         /\ Len(l) \in Nat /\ DOMAIN l = 1 .. Len(l)
         /\ DOMAIN Append(l, e) = 1 .. (Len(l) + 1)
         /\ \A i \in DOMAIN l : Append(l, e)[i] = l[i]
         /\ Append(l, e)[Len(l) + 1] = e
<1> DEFINE m == Append(l, e)
           R == Range(l)
<1>1. l \in Seq(R)
  BY DEF IsList
<1>2. l \in Seq(R \cup {e})
  BY <1>1, SeqMonotonic
<1> HIDE DEF R
<1>3. /\ Len(l) \in Nat /\ DOMAIN l = 1 .. Len(l)
      /\ m \in Seq(R \cup {e})
      /\ DOMAIN m = 1 .. (Len(l) + 1) /\ Len(m) = Len(l) + 1
      /\ \A i \in DOMAIN l : m[i] = l[i]
      /\ m[Len(l) + 1] = e
  BY <1>2
<1> HIDE DEF m
<1>4. m \in Seq(Range(m))
  BY <1>3, SeqOfRange
<1>5. IsList(m)
  BY <1>4 DEF IsList
<1>6. QED BY <1>3, <1>5 DEF m

-----------------------------------------------------------------------------
(***************************************************************************)
(* The loop over the sources.                                              *)
(***************************************************************************)
LEMMA NothingListed == IsList(<<>>) /\ \A xs : ListsInOrder(<<>>, xs, {})
<1> DEFINE place == [x \in {} |-> x]
<1>1. DOMAIN <<>> = {} /\ IsList(<<>>)
  BY DEF IsList
<1>2. place \in [DOMAIN <<>> -> {}] /\ Range(place) = {}
  BY <1>1 DEF Range
<1>3. QED BY <1>1, <1>2 DEF ListsInOrder

(* The next source is appended to its list.                                *)
LEMMA OneMoreListed ==
  ASSUME NEW xs, NEW l, IsList(l), NEW k \in Nat, NEW S \in SUBSET (1 .. k), ListsInOrder(l, xs, S)
  PROVE  ListsInOrder(Append(l, listed_as(xs[k + 1])), xs, S \cup {k + 1})
<1> DEFINE e == listed_as(xs[k + 1])
           m == Append(l, e)
           n == Len(l)
<1>1. PICK place \in [DOMAIN l -> S] :
        /\ Range(place) = S
        /\ \A i, j \in DOMAIN l : i < j => place[i] < place[j]
        /\ \A i \in DOMAIN l : l[i] = listed_as(xs[place[i]])
  BY DEF ListsInOrder
<1> HIDE DEF e
<1>2. /\ n \in Nat /\ DOMAIN l = 1 .. n
      /\ DOMAIN m = 1 .. (n + 1)
      /\ \A i \in DOMAIN l : m[i] = l[i]
      /\ m[n + 1] = e
  BY ListOfOne
<1> HIDE DEF n, m
<1> DEFINE more == [i \in DOMAIN m |-> IF i = n + 1 THEN k + 1 ELSE place[i]]
<1>3. \A i \in DOMAIN l : i \in DOMAIN m /\ i # n + 1 /\ more[i] = place[i] /\ place[i] \in S
  BY <1>1, <1>2
<1>4. n + 1 \in DOMAIN m /\ more[n + 1] = k + 1
  BY <1>2
<1>5. \A i \in DOMAIN m : i \in DOMAIN l \/ i = n + 1
  BY <1>2
<1>6. more \in [DOMAIN m -> S \cup {k + 1}]
  BY <1>3, <1>4, <1>5
<1>7. Range(more) = S \cup {k + 1}
  <2>1. ASSUME NEW x \in S PROVE x \in Range(more)
    <3>1. PICK i \in DOMAIN l : place[i] = x
      BY <1>1, <2>1 DEF Range
    <3>2. QED BY <1>3, <3>1 DEF Range
  <2>2. k + 1 \in Range(more)
    BY <1>4 DEF Range
  <2>3. Range(more) \subseteq S \cup {k + 1}
    BY <1>6 DEF Range
  <2>4. QED BY <2>1, <2>2, <2>3
<1>8. \A i, j \in DOMAIN m : i < j => more[i] < more[j]
  <2> HIDE DEF more
  <2>1. SUFFICES ASSUME NEW i \in DOMAIN m, NEW j \in DOMAIN m, i < j
                 PROVE  more[i] < more[j]
    OBVIOUS
  <2>2. i \in DOMAIN l
    BY <1>2, <2>1
  <2>3. CASE j \in DOMAIN l
    BY <1>1, <1>3, <2>1, <2>2, <2>3
  <2>4. CASE j = n + 1
    <3>1. more[i] \in 1 .. k
      BY <1>3, <2>2
    <3>2. more[j] = k + 1
      BY <1>4, <2>4
    <3>3. QED BY <3>1, <3>2
  <2>5. QED BY <1>5, <2>3, <2>4
<1>9. \A i \in DOMAIN m : m[i] = listed_as(xs[more[i]])
  <2>1. \A i \in DOMAIN l : m[i] = listed_as(xs[more[i]])
    BY <1>1, <1>2, <1>3
  <2>2. m[n + 1] = listed_as(xs[more[n + 1]])
    BY <1>2, <1>4 DEF e
  <2>3. QED BY <1>5, <2>1, <2>2
<1> HIDE DEF more
<1>10. ListsInOrder(m, xs, S \cup {k + 1})
  BY <1>6, <1>7, <1>8, <1>9 DEF ListsInOrder
<1>11. QED BY <1>10 DEF m, e

LEMMA BucketGrows ==
  ASSUME NEW xs, NEW d, NEW k \in Nat, NEW S \in SUBSET (1 .. k), BucketLists(d, xs, S),
         xs[k + 1].variable_type = Null
  PROVE  BucketLists(bucket(d, xs[k + 1]), xs, S \cup {k + 1})
<1> DEFINE s == xs[k + 1]
           x == s.node
           b == bucket(d, s)
           old == Get(d, x, <<>>)
           At(y) == {i \in S : xs[i].node = y}
           AtMore(y) == {i \in S \cup {k + 1} : xs[i].node = y}
<1>1. /\ DOMAIN d = {xs[i].node : i \in S}
      /\ \A y \in DOMAIN d : IsList(d[y]) /\ ListsInOrder(d[y], xs, At(y))
  BY DEF BucketLists
<1>2. IsList(old) /\ ListsInOrder(old, xs, At(x))
  <2>1. CASE x \in DOMAIN d
    BY <1>1, <2>1 DEF Get
  <2>2. CASE x \notin DOMAIN d
    <3>1. old = <<>> /\ At(x) = {}
      BY <1>1, <2>2 DEF Get
    <3>2. QED BY <3>1, NothingListed
  <2>3. QED BY <2>1, <2>2
<1>3. /\ DOMAIN b = DOMAIN d \cup {x}
      /\ b[x] = Append(old, Mapping(s))
      /\ \A y \in DOMAIN d : y # x => b[y] = d[y]
  BY DEF bucket, With
<1>4. Mapping(s) = listed_as(s)
  BY DEF listed_as
<1>5. IsList(b[x])
  <2> HIDE DEF old
  <2>1. QED BY <1>2, <1>3, ListOfOne
<1>6. ListsInOrder(b[x], xs, AtMore(x))
  <2>1. AtMore(x) = At(x) \cup {k + 1}
    OBVIOUS
  <2>2. At(x) \in SUBSET (1 .. k)
    OBVIOUS
  <2> HIDE DEF old, At, AtMore
  <2>3. ListsInOrder(Append(old, listed_as(s)), xs, At(x) \cup {k + 1})
    BY <1>2, <2>2, OneMoreListed
  <2>4. QED BY <1>3, <1>4, <2>1, <2>3
<1>7. DOMAIN b = {xs[i].node : i \in S \cup {k + 1}}
  BY <1>1, <1>3
<1>8. ASSUME NEW y \in DOMAIN b
      PROVE  IsList(b[y]) /\ ListsInOrder(b[y], xs, AtMore(y))
  <2>1. CASE y = x
    BY <1>5, <1>6, <2>1
  <2>2. CASE y # x
    <3>1. y \in DOMAIN d /\ b[y] = d[y]
      BY <1>3, <2>2
    <3>2. AtMore(y) = At(y)
      BY <2>2
    <3>3. QED BY <1>1, <3>1, <3>2
  <2>3. QED BY <2>1, <2>2
<1> HIDE DEF b
<1>9. BucketLists(b, xs, S \cup {k + 1})
  BY <1>7, <1>8 DEF BucketLists
<1>10. QED BY <1>9 DEF b

LEMMA OneMoreOf ==
  ASSUME NEW xs, NEW b, NEW k \in Nat
  PROVE  /\ OfBucket(xs, b, k) \in SUBSET (1 .. k)
         /\ OfBucket(xs, b, k + 1) = IF bucket_of(xs[k + 1]) = b
                                 THEN OfBucket(xs, b, k) \cup {k + 1} ELSE OfBucket(xs, b, k)
BY DEF OfBucket

LEMMA ResolveKeeps ==
  ASSUME Declared, DependencyInv, ResolveOne
  PROVE  DependencyInv'
<1> DEFINE k == resolved
           s == NodeSources[k + 1]
           vs == dependencies.variables
           ds == dependencies.direct
           is == dependencies.indirect
<1>1. /\ k \in Nat /\ k + 1 \in 0 .. Len(NodeSources)
      /\ resolved' = k + 1 /\ node' = node
      /\ dependencies' =
           IF s.variable_type # Null
           THEN [dependencies EXCEPT !.variables = Append(@, VariableBinding(s))]
           ELSE IF s.node \in Predecessors
           THEN [dependencies EXCEPT !.direct = bucket(@, s)]
           ELSE [dependencies EXCEPT !.indirect = bucket(@, s)]
  <2>1. IsDeclaration(node)
    BY DeclaredIs
  <2>2. Len(NodeSources) \in Nat
    BY <2>1 DEF IsDeclaration, NodeSources
  <2>3. QED BY <2>2 DEF ResolveOne, DependencyInv, NodeSources
<1>2. /\ dependencies = [direct |-> ds, indirect |-> is, variables |-> vs]
      /\ IsList(vs) /\ ListsInOrder(vs, NodeSources, OfBucket(NodeSources, "variables", k))
      /\ BucketLists(ds, NodeSources, OfBucket(NodeSources, "direct", k)) /\ BucketLists(is, NodeSources, OfBucket(NodeSources, "indirect", k))
  BY DEF DependencyInv
<1>3. \A b : /\ OfBucket(NodeSources, b, k) \in SUBSET (1 .. k)
            /\ OfBucket(NodeSources, b, k + 1) = IF bucket_of(s) = b
                                    THEN OfBucket(NodeSources, b, k) \cup {k + 1} ELSE OfBucket(NodeSources, b, k)
  BY <1>1, OneMoreOf
<1> DEFINE Goal(v, d, i) ==
             /\ dependencies' = [direct |-> d, indirect |-> i, variables |-> v]
             /\ IsList(v) /\ ListsInOrder(v, NodeSources, OfBucket(NodeSources, "variables", k + 1))
             /\ BucketLists(d, NodeSources, OfBucket(NodeSources, "direct", k + 1))
             /\ BucketLists(i, NodeSources, OfBucket(NodeSources, "indirect", k + 1))
<1>4. ASSUME NEW v, NEW d, NEW i, Goal(v, d, i) PROVE DependencyInv'
  <2>1. dependencies'.direct = d /\ dependencies'.indirect = i /\ dependencies'.variables = v
    BY <1>4
  <2>2. dependencies' = [direct |-> dependencies'.direct, indirect |-> dependencies'.indirect,
                         variables |-> dependencies'.variables]
    BY <1>4
  <2>3. NodeSources' = NodeSources
    BY <1>1 DEF NodeSources
  <2>4. resolved' \in 0 .. Len(NodeSources')
    BY <1>1, <2>3
  <2>5. QED BY <1>1, <1>4, <2>1, <2>2, <2>3, <2>4 DEF DependencyInv
<1>5. CASE s.variable_type # Null
  <2>1. bucket_of(s) = "variables" /\ listed_as(s) = VariableBinding(s)
    BY <1>5 DEF bucket_of, listed_as
  <2> DEFINE v == Append(vs, VariableBinding(s))
  <2>2. dependencies' = [direct |-> ds, indirect |-> is, variables |-> v]
    BY <1>1, <1>2, <1>5
  <2>3. IsList(v)
    BY <1>2, ListOfOne
  <2>4. ListsInOrder(Append(vs, listed_as(NodeSources[k + 1])), NodeSources, OfBucket(NodeSources, "variables", k) \cup {k + 1})
    <3>1. k \in Nat /\ OfBucket(NodeSources, "variables", k) \in SUBSET (1 .. k)
      BY <1>1, <1>3
    <3>2. IsList(vs) /\ ListsInOrder(vs, NodeSources, OfBucket(NodeSources, "variables", k))
      BY <1>2
    <3>3. QED BY <3>1, <3>2, OneMoreListed
  <2>5. ListsInOrder(v, NodeSources, OfBucket(NodeSources, "variables", k) \cup {k + 1})
    BY <2>1, <2>4
  <2>6. Goal(v, ds, is)
    BY <1>2, <1>3, <2>1, <2>2, <2>3, <2>5
  <2> HIDE DEF v, Goal
  <2>7. QED BY <1>4, <2>6
<1>6. CASE s.variable_type = Null /\ s.node \in Predecessors
  <2>1. bucket_of(s) = "direct"
    BY <1>6 DEF bucket_of
  <2> DEFINE d == bucket(ds, s)
  <2>2. dependencies' = [direct |-> d, indirect |-> is, variables |-> vs]
    BY <1>1, <1>2, <1>6
  <2>3. BucketLists(d, NodeSources, OfBucket(NodeSources, "direct", k) \cup {k + 1})
    BY <1>1, <1>2, <1>3, <1>6, BucketGrows
  <2>4. Goal(vs, d, is)
    BY <1>2, <1>3, <2>1, <2>2, <2>3
  <2> HIDE DEF d, Goal
  <2>5. QED BY <1>4, <2>4
<1>7. CASE s.variable_type = Null /\ s.node \notin Predecessors
  <2>1. bucket_of(s) = "indirect"
    BY <1>7 DEF bucket_of
  <2> DEFINE i == bucket(is, s)
  <2>2. dependencies' = [direct |-> ds, indirect |-> i, variables |-> vs]
    BY <1>1, <1>2, <1>7
  <2>3. BucketLists(i, NodeSources, OfBucket(NodeSources, "indirect", k) \cup {k + 1})
    BY <1>1, <1>2, <1>3, <1>7, BucketGrows
  <2>4. Goal(vs, ds, i)
    BY <1>2, <1>3, <2>1, <2>2, <2>3
  <2> HIDE DEF i, Goal
  <2>5. QED BY <1>4, <2>4
<1>8. QED BY <1>5, <1>6, <1>7

-----------------------------------------------------------------------------
(***************************************************************************)
(* What the writer writes passes the loader and is read back.              *)
(***************************************************************************)
LEMMA PlaceWritten ==
  ASSUME NEW t, NEW p \in DOMAIN t
  PROVE  LET o == type_to_dict(t)[p]
         IN  /\ {"type", "required"} \subseteq DOMAIN o
             /\ DOMAIN o \subseteq {"type", "required", "desc", "elem_type_info", "properties"}
             /\ o.type = t[p].type /\ o.required = t[p].required
             /\ "desc" \in DOMAIN o <=> t[p].desc # ""
             /\ t[p].desc # "" => o.desc = t[p].desc
             /\ below(t, p) \cap {"elem_type_info", "properties"} \subseteq DOMAIN o
<1> DEFINE own == [type |-> t[p].type, required |-> t[p].required]
           described == Optional(t[p].desc # "", own, "desc", t[p].desc)
           listed == Optional("elem_type_info" \in below(t, p), described, "elem_type_info", "below")
           o == Optional("properties" \in below(t, p), listed, "properties", "below")
<1>1. type_to_dict(t)[p] = o
  BY DEF type_to_dict
<1>2. /\ DOMAIN own = {"type", "required"} /\ own.type = t[p].type /\ own.required = t[p].required
      /\ "desc" \notin DOMAIN own
  OBVIOUS
<1> HIDE DEF own
<1>3. /\ DOMAIN described \subseteq {"type", "required", "desc"}
      /\ {"type", "required"} \subseteq DOMAIN described
      /\ "desc" \in DOMAIN described <=> t[p].desc # ""
      /\ t[p].desc # "" => described.desc = t[p].desc
      /\ described.type = t[p].type /\ described.required = t[p].required
  BY <1>2 DEF Optional, With
<1> HIDE DEF described
<1>4. /\ DOMAIN listed \subseteq {"type", "required", "desc", "elem_type_info"}
      /\ DOMAIN described \subseteq DOMAIN listed
      /\ "elem_type_info" \in DOMAIN listed <=> "elem_type_info" \in below(t, p)
      /\ \A f \in DOMAIN described : listed[f] = described[f]
  BY <1>3 DEF Optional, With
<1>5. "desc" \in DOMAIN listed <=> t[p].desc # ""
  BY <1>3 DEF listed, Optional, With
<1> HIDE DEF listed
<1>6. /\ DOMAIN o \subseteq {"type", "required", "desc", "elem_type_info", "properties"}
      /\ DOMAIN listed \subseteq DOMAIN o
      /\ "properties" \in DOMAIN o <=> "properties" \in below(t, p)
      /\ \A f \in DOMAIN listed : o[f] = listed[f]
  BY <1>4 DEF Optional, With
<1>7. "desc" \in DOMAIN o <=> t[p].desc # ""
  BY <1>5 DEF o, Optional, With
<1> HIDE DEF o
<1>8. QED BY <1>1, <1>3, <1>4, <1>6, <1>7

(* A place is reached by the fields of the objects above it.               *)
LEMMA StepIsWritten ==
  ASSUME NEW t, IsType(t), NEW p \in DOMAIN t, NEW i \in 1 .. Len(p)
  PROVE  /\ SubSeq(p, 1, i - 1) \in DOMAIN t
         /\ p[i][1] \in DOMAIN type_to_dict(t)[SubSeq(p, 1, i - 1)]
<1> DEFINE q == SubSeq(p, 1, i)
           u == SubSeq(p, 1, i - 1)
<1>1. /\ p \in Seq(Range(p)) /\ p[i][1] \in {"elem_type_info", "properties"}
      /\ \A j \in 0 .. Len(p) : SubSeq(p, 1, j) \in DOMAIN t
  BY DEF IsType
<1> DEFINE R == Range(p)
<1>2. p \in Seq(R)
  BY <1>1
<1> HIDE DEF R
<1>3. Len(p) \in Nat /\ i \in 0 .. Len(p) /\ i - 1 \in 0 .. Len(p)
  BY <1>2
<1>4. q \in DOMAIN t /\ u \in DOMAIN t
  BY <1>1, <1>3
<1>5. q \in Seq(R) /\ Len(q) = i /\ q[i] = p[i]
  BY <1>2, <1>3
<1>6. Front(q) = u
  BY <1>2, <1>3, <1>5 DEF Front
<1>7. q # <<>> /\ Last(q) = p[i]
  BY <1>5 DEF Last
<1>8. p[i][1] \in below(t, u)
  BY <1>4, <1>6, <1>7 DEF below
<1>9. below(t, u) \cap {"elem_type_info", "properties"} \subseteq DOMAIN type_to_dict(t)[u]
  BY <1>4, PlaceWritten
<1>10. QED BY <1>1, <1>4, <1>8, <1>9

LEMMA TypeComesBack ==
  ASSUME NEW t, IsType(t)
  PROVE  valid_type(type_to_dict(t)) /\ type_from_dict(type_to_dict(t)) = t
<1> DEFINE d == type_to_dict(t)
<1>1. DOMAIN d = DOMAIN t
  BY DEF type_to_dict
<1>2. \A p \in DOMAIN t :
        /\ {"type", "required"} \subseteq DOMAIN d[p]
        /\ DOMAIN d[p] \subseteq {"type", "required", "desc", "elem_type_info", "properties"}
        /\ d[p].type = t[p].type /\ d[p].required = t[p].required
        /\ "desc" \in DOMAIN d[p] <=> t[p].desc # ""
        /\ t[p].desc # "" => d[p].desc = t[p].desc
  BY PlaceWritten
<1>3. \A p \in DOMAIN t : \A i \in 1 .. Len(p) : p[i][1] \in DOMAIN d[SubSeq(p, 1, i - 1)]
  BY StepIsWritten
<1> HIDE DEF d
<1>4. /\ \A p \in DOMAIN t : t[p].type \in DataTypes
      /\ \A p \in DOMAIN t :
           t[p] = [type |-> t[p].type, required |-> t[p].required, desc |-> t[p].desc]
      /\ t = [p \in DOMAIN t |-> t[p]]
  BY DEF IsType
<1>5. valid_type(d)
  BY <1>1, <1>2, <1>4 DEF valid_type, Fields
<1>6. {q \in DOMAIN d : \A i \in 1 .. Len(q) : q[i][1] \in DOMAIN d[SubSeq(q, 1, i - 1)]} = DOMAIN t
  BY <1>1, <1>3
<1> DEFINE read(p) == [type |-> from_str(Get(d[p], "type", "any")),
                       required |-> Get(d[p], "required", FALSE), desc |-> Get(d[p], "desc", "")]
<1>7. ASSUME NEW p \in DOMAIN t PROVE read(p) = t[p]
  <2>1. Get(d[p], "type", "any") = t[p].type /\ Get(d[p], "required", FALSE) = t[p].required
    BY <1>2 DEF Get
  <2>2. Get(d[p], "desc", "") = t[p].desc
    BY <1>2 DEF Get
  <2>3. from_str(t[p].type) = t[p].type
    BY <1>4 DEF from_str, DataTypes
  <2>4. QED BY <1>4, <2>1, <2>2, <2>3
<1>8. type_from_dict(d) = [p \in DOMAIN t |-> read(p)]
  BY <1>6 DEF type_from_dict
<1> HIDE DEF read
<1>9. type_from_dict(d) = t
  BY <1>4, <1>7, <1>8
<1>10. QED BY <1>5, <1>9 DEF d

LEMMA SourceComesBack ==
  ASSUME NEW s, IsSource(s)
  PROVE  valid_field_info(source_to_dict(s)) /\ source_from_dict(source_to_dict(s)) = s
<1> DEFINE own == [from_node_key |-> s.node, from_path |-> s.from_path]
           ref == Optional(s.variable_type # Null, own, "variable_type", s.variable_type)
           d == source_to_dict(s)
<1>1. d = [path |-> s.path, source |-> [ref |-> ref]]
  BY DEF source_to_dict
<1>2. /\ DOMAIN own = {"from_node_key", "from_path"} /\ own.from_node_key = s.node
      /\ own.from_path = s.from_path
  OBVIOUS
<1> HIDE DEF own
<1>3. /\ DOMAIN ref \subseteq {"from_node_key", "from_path", "variable_type"}
      /\ {"from_node_key", "from_path"} \subseteq DOMAIN ref
      /\ "variable_type" \in DOMAIN ref <=> s.variable_type # Null
      /\ s.variable_type # Null => ref.variable_type = s.variable_type
      /\ ref.from_node_key = s.node /\ ref.from_path = s.from_path
  BY <1>2 DEF Optional, With
<1> HIDE DEF ref, d
<1>4. /\ DOMAIN d = {"path", "source"} /\ d.path = s.path
      /\ DOMAIN d.source = {"ref"} /\ d.source.ref = ref
  BY <1>1
<1>5. valid_field_info(d)
  BY <1>3, <1>4 DEF valid_field_info, Fields, IsSource
<1>6. /\ Get(ref, "from_node_key", "") = s.node /\ Get(ref, "from_path", <<>>) = s.from_path
      /\ Get(ref, "variable_type", Null) = s.variable_type
  BY <1>3 DEF Get
<1>7. source_from_dict(d) = s
  BY <1>4, <1>6 DEF source_from_dict, IsSource
<1>8. QED BY <1>5, <1>7 DEF d

LEMMA PolicyPasses ==
  ASSUME NEW p, p.on_error \in ErrorPolicies
  PROVE  valid_error_policy(policy_to_dict(p))
<1> DEFINE own == [on_error |-> p.on_error]
           again == With(own, "retry_on_fail", TRUE)
           retried == Optional(p.max_tries # Null, again, "max_tries", p.max_tries)
           d == policy_to_dict(p)
<1>1. d = IF p.retry_on_fail
          THEN Optional(p.wait_between_tries # Null, retried,
                        "wait_between_tries", p.wait_between_tries)
          ELSE own
  BY DEF policy_to_dict
<1>2. DOMAIN own = {"on_error"} /\ own.on_error = p.on_error
  OBVIOUS
<1> HIDE DEF own
<1>3. DOMAIN again = {"on_error", "retry_on_fail"} /\ again.on_error = p.on_error
  BY <1>2 DEF With
<1> HIDE DEF again
<1>4. /\ DOMAIN retried \subseteq {"on_error", "retry_on_fail", "max_tries"}
      /\ "on_error" \in DOMAIN retried /\ retried.on_error = p.on_error
  BY <1>3 DEF Optional, With
<1> HIDE DEF retried, d
<1>5. /\ DOMAIN d \subseteq {"on_error", "retry_on_fail", "max_tries", "wait_between_tries"}
      /\ "on_error" \in DOMAIN d /\ d.on_error = p.on_error
  <2>1. CASE p.retry_on_fail
    BY <1>1, <1>4, <2>1 DEF Optional, With
  <2>2. CASE ~ p.retry_on_fail
    BY <1>1, <1>2, <2>2
  <2>3. QED BY <2>1, <2>2
<1>6. valid_error_policy(d)
  BY <1>5 DEF valid_error_policy, Fields, Get
<1>7. QED BY <1>6 DEF d

LEMMA ContractComesBack ==
  ASSUME NEW c, IsContract(c)
  PROVE  LET js == contract_to_dict(c)
         IN  /\ Fields(js, {"contract", "payload", "errors", "warnings"}, {})
             /\ contract_from_dict(js) = c
             /\ Get(js.contract, "effect", "unknown") \in CodeEffects
             /\ js.contract.output.kind \in OutputShapeKinds
<1> DEFINE js == contract_to_dict(c)
<1>1. /\ DOMAIN js = {"contract", "payload", "errors", "warnings"}
      /\ js.contract = [deps |-> c.deps, output |-> c.output, effect |-> c.effect,
                        runtime |-> c.runtime]
      /\ js.payload = [language |-> c.language, source |-> c.source]
      /\ js.errors = c.errors /\ js.warnings = c.warnings
  BY DEF contract_to_dict
<1> HIDE DEF js
<1>2. Fields(js, {"contract", "payload", "errors", "warnings"}, {})
  BY <1>1 DEF Fields
<1>3. contract_from_dict(js) =
        [deps |-> c.deps, output |-> c.output, effect |-> c.effect, runtime |-> c.runtime,
         language |-> c.language, source |-> c.source,
         errors |-> c.errors, warnings |-> c.warnings]
  BY <1>1 DEF contract_from_dict, Get
<1>4. contract_from_dict(js) = c
  BY <1>3 DEF IsContract
<1>5. /\ Get(js.contract, "effect", "unknown") \in CodeEffects
      /\ js.contract.output.kind \in OutputShapeKinds
  BY <1>1 DEF IsContract, Get
<1>6. QED BY <1>2, <1>4, <1>5 DEF js

(* A member of an ordered list is what a source of the set is listed as.   *)
LEMMA ListedIsSource ==
  ASSUME NEW l, NEW xs, NEW S, ListsInOrder(l, xs, S), NEW i \in DOMAIN l
  PROVE  \E j \in S : l[i] = listed_as(xs[j])
BY DEF ListsInOrder

LEMMA BucketPasses ==
  ASSUME NEW d, NEW xs, NEW b \in {"direct", "indirect"}, NEW k, BucketLists(d, xs, OfBucket(xs, b, k)),
         NEW x \in DOMAIN d, NEW i \in DOMAIN d[x]
  PROVE  Fields(d[x][i], {"from_path", "to_path"}, {})
<1>1. ListsInOrder(d[x], xs, {j \in OfBucket(xs, b, k) : xs[j].node = x})
  BY DEF BucketLists
<1>2. PICK j \in {j \in OfBucket(xs, b, k) : xs[j].node = x} : d[x][i] = listed_as(xs[j])
  BY <1>1, ListedIsSource
<1>3. bucket_of(xs[j]) = b
  BY <1>2 DEF OfBucket
<1>4. xs[j].variable_type = Null
  BY <1>3 DEF bucket_of
<1>5. d[x][i] = Mapping(xs[j])
  BY <1>2, <1>4 DEF listed_as
<1>6. DOMAIN d[x][i] = {"from_path", "to_path"}
  BY <1>5 DEF Mapping
<1>7. QED BY <1>6 DEF Fields

LEMMA DependenciesPass ==
  ASSUME Declared, DependencyInv
  PROVE  valid_dependencies(dependencies_to_dict)
<1> DEFINE d == dependencies_to_dict
           ds == dependencies.direct
           is == dependencies.indirect
           vs == dependencies.variables
<1>1. /\ DOMAIN d = {"direct", "indirect", "parent", "static_values", "variables"}
      /\ d.direct = ds /\ d.indirect = is /\ d.parent = <<>> /\ d.variables = vs
  BY DEF dependencies_to_dict
<1>2. /\ ListsInOrder(vs, NodeSources, OfBucket(NodeSources, "variables", resolved))
      /\ BucketLists(ds, NodeSources, OfBucket(NodeSources, "direct", resolved))
      /\ BucketLists(is, NodeSources, OfBucket(NodeSources, "indirect", resolved))
      /\ resolved \in 0 .. Len(NodeSources)
  BY DEF DependencyInv
<1>3. /\ NodeSources \in Seq(Range(NodeSources))
      /\ \A s \in Range(NodeSources) : IsSource(s)
  BY DeclaredIs DEF IsDeclaration, NodeSources
<1> HIDE DEF d, ds, is, vs
<1>4. ASSUME NEW i \in DOMAIN vs
      PROVE  /\ Fields(vs[i], {"variable_type", "from_path", "to_path"}, {})
             /\ vs[i].variable_type \in GlobalVarTypes
  <2>1. PICK j \in OfBucket(NodeSources, "variables", resolved) : vs[i] = listed_as(NodeSources[j])
    BY <1>2, ListedIsSource
  <2>2. j \in 1 .. resolved /\ bucket_of(NodeSources[j]) = "variables"
    BY <2>1 DEF OfBucket
  <2>3. NodeSources[j].variable_type # Null
    BY <2>2 DEF bucket_of
  <2>4. NodeSources[j] \in Range(NodeSources)
    <3>1. j \in DOMAIN NodeSources
      BY <1>2, <1>3, <2>2
    <3>2. QED BY <3>1 DEF Range
  <2>5. NodeSources[j].variable_type \in GlobalVarTypes
    BY <1>3, <2>3, <2>4 DEF IsSource
  <2>6. vs[i] = VariableBinding(NodeSources[j])
    BY <2>1, <2>3 DEF listed_as
  <2>7. DOMAIN vs[i] = {"variable_type", "from_path", "to_path"}
        /\ vs[i].variable_type = NodeSources[j].variable_type
    BY <2>6 DEF VariableBinding
  <2>8. QED BY <2>5, <2>7 DEF Fields
<1>5. \A x \in DOMAIN ds : \A i \in DOMAIN ds[x] : Fields(ds[x][i], {"from_path", "to_path"}, {})
  BY <1>2, BucketPasses
<1>6. \A x \in DOMAIN is : \A i \in DOMAIN is[x] : Fields(is[x][i], {"from_path", "to_path"}, {})
  BY <1>2, BucketPasses
<1>7. ASSUME NEW b \in {"direct", "indirect", "parent"}, NEW x \in DOMAIN d[b], NEW i \in DOMAIN d[b][x]
      PROVE  Fields(d[b][x][i], {"from_path", "to_path"}, {})
  <2>1. CASE b = "direct"
    BY <1>1, <1>5, <1>7, <2>1
  <2>2. CASE b = "indirect"
    BY <1>1, <1>6, <1>7, <2>2
  <2>3. CASE b = "parent"
    BY <1>1, <1>7, <2>3
  <2>4. QED BY <1>7, <2>1, <2>2, <2>3
<1>8. Fields(d, {}, {"direct", "indirect", "parent", "static_values", "variables"})
  BY <1>1 DEF Fields
<1>9. valid_dependencies(d)
  BY <1>1, <1>4, <1>7, <1>8 DEF valid_dependencies
<1>10. QED BY <1>9 DEF d

LEMMA ConfigWritten ==
  ASSUME Declared
  PROVE  LET c == config_to_dict(node)
         IN  /\ {"kind", "n8n_type", "parameters"} \subseteq DOMAIN c
             /\ DOMAIN c \subseteq {"kind", "n8n_type", "type_version", "position", "parameters",
                                   "error_policy", "credentials", "js", "js_ast"}
             /\ "js" \in DOMAIN c <=> IsCode(node.n8n_type)
             /\ "js_ast" \in DOMAIN c <=> IsCode(node.n8n_type)
             /\ c.n8n_type = node.n8n_type /\ c.parameters = node.parameters
             /\ IsCode(node.n8n_type) =>
                  /\ IsContract(node.js_contract[1]) /\ node.js_contract = <<node.js_contract[1]>>
                  /\ c.js = contract_to_dict(node.js_contract[1])
                  /\ c.js_ast = node.js_ast
             /\ ~ IsCode(node.n8n_type) => node.js_contract = <<>> /\ node.js_ast = <<>>
<1> DEFINE js == contract_to_dict(node.js_contract[1])
           own == [kind |-> kind(node.n8n_type), n8n_type |-> node.n8n_type, type_version |-> 1,
                   position |-> <<0, 0>>, parameters |-> node.parameters,
                   error_policy |-> policy_to_dict(node.error_policy),
                   credentials |-> node.credentials]
           coded == With(own, "js", js)
           c == config_to_dict(node)
<1>1. c = IF IsCode(node.n8n_type) THEN With(coded, "js_ast", node.js_ast) ELSE own
  BY DEF config_to_dict
<1>2. /\ DOMAIN own = {"kind", "n8n_type", "type_version", "position", "parameters",
                       "error_policy", "credentials"}
      /\ own.n8n_type = node.n8n_type /\ own.parameters = node.parameters
  OBVIOUS
<1> HIDE DEF own, js
<1>3. /\ DOMAIN coded = {"kind", "n8n_type", "type_version", "position", "parameters",
                         "error_policy", "credentials", "js"}
      /\ coded.n8n_type = node.n8n_type /\ coded.parameters = node.parameters
      /\ coded.js = js
  BY <1>2 DEF With
<1> HIDE DEF coded
<1>4. IsDeclaration(node)
  BY DeclaredIs
<1> HIDE DEF c
<1>5. CASE IsCode(node.n8n_type)
  <2>1. c = With(coded, "js_ast", node.js_ast)
    BY <1>1, <1>5
  <2>2. /\ DOMAIN c = {"kind", "n8n_type", "type_version", "position", "parameters",
                       "error_policy", "credentials", "js", "js_ast"}
        /\ c.n8n_type = node.n8n_type /\ c.parameters = node.parameters
        /\ c.js = js /\ c.js_ast = node.js_ast
    BY <1>3, <2>1 DEF With
  <2>3. IsContract(node.js_contract[1]) /\ node.js_contract = <<node.js_contract[1]>>
    BY <1>4, <1>5 DEF IsDeclaration
  <2>4. QED BY <1>5, <2>2, <2>3 DEF c, js
<1>6. CASE ~ IsCode(node.n8n_type)
  <2>1. c = own
    BY <1>1, <1>6
  <2>2. node.js_contract = <<>> /\ node.js_ast = <<>>
    BY <1>4, <1>6 DEF IsDeclaration
  <2>3. QED BY <1>2, <1>6, <2>1, <2>2 DEF c
<1>7. QED BY <1>5, <1>6

LEMMA NodeWritten ==
  LET d == node_to_dict(node)
  IN  /\ DOMAIN d = {"key", "type", "name", "parent_key", "input_types", "output_types",
                     "input_sources", "output_sources", "error_policy", "dependencies", "config"}
      /\ d.input_types = [p \in DOMAIN node.input_types |-> type_to_dict(node.input_types[p])]
      /\ d.output_types = [p \in DOMAIN node.output_types |-> type_to_dict(node.output_types[p])]
      /\ d.input_sources = [i \in DOMAIN NodeSources |-> source_to_dict(NodeSources[i])]
      /\ d.output_sources = <<>>
      /\ d.error_policy = policy_to_dict(node.error_policy)
      /\ d.dependencies = dependencies_to_dict
      /\ d.config = config_to_dict(node)
BY DEF node_to_dict, NodeSources

LEMMA DeclaredParts ==
  ASSUME Declared
  PROVE  /\ node.input_types = [p \in DOMAIN node.input_types |-> node.input_types[p]]
         /\ node.output_types = [p \in DOMAIN node.output_types |-> node.output_types[p]]
         /\ \A p \in DOMAIN node.input_types : IsType(node.input_types[p])
         /\ \A p \in DOMAIN node.output_types : IsType(node.output_types[p])
         /\ NodeSources \in Seq(Range(NodeSources))
         /\ \A i \in DOMAIN NodeSources : IsSource(NodeSources[i])
         /\ node.error_policy.on_error \in ErrorPolicies
<1>1. IsDeclaration(node) /\ node.error_policy.on_error \in ErrorPolicies
  BY DeclaredIs
<1>2. \A i \in DOMAIN NodeSources : NodeSources[i] \in Range(NodeSources)
  BY DEF Range
<1>3. QED BY <1>1, <1>2 DEF IsDeclaration, NodeSources

LEMMA NodePasses ==
  ASSUME Declared, DependencyInv
  PROVE  valid_node(node_to_dict(node))
<1> DEFINE d == node_to_dict(node)
           c == config_to_dict(node)
<1>1. /\ DOMAIN d = {"key", "type", "name", "parent_key", "input_types", "output_types",
                     "input_sources", "output_sources", "error_policy", "dependencies", "config"}
      /\ d.input_types = [p \in DOMAIN node.input_types |-> type_to_dict(node.input_types[p])]
      /\ d.output_types = [p \in DOMAIN node.output_types |-> type_to_dict(node.output_types[p])]
      /\ d.input_sources = [i \in DOMAIN NodeSources |-> source_to_dict(NodeSources[i])]
      /\ d.output_sources = <<>>
      /\ d.error_policy = policy_to_dict(node.error_policy)
      /\ d.dependencies = dependencies_to_dict
      /\ d.config = c
  BY NodeWritten
<1>2. /\ {"kind", "n8n_type", "parameters"} \subseteq DOMAIN c
      /\ DOMAIN c \subseteq {"kind", "n8n_type", "type_version", "position", "parameters",
                             "error_policy", "credentials", "js", "js_ast"}
      /\ "js" \in DOMAIN c => IsContract(node.js_contract[1])
                             /\ c.js = contract_to_dict(node.js_contract[1])
  BY ConfigWritten
<1> HIDE DEF d, c
<1>3. \A f \in {"input_types", "output_types"} \cap DOMAIN d : \A p \in DOMAIN d[f] : valid_type(d[f][p])
  <2>1. \A p \in DOMAIN d.input_types : valid_type(d.input_types[p])
    BY <1>1, DeclaredParts, TypeComesBack
  <2>2. \A p \in DOMAIN d.output_types : valid_type(d.output_types[p])
    BY <1>1, DeclaredParts, TypeComesBack
  <2>3. QED BY <2>1, <2>2
<1>4. \A f \in {"input_sources", "output_sources"} \cap DOMAIN d :
        \A i \in DOMAIN d[f] : valid_field_info(d[f][i])
  <2>1. \A i \in DOMAIN d.input_sources : valid_field_info(d.input_sources[i])
    BY <1>1, DeclaredParts, SourceComesBack
  <2>2. DOMAIN d.output_sources = {}
    BY <1>1
  <2>3. QED BY <2>1, <2>2
<1>5. valid_error_policy(Get(d, "error_policy", <<>>))
  <2>1. Get(d, "error_policy", <<>>) = policy_to_dict(node.error_policy)
    BY <1>1 DEF Get
  <2>2. valid_error_policy(policy_to_dict(node.error_policy))
    BY DeclaredParts, PolicyPasses
  <2>3. QED BY <2>1, <2>2
<1>6. valid_dependencies(Get(d, "dependencies", <<>>))
  <2>1. Get(d, "dependencies", <<>>) = dependencies_to_dict
    BY <1>1 DEF Get
  <2>2. QED BY <2>1, DependenciesPass
<1>7. valid_config(d.config)
  <2>1. "js" \in DOMAIN c => Fields(c.js, {"contract", "payload", "errors", "warnings"}, {})
    BY <1>2, ContractComesBack
  <2>2. QED BY <1>1, <1>2, <2>1 DEF valid_config, Fields
<1>8. Fields(d, {"key", "type", "name", "config"},
            {"parent_key", "input_types", "output_types", "input_sources",
             "output_sources", "error_policy", "dependencies"})
  BY <1>1 DEF Fields
<1>9. valid_node(d)
  BY <1>3, <1>4, <1>5, <1>6, <1>7, <1>8 DEF valid_node
<1>10. QED BY <1>9 DEF d

LEMMA NodeComesBack ==
  ASSUME Declared
  PROVE  \A f \in DOMAIN node \ {"error_policy", "credentials"} :
           load_typed_node(node_to_dict(node))[f] = node[f]
<1> DEFINE d == node_to_dict(node)
           c == config_to_dict(node)
           l == load_typed_node(d)
           types(f) == [p \in DOMAIN Get(d, f, <<>>) |-> type_from_dict(d[f][p])]
           js == IsCode(d.config.n8n_type) /\ "js" \in DOMAIN d.config
<1>1. /\ DOMAIN d = {"key", "type", "name", "parent_key", "input_types", "output_types",
                     "input_sources", "output_sources", "error_policy", "dependencies", "config"}
      /\ d.input_types = [p \in DOMAIN node.input_types |-> type_to_dict(node.input_types[p])]
      /\ d.output_types = [p \in DOMAIN node.output_types |-> type_to_dict(node.output_types[p])]
      /\ d.input_sources = [i \in DOMAIN NodeSources |-> source_to_dict(NodeSources[i])]
      /\ d.config = c
  BY NodeWritten
<1>2. /\ "parameters" \in DOMAIN c
      /\ "js" \in DOMAIN c <=> IsCode(node.n8n_type)
      /\ "js_ast" \in DOMAIN c <=> IsCode(node.n8n_type)
      /\ c.n8n_type = node.n8n_type /\ c.parameters = node.parameters
      /\ IsCode(node.n8n_type) =>
           /\ IsContract(node.js_contract[1]) /\ node.js_contract = <<node.js_contract[1]>>
           /\ c.js = contract_to_dict(node.js_contract[1])
           /\ c.js_ast = node.js_ast
      /\ ~ IsCode(node.n8n_type) => node.js_contract = <<>> /\ node.js_ast = <<>>
  BY ConfigWritten
<1>3. DOMAIN node = {"n8n_type", "parameters", "credentials", "input_types", "output_types",
                     "input_sources", "error_policy", "js_contract", "js_ast"}
  BY DeclaredIs DEF IsDeclaration
<1>4. /\ l.n8n_type = d.config.n8n_type
      /\ l.parameters = Get(d.config, "parameters", <<>>)
      /\ l.input_types = types("input_types") /\ l.output_types = types("output_types")
      /\ l.input_sources = [i \in DOMAIN Get(d, "input_sources", <<>>) |->
                              source_from_dict(d.input_sources[i])]
      /\ l.js_contract = IF js THEN <<contract_from_dict(d.config.js)>> ELSE <<>>
      /\ l.js_ast = IF IsCode(d.config.n8n_type) THEN Get(d.config, "js_ast", <<>>) ELSE <<>>
  BY DEF load_typed_node
<1> HIDE DEF d, c, l
<1>5. l.n8n_type = node.n8n_type /\ l.parameters = node.parameters
  BY <1>1, <1>2, <1>4 DEF Get
<1>6. l.input_types = node.input_types
  <2>1. DOMAIN Get(d, "input_types", <<>>) = DOMAIN node.input_types
    BY <1>1 DEF Get
  <2>2. \A p \in DOMAIN node.input_types : type_from_dict(d.input_types[p]) = node.input_types[p]
    BY <1>1, DeclaredParts, TypeComesBack
  <2>3. QED BY <1>4, <2>1, <2>2, DeclaredParts
<1>7. l.output_types = node.output_types
  <2>1. DOMAIN Get(d, "output_types", <<>>) = DOMAIN node.output_types
    BY <1>1 DEF Get
  <2>2. \A p \in DOMAIN node.output_types : type_from_dict(d.output_types[p]) = node.output_types[p]
    BY <1>1, DeclaredParts, TypeComesBack
  <2>3. QED BY <1>4, <2>1, <2>2, DeclaredParts
<1>8. l.input_sources = node.input_sources
  <2>1. DOMAIN Get(d, "input_sources", <<>>) = DOMAIN NodeSources
    BY <1>1 DEF Get
  <2>2. \A i \in DOMAIN NodeSources : source_from_dict(d.input_sources[i]) = NodeSources[i]
    BY <1>1, DeclaredParts, SourceComesBack
  <2>3. l.input_sources = [i \in DOMAIN NodeSources |-> NodeSources[i]]
    BY <1>4, <2>1, <2>2
  <2>4. NodeSources = [i \in DOMAIN NodeSources |-> NodeSources[i]]
    BY DeclaredParts
  <2>5. QED BY <2>3, <2>4 DEF NodeSources
<1>9. l.js_contract = node.js_contract /\ l.js_ast = node.js_ast
  <2>1. CASE IsCode(node.n8n_type)
    <3>1. contract_from_dict(c.js) = node.js_contract[1]
      BY <1>2, <2>1, ContractComesBack
    <3>2. js
      BY <1>1, <1>2, <2>1
    <3>3. l.js_contract = <<node.js_contract[1]>>
      BY <1>1, <1>4, <3>1, <3>2
    <3>4. l.js_ast = node.js_ast
      BY <1>1, <1>2, <1>4, <2>1 DEF Get
    <3>5. QED BY <1>2, <2>1, <3>3, <3>4
  <2>2. CASE ~ IsCode(node.n8n_type)
    BY <1>1, <1>2, <1>4, <2>2
  <2>3. QED BY <2>1, <2>2
<1>10. \A f \in DOMAIN node \ {"error_policy", "credentials"} : l[f] = node[f]
  BY <1>3, <1>5, <1>6, <1>7, <1>8, <1>9
<1>11. QED BY <1>10 DEF l, d

-----------------------------------------------------------------------------
(***************************************************************************)
(* Edits.  What they leave of the contract.                                *)
(***************************************************************************)
LEMMA PlacesOfObject ==
  ASSUME NEW d, NEW o
  PROVE  /\ Within(d, "node") = d
         /\ Within(d, "config") = Get(d, "config", <<>>)
         /\ Within(d, "js") = Get(Within(d, "config"), "js", <<>>)
         /\ Within(d, "contract") = Get(Within(d, "js"), "contract", <<>>)
         /\ Replaced(d, "node", o) = o
         /\ Replaced(d, "config", o) = [d EXCEPT !.config = o]
         /\ Replaced(d, "js", o) = [d EXCEPT !.config.js = o]
         /\ Replaced(d, "contract", o) = [d EXCEPT !.config.js.contract = o]
BY DEF Within, Replaced

LEMMA GotField ==
  ASSUME NEW d, NEW name, NEW f \in DOMAIN Get(d, name, <<>>)
  PROVE  name \in DOMAIN d /\ Get(d, name, <<>>) = d[name]
BY DEF Get

LEMMA SameField ==
  ASSUME NEW d, NEW e, NEW name, name \in DOMAIN e <=> name \in DOMAIN d,
         name \in DOMAIN d => e[name] = d[name]
  PROVE  Get(e, name, <<>>) = Get(d, name, <<>>)
BY DEF Get

LEMMA DropLeaves ==
  ASSUME NEW d, NEW place \in {"node", "config", "js", "contract"},
         NEW f \in DOMAIN Within(d, place),
         NEW e, e = Replaced(d, place, Without(Within(d, place), f))
  PROVE  \/ Within(e, "contract") \in {Within(d, "contract"), <<>>}
         \/ Within(e, "contract") = Without(Within(d, "contract"), f)
<1> DEFINE conf == Within(d, "config")
           js == Within(d, "js")
           c == Within(d, "contract")
<1>1. /\ conf = Get(d, "config", <<>>) /\ js = Get(conf, "js", <<>>)
      /\ c = Get(js, "contract", <<>>)
  BY PlacesOfObject
<1>2. /\ Within(e, "config") = Get(e, "config", <<>>)
      /\ Within(e, "js") = Get(Within(e, "config"), "js", <<>>)
      /\ Within(e, "contract") = Get(Within(e, "js"), "contract", <<>>)
  BY PlacesOfObject
<1>3. CASE place = "node"
  <2>1. f \in DOMAIN d /\ e = Without(d, f)
    BY <1>3, PlacesOfObject
  <2>2. CASE f = "config"
    <3>1. Within(e, "config") = <<>>
      BY <1>2, <2>1, <2>2 DEF Without, Get
    <3>2. Within(e, "js") = <<>>
      BY <1>2, <3>1 DEF Get
    <3>3. Within(e, "contract") = <<>>
      BY <1>2, <3>2 DEF Get
    <3>4. QED BY <3>3
  <2>3. CASE f # "config"
    <3>1. /\ DOMAIN e = DOMAIN d \ {f}
          /\ "config" \in DOMAIN d => e["config"] = d["config"]
      BY <2>1, <2>3 DEF Without
    <3>2. Get(e, "config", <<>>) = Get(d, "config", <<>>)
      BY <2>3, <3>1 DEF Get
    <3>3. QED BY <1>1, <1>2, <3>2
  <2>4. QED BY <2>2, <2>3
<1>4. CASE place = "config"
  <2>1. f \in DOMAIN conf /\ e = [d EXCEPT !.config = Without(conf, f)]
    BY <1>4, PlacesOfObject
  <2>2. "config" \in DOMAIN d
    BY <1>1, <2>1, GotField
  <2> HIDE DEF conf
  <2>3. Within(e, "config") = Without(conf, f)
    BY <1>2, <2>1, <2>2 DEF Get
  <2>4. CASE f = "js"
    <3>1. Within(e, "js") = <<>>
      BY <1>2, <2>3, <2>4 DEF Without, Get
    <3>2. Within(e, "contract") = <<>>
      BY <1>2, <3>1 DEF Get
    <3>3. QED BY <3>2
  <2>5. CASE f # "js"
    <3>1. Within(e, "js") = js
      BY <1>1, <1>2, <2>3, <2>5 DEF Without, Get
    <3>2. QED BY <1>1, <1>2, <3>1
  <2>6. QED BY <2>4, <2>5
<1>5. CASE place = "js"
  <2>1. f \in DOMAIN js /\ e = [d EXCEPT !.config.js = Without(js, f)]
    BY <1>5, PlacesOfObject
  <2>2. "js" \in DOMAIN conf
    BY <1>1, <2>1, GotField
  <2>3. "config" \in DOMAIN d /\ conf = d.config
    BY <1>1, <2>2, GotField
  <2> HIDE DEF conf, js
  <2>4. Within(e, "config") = [conf EXCEPT !.js = Without(js, f)]
    BY <1>2, <2>1, <2>3 DEF Get
  <2>5. Within(e, "js") = Without(js, f)
    BY <1>2, <2>2, <2>4 DEF Get
  <2>6. CASE f = "contract"
    <3>1. Within(e, "contract") = <<>>
      BY <1>2, <2>5, <2>6 DEF Without, Get
    <3>2. QED BY <3>1
  <2>7. CASE f # "contract"
    <3>1. Within(e, "contract") = c
      BY <1>1, <1>2, <2>5, <2>7 DEF Without, Get
    <3>2. QED BY <3>1
  <2>8. QED BY <2>6, <2>7
<1>6. CASE place = "contract"
  <2>1. f \in DOMAIN c /\ e = [d EXCEPT !.config.js.contract = Without(c, f)]
    BY <1>6, PlacesOfObject
  <2>2. "contract" \in DOMAIN js
    BY <1>1, <2>1, GotField
  <2>3. "js" \in DOMAIN conf /\ js = conf.js
    BY <1>1, <2>2, GotField
  <2>4. "config" \in DOMAIN d /\ conf = d.config
    BY <1>1, <2>3, GotField
  <2> HIDE DEF conf, js, c
  <2>5. Within(e, "config") = [conf EXCEPT !.js.contract = Without(c, f)]
    BY <1>2, <2>1, <2>4 DEF Get
  <2>6. Within(e, "js") = [js EXCEPT !.contract = Without(c, f)]
    BY <1>2, <2>3, <2>5 DEF Get
  <2>7. Within(e, "contract") = Without(c, f)
    BY <1>2, <2>2, <2>6 DEF Get
  <2>8. QED BY <2>7 DEF c
<1>7. QED BY <1>3, <1>4, <1>5, <1>6

(* A value that is replaced changes nothing else.                           *)
LEMMA EffectIsSet ==
  ASSUME NEW d, "effect" \in DOMAIN Within(d, "contract"),
         NEW e, e = [d EXCEPT !.config.js.contract.effect = "other"]
  PROVE  Within(e, "contract") = [Within(d, "contract") EXCEPT !.effect = "other"]
<1> DEFINE conf == Within(d, "config")
           js == Within(d, "js")
           c == Within(d, "contract")
<1>1. /\ conf = Get(d, "config", <<>>) /\ js = Get(conf, "js", <<>>)
      /\ c = Get(js, "contract", <<>>)
  BY PlacesOfObject
<1>2. /\ Within(e, "config") = Get(e, "config", <<>>)
      /\ Within(e, "js") = Get(Within(e, "config"), "js", <<>>)
      /\ Within(e, "contract") = Get(Within(e, "js"), "contract", <<>>)
  BY PlacesOfObject
<1>3. "contract" \in DOMAIN js /\ c = js.contract
  BY <1>1, GotField
<1>4. "js" \in DOMAIN conf /\ js = conf.js
  BY <1>1, <1>3, GotField
<1>5. "config" \in DOMAIN d /\ conf = d.config
  BY <1>1, <1>4, GotField
<1> HIDE DEF conf, js, c
<1>6. Within(e, "config") = [conf EXCEPT !.js.contract.effect = "other"]
  BY <1>2, <1>5 DEF Get
<1>7. Within(e, "js") = [js EXCEPT !.contract.effect = "other"]
  BY <1>2, <1>4, <1>6 DEF Get
<1>8. Within(e, "contract") = [c EXCEPT !.effect = "other"]
  BY <1>2, <1>3, <1>7 DEF Get
<1>9. QED BY <1>8 DEF c

LEMMA KindIsSet ==
  ASSUME NEW d, "output" \in DOMAIN Within(d, "contract"),
         NEW e, e = [d EXCEPT !.config.js.contract.output.kind = "other"]
  PROVE  Within(e, "contract") = [Within(d, "contract") EXCEPT !.output.kind = "other"]
<1> DEFINE conf == Within(d, "config")
           js == Within(d, "js")
           c == Within(d, "contract")
<1>1. /\ conf = Get(d, "config", <<>>) /\ js = Get(conf, "js", <<>>)
      /\ c = Get(js, "contract", <<>>)
  BY PlacesOfObject
<1>2. /\ Within(e, "config") = Get(e, "config", <<>>)
      /\ Within(e, "js") = Get(Within(e, "config"), "js", <<>>)
      /\ Within(e, "contract") = Get(Within(e, "js"), "contract", <<>>)
  BY PlacesOfObject
<1>3. "contract" \in DOMAIN js /\ c = js.contract
  BY <1>1, GotField
<1>4. "js" \in DOMAIN conf /\ js = conf.js
  BY <1>1, <1>3, GotField
<1>5. "config" \in DOMAIN d /\ conf = d.config
  BY <1>1, <1>4, GotField
<1> HIDE DEF conf, js, c
<1>6. Within(e, "config") = [conf EXCEPT !.js.contract.output.kind = "other"]
  BY <1>2, <1>5 DEF Get
<1>7. Within(e, "js") = [js EXCEPT !.contract.output.kind = "other"]
  BY <1>2, <1>4, <1>6 DEF Get
<1>8. Within(e, "contract") = [c EXCEPT !.output.kind = "other"]
  BY <1>2, <1>3, <1>7 DEF Get
<1>9. QED BY <1>8 DEF c

(* Nor does what is put beside the configuration.                          *)
LEMMA SetElsewhere ==
  ASSUME NEW d, NEW e, "config" \in DOMAIN e <=> "config" \in DOMAIN d,
         "config" \in DOMAIN d => e["config"] = d["config"]
  PROVE  Within(e, "contract") = Within(d, "contract")
<1>1. Get(e, "config", <<>>) = Get(d, "config", <<>>)
  BY SameField
<1>2. \A o : /\ Within(o, "config") = Get(o, "config", <<>>)
             /\ Within(o, "js") = Get(Within(o, "config"), "js", <<>>)
             /\ Within(o, "contract") = Get(Within(o, "js"), "contract", <<>>)
  BY PlacesOfObject
<1>3. QED BY <1>1, <1>2

LEMMA EnumerationsStay ==
  ASSUME NodeInv, Edit
  PROVE  EnumerationsHold'
<1> DEFINE c == Within(dict, "contract")
           e == Within(dict', "contract")
           SetE == <<"value", "effect">>
           SetK == <<"value", "output.kind">>
<1>1. /\ SetE \notin edits => Get(c, "effect", "unknown") \in CodeEffects
      /\ SetK \notin edits => ("output" \in DOMAIN c => c.output.kind \in OutputShapeKinds)
  BY DEF NodeInv, EnumerationsHold
<1>2. SUFFICES /\ SetE \notin edits' => Get(e, "effect", "unknown") \in CodeEffects
               /\ SetK \notin edits' => ("output" \in DOMAIN e => e.output.kind \in OutputShapeKinds)
  BY DEF EnumerationsHold
<1>3. edits \subseteq edits'
  BY DEF Edit, Drop, SetEffect, SetKind, SetOnError, AddNull
<1>4. ASSUME e = c
      PROVE  /\ SetE \notin edits' => Get(e, "effect", "unknown") \in CodeEffects
             /\ SetK \notin edits' => ("output" \in DOMAIN e => e.output.kind \in OutputShapeKinds)
  BY <1>1, <1>3, <1>4
<1>5. CASE Drop
  <2>1. PICK place \in {"node", "config", "js", "contract"} : \E f \in DOMAIN Within(dict, place) :
          dict' = Replaced(dict, place, Without(Within(dict, place), f))
    BY <1>5 DEF Drop
  <2>2. PICK f \in DOMAIN Within(dict, place) :
          dict' = Replaced(dict, place, Without(Within(dict, place), f))
    BY <2>1
  <2>3. e = c \/ e = <<>> \/ e = Without(c, f)
    BY <2>2, DropLeaves
  <2>4. CASE e = <<>>
    BY <2>4 DEF Get, CodeEffects
  <2>5. CASE e = Without(c, f)
    <3> HIDE DEF c, e
    <3>1. /\ DOMAIN e \subseteq DOMAIN c
          /\ \A g \in DOMAIN e : e[g] = c[g]
      BY <2>5 DEF Without
    <3>2. Get(e, "effect", "unknown") \in {"unknown", Get(c, "effect", "unknown")}
      BY <3>1 DEF Get
    <3>3. "output" \in DOMAIN e => "output" \in DOMAIN c /\ e.output = c.output
      BY <3>1
    <3>4. QED BY <1>1, <1>3, <3>2, <3>3 DEF CodeEffects
  <2>6. QED BY <1>4, <2>3, <2>4, <2>5
<1>6. CASE SetEffect \/ SetKind
  <2>1. \/ /\ "effect" \in DOMAIN c /\ e = [c EXCEPT !.effect = "other"]
           /\ edits' = edits \cup {SetE}
        \/ /\ "output" \in DOMAIN c /\ e = [c EXCEPT !.output.kind = "other"]
           /\ edits' = edits \cup {SetK}
    <3>1. CASE SetEffect
      <4>1. "effect" \in DOMAIN c /\ dict' = [dict EXCEPT !.config.js.contract.effect = "other"]
            /\ edits' = edits \cup {SetE}
        BY <3>1 DEF SetEffect
      <4>2. e = [c EXCEPT !.effect = "other"]
        BY <4>1, EffectIsSet
      <4>3. QED BY <4>1, <4>2
    <3>2. CASE SetKind
      <4>1. "output" \in DOMAIN c /\ dict' = [dict EXCEPT !.config.js.contract.output.kind = "other"]
            /\ edits' = edits \cup {SetK}
        BY <3>2 DEF SetKind
      <4>2. e = [c EXCEPT !.output.kind = "other"]
        BY <4>1, KindIsSet
      <4>3. QED BY <4>1, <4>2
    <3>3. QED BY <1>6, <3>1, <3>2
  <2> HIDE DEF c, e
  <2>2. CASE /\ "effect" \in DOMAIN c /\ e = [c EXCEPT !.effect = "other"]
             /\ edits' = edits \cup {SetE}
    <3>1. "output" \in DOMAIN e => "output" \in DOMAIN c /\ e.output = c.output
      BY <2>2
    <3>2. SetE \in edits' /\ (SetK \notin edits' => SetK \notin edits)
      BY <2>2
    <3>3. QED BY <1>1, <3>1, <3>2
  <2>3. CASE /\ "output" \in DOMAIN c /\ e = [c EXCEPT !.output.kind = "other"]
             /\ edits' = edits \cup {SetK}
    <3>1. Get(e, "effect", "unknown") = Get(c, "effect", "unknown")
      BY <2>3 DEF Get
    <3>2. SetK \in edits' /\ (SetE \notin edits' => SetE \notin edits)
      BY <2>3
    <3>3. QED BY <1>1, <3>1, <3>2
  <2>4. QED BY <2>1, <2>2, <2>3
<1>7. CASE SetOnError
  <2>1. dict' = [dict EXCEPT !.error_policy.on_error = "other"]
    BY <1>7 DEF SetOnError
  <2>2. DOMAIN dict' = DOMAIN dict /\ ("config" \in DOMAIN dict => dict'["config"] = dict["config"])
    BY <2>1
  <2>3. e = c
    BY <2>2, SetElsewhere
  <2>4. QED BY <1>4, <2>3
<1>8. CASE AddNull
  <2>1. PICK i : dict' = [dict EXCEPT !.input_sources[i].source.ref = With(@, "variable_type", Null)]
    BY <1>8 DEF AddNull
  <2>2. DOMAIN dict' = DOMAIN dict /\ ("config" \in DOMAIN dict => dict'["config"] = dict["config"])
    BY <2>1
  <2>3. e = c
    BY <2>2, SetElsewhere
  <2>4. QED BY <1>4, <2>3
<1>9. QED BY <1>5, <1>6, <1>7, <1>8 DEF Edit

-----------------------------------------------------------------------------
(***************************************************************************)
(* The invariant.                                                          *)
(***************************************************************************)
LEMMA SourcesAreList ==
  ASSUME Declared
  PROVE  Len(NodeSources) \in Nat /\ DOMAIN NodeSources = 1 .. Len(NodeSources)
BY DeclaredParts

LEMMA NodeInitInv == NodeInit => NodeInv
<1> SUFFICES ASSUME NodeInit PROVE NodeInv
  OBVIOUS
<1>1. Declared
  BY DEF NodeInit, Declared
<1>2. DependencyInv
  <2>1. \A xs, b : OfBucket(xs, b, 0) = {}
    BY DEF OfBucket
  <2>2. /\ resolved = 0
        /\ dependencies = [direct |-> <<>>, indirect |-> <<>>, variables |-> <<>>]
    BY DEF NodeInit
  <2>3. \A xs : BucketLists(<<>>, xs, {})
    BY DEF BucketLists
  <2>4. IsList(<<>>) /\ \A xs : ListsInOrder(<<>>, xs, {})
    BY NothingListed
  <2>5. resolved \in 0 .. Len(NodeSources)
    BY <1>1, <2>2, SourcesAreList
  <2>6. QED BY <2>1, <2>2, <2>3, <2>4, <2>5 DEF DependencyInv
<1>3. EnumerationsHold
  <2>1. dict = <<>> /\ edits = {}
    BY DEF NodeInit
  <2>2. \A name : Get(<<>>, name, <<>>) = <<>>
    BY DEF Get
  <2>3. \A o : /\ Within(o, "config") = Get(o, "config", <<>>)
               /\ Within(o, "js") = Get(Within(o, "config"), "js", <<>>)
               /\ Within(o, "contract") = Get(Within(o, "js"), "contract", <<>>)
    BY PlacesOfObject
  <2>4. Within(dict, "contract") = <<>>
    BY <2>1, <2>2, <2>3
  <2>5. QED BY <2>4 DEF EnumerationsHold, Get, CodeEffects
<1>4. IsFiniteSet(edits) /\ Cardinality(edits) <= MaxEdits
  BY NodeIrAssumption, FS_EmptySet DEF NodeInit
<1>5. QED BY <1>1, <1>2, <1>3, <1>4 DEF NodeInit, NodeInv

(* What stays when the node and its dependencies do.                       *)
LEMMA NodeStays ==
  ASSUME NodeInv, UNCHANGED <<node, dependency_vars>>
  PROVE  Declared' /\ DependencyInv' /\ NodeSources' = NodeSources
         /\ node_to_dict(node)' = node_to_dict(node)
<1>1. node' = node /\ resolved' = resolved /\ dependencies' = dependencies
  BY DEF dependency_vars
<1>2. Declared' /\ NodeSources' = NodeSources
  BY <1>1 DEF NodeInv, Declared, NodeSources
<1>3. DependencyInv'
  BY <1>1, <1>2 DEF NodeInv, DependencyInv
<1>4. dependencies_to_dict' = dependencies_to_dict
  BY <1>1 DEF dependencies_to_dict
<1>5. node_to_dict(node)' = node_to_dict(node)
  BY <1>1, <1>4 DEF node_to_dict
<1>6. QED BY <1>2, <1>3, <1>5

LEMMA ResolveOneStep == NodeInv /\ ResolveOne => NodeInv'
<1> SUFFICES ASSUME NodeInv, ResolveOne PROVE NodeInv'
  OBVIOUS
<1>1. node_stage = "declared" /\ UNCHANGED <<node, dict, edits, loaded, node_stage>>
  BY DEF ResolveOne
<1>2. Declared'
  BY <1>1 DEF NodeInv, Declared
<1>3. DependencyInv'
  BY ResolveKeeps DEF NodeInv
<1>4. EnumerationsHold'
  BY <1>1 DEF NodeInv, EnumerationsHold
<1>5. QED BY <1>1, <1>2, <1>3, <1>4 DEF NodeInv

LEMMA WrittenEnumerations ==
  ASSUME Declared, NEW d, d = node_to_dict(node)
  PROVE  LET c == Within(d, "contract")
         IN  /\ Get(c, "effect", "unknown") \in CodeEffects
             /\ "output" \in DOMAIN c => c.output.kind \in OutputShapeKinds
<1> DEFINE conf == config_to_dict(node)
           c == Within(d, "contract")
<1>0. \A o : /\ Within(o, "config") = Get(o, "config", <<>>)
             /\ Within(o, "js") = Get(Within(o, "config"), "js", <<>>)
             /\ Within(o, "contract") = Get(Within(o, "js"), "contract", <<>>)
  BY PlacesOfObject
<1>1. Within(d, "config") = conf
  BY <1>0, NodeWritten DEF Get
<1>2. /\ "js" \in DOMAIN conf <=> IsCode(node.n8n_type)
      /\ IsCode(node.n8n_type) =>
           IsContract(node.js_contract[1]) /\ conf.js = contract_to_dict(node.js_contract[1])
  BY ConfigWritten
<1> HIDE DEF conf
<1>3. CASE IsCode(node.n8n_type)
  <2>1. Within(d, "js") = contract_to_dict(node.js_contract[1])
    BY <1>0, <1>1, <1>2, <1>3 DEF Get
  <2>2. c = contract_to_dict(node.js_contract[1]).contract
    BY <1>0, <2>1 DEF Get, contract_to_dict
  <2>3. QED BY <1>2, <1>3, <2>2, ContractComesBack
<1>4. CASE ~ IsCode(node.n8n_type)
  <2>1. Within(d, "js") = <<>>
    BY <1>0, <1>1, <1>2, <1>4 DEF Get
  <2>2. c = <<>>
    BY <1>0, <2>1 DEF Get
  <2>3. QED BY <2>2 DEF Get, CodeEffects
<1>5. QED BY <1>3, <1>4

LEMMA WriteNodeStep == NodeInv /\ WriteNode => NodeInv'
<1> SUFFICES ASSUME NodeInv, WriteNode PROVE NodeInv'
  OBVIOUS
<1>1. /\ node_stage = "declared" /\ node_stage' = "written"
      /\ resolved = Len(NodeSources) /\ dict' = node_to_dict(node)
      /\ UNCHANGED <<node, dependency_vars, edits, loaded>>
  BY DEF WriteNode, NodeSources
<1>2. /\ Declared' /\ DependencyInv' /\ NodeSources' = NodeSources
      /\ node_to_dict(node)' = node_to_dict(node)
  BY <1>1, NodeStays
<1>3. EnumerationsHold'
  <2>1. Declared
    BY DEF NodeInv
  <2>2. QED BY <1>1, <2>1, WrittenEnumerations DEF EnumerationsHold
<1>4. resolved' = Len(NodeSources')
  BY <1>1, <1>2 DEF dependency_vars
<1>5. dict' = node_to_dict(node)'
  BY <1>1, <1>2
<1>6. QED BY <1>1, <1>2, <1>3, <1>4, <1>5 DEF NodeInv

LEMMA EditStep == NodeInv /\ Edit => NodeInv'
<1> SUFFICES ASSUME NodeInv, Edit PROVE NodeInv'
  OBVIOUS
<1>1. /\ node_stage = "written" /\ Cardinality(edits) < MaxEdits
      /\ UNCHANGED <<node, dependency_vars, loaded, node_stage>>
  BY DEF Edit
<1>2. /\ Declared' /\ DependencyInv' /\ NodeSources' = NodeSources
  BY <1>1, NodeStays
<1>3. EnumerationsHold'
  BY EnumerationsStay
<1>4. PICK x : edits' = edits \cup {x}
  BY DEF Edit, Drop, SetEffect, SetKind, SetOnError, AddNull
<1>5. IsFiniteSet(edits') /\ Cardinality(edits') <= MaxEdits
  <2>1. IsFiniteSet(edits) /\ Cardinality(edits) \in Nat
    BY FS_CardinalityType DEF NodeInv
  <2>2. IsFiniteSet(edits') /\ Cardinality(edits') \in {Cardinality(edits), Cardinality(edits) + 1}
    BY <1>4, <2>1, FS_AddElement
  <2>3. QED BY <1>1, <2>1, <2>2, NodeIrAssumption
<1>6. edits' # {}
  BY <1>4
<1>7. resolved' = Len(NodeSources')
  BY <1>1, <1>2 DEF NodeInv, dependency_vars
<1>8. QED BY <1>1, <1>2, <1>3, <1>5, <1>6, <1>7 DEF NodeInv

LEMMA CheckNodeStep == NodeInv /\ CheckNode => NodeInv'
<1> SUFFICES ASSUME NodeInv, CheckNode PROVE NodeInv'
  OBVIOUS
<1>1. /\ node_stage = "written" /\ UNCHANGED <<node, dependency_vars, dict, edits, loaded>>
      /\ node_stage' = IF valid_node(dict) THEN "accepted" ELSE "refused"
  BY DEF CheckNode
<1>2. /\ Declared' /\ DependencyInv' /\ NodeSources' = NodeSources
      /\ node_to_dict(node)' = node_to_dict(node)
  BY <1>1, NodeStays
<1>3. EnumerationsHold'
  BY <1>1 DEF NodeInv, EnumerationsHold
<1>4. resolved' = Len(NodeSources') /\ (edits' = {} => dict' = node_to_dict(node)')
  BY <1>1, <1>2 DEF NodeInv, dependency_vars
<1>5. loaded' = <<>>
  BY <1>1 DEF NodeInv
<1>6. valid_node(dict)' <=> valid_node(dict)
  BY <1>1
<1>7. CASE valid_node(dict)
  BY <1>1, <1>2, <1>3, <1>4, <1>5, <1>6, <1>7 DEF NodeInv
<1>8. CASE ~ valid_node(dict)
  BY <1>1, <1>2, <1>3, <1>4, <1>5, <1>6, <1>8 DEF NodeInv
<1>9. QED BY <1>7, <1>8

LEMMA LoadStep == NodeInv /\ Load => NodeInv'
<1> SUFFICES ASSUME NodeInv, Load PROVE NodeInv'
  OBVIOUS
<1> DEFINE Raises == IsCode(dict.config.n8n_type) /\ "js" \in DOMAIN dict.config
                       /\ contract_raises(dict.config.js)
<1>1. /\ node_stage = "accepted" /\ UNCHANGED <<node, dependency_vars, dict, edits>>
      /\ IF Raises THEN node_stage' = "raised" /\ UNCHANGED loaded
         ELSE node_stage' = "loaded" /\ loaded' = load_typed_node(dict)
  BY DEF Load
<1>2. /\ Declared' /\ DependencyInv' /\ NodeSources' = NodeSources
      /\ node_to_dict(node)' = node_to_dict(node)
  BY <1>1, NodeStays
<1>3. EnumerationsHold'
  BY <1>1 DEF NodeInv, EnumerationsHold
<1>4. resolved' = Len(NodeSources') /\ (edits' = {} => dict' = node_to_dict(node)')
  BY <1>1, <1>2 DEF NodeInv, dependency_vars
<1>5. loaded = <<>> /\ valid_node(dict)'
  BY <1>1 DEF NodeInv
<1>6. CASE Raises
  BY <1>1, <1>2, <1>3, <1>4, <1>5, <1>6 DEF NodeInv
<1>7. CASE ~ Raises
  <2>1. load_typed_node(dict)' = load_typed_node(dict)
    BY <1>1
  <2>2. load_typed_node(dict) # <<>>
    BY DEF load_typed_node
  <2> HIDE DEF Raises
  <2>3. QED BY <1>1, <1>2, <1>3, <1>4, <1>5, <1>7, <2>1, <2>2 DEF NodeInv
<1>8. QED BY <1>6, <1>7

LEMMA NodeStutters == NodeInv /\ UNCHANGED node_vars => NodeInv'
<1> SUFFICES ASSUME NodeInv, UNCHANGED node_vars PROVE NodeInv'
  OBVIOUS
<1>1. UNCHANGED <<node, dependency_vars, dict, edits, loaded, node_stage>>
  BY DEF node_vars
<1>2. /\ Declared' /\ DependencyInv' /\ NodeSources' = NodeSources
      /\ node_to_dict(node)' = node_to_dict(node)
  BY <1>1, NodeStays
<1>3. EnumerationsHold'
  BY <1>1 DEF NodeInv, EnumerationsHold
<1>4. QED BY <1>1, <1>2, <1>3 DEF NodeInv, dependency_vars

LEMMA NodeStepInv == NodeInv /\ [NodeNext]_node_vars => NodeInv'
BY ResolveOneStep, WriteNodeStep, EditStep, CheckNodeStep, LoadStep, NodeStutters
  DEF NodeNext, NodeFinished

(* The invariant of the node's way through a document.                     *)
THEOREM NodeInvariance == NodeSpec => []NodeInv
BY NodeInitInv, NodeStepInv, PTL DEF NodeSpec

(* The stages of the node and the edits of its object are what they are    *)
(* declared to be; every source is resolved once.                          *)
THEOREM NodeTypes == NodeSpec => []NodeTypeOK
<1>1. NodeInv => NodeTypeOK
  BY DEF NodeInv, NodeTypeOK, DependencyInv, NodeSources
<1>2. QED BY <1>1, NodeInvariance, PTL

(* The writer, the loader and the reader agree on every declaration: what  *)
(* is written passes (NodePasses), what is read back is the declaration    *)
(* without its error policy and its credentials, which the reader leaves   *)
(* at their defaults (NodeComesBack), and only a replaced value makes the  *)
(* reader raise.                                                           *)
THEOREM AllButPolicyAndCredentialsComesBack == NodeSpec => []ReadKeepsMeaning
<1>1. NodeInv => ReadKeepsMeaning
  <2> SUFFICES ASSUME NodeInv PROVE ReadKeepsMeaning
    OBVIOUS
  <2>1. Declared /\ DependencyInv
    BY DEF NodeInv
  <2>2. ASSUME node_stage = "refused" PROVE edits # {}
    <3>1. ~ valid_node(dict) /\ (edits = {} => dict = node_to_dict(node))
      BY <2>2 DEF NodeInv
    <3>2. valid_node(node_to_dict(node))
      BY <2>1, NodePasses
    <3>3. QED BY <3>1, <3>2
  <2>3. ASSUME node_stage = "loaded", edits = {}
        PROVE  \A f \in DOMAIN node \ {"error_policy", "credentials"} : loaded[f] = node[f]
    <3>1. dict = node_to_dict(node) /\ loaded = load_typed_node(dict)
      BY <2>3 DEF NodeInv
    <3>2. \A f \in DOMAIN node \ {"error_policy", "credentials"} :
            load_typed_node(node_to_dict(node))[f] = node[f]
      BY <2>1, NodeComesBack
    <3>3. QED BY <3>1, <3>2
  <2>4. ASSUME node_stage = "raised"
        PROVE  edits \cap {<<"value", "effect">>, <<"value", "output.kind">>} # {}
    <3> DEFINE js == dict.config.js
               c == Within(dict, "contract")
    <3>1. /\ valid_node(dict) /\ "js" \in DOMAIN dict.config /\ contract_raises(js)
          /\ EnumerationsHold
      BY <2>4 DEF NodeInv
    <3>2. /\ "config" \in DOMAIN dict /\ valid_config(dict.config)
      BY <3>1 DEF valid_node, Fields
    <3>3. "contract" \in DOMAIN js
      BY <3>1, <3>2 DEF valid_config, Fields
    <3>4. c = js.contract
      <4>1. \A o : /\ Within(o, "config") = Get(o, "config", <<>>)
                 /\ Within(o, "js") = Get(Within(o, "config"), "js", <<>>)
                 /\ Within(o, "contract") = Get(Within(o, "js"), "contract", <<>>)
        BY PlacesOfObject
      <4>2. Within(dict, "config") = dict.config
        BY <3>2, <4>1 DEF Get
      <4>3. Within(dict, "js") = js
        BY <3>1, <4>1, <4>2 DEF Get
      <4>4. QED BY <3>3, <4>1, <4>3 DEF Get
    <3> HIDE DEF js, c
    <3>5. \/ Get(c, "effect", "unknown") \notin CodeEffects
          \/ "output" \in DOMAIN c /\ c.output.kind \notin OutputShapeKinds
      BY <3>1, <3>4 DEF contract_raises
    <3>6. <<"value", "effect">> \in edits \/ <<"value", "output.kind">> \in edits
      BY <3>1, <3>5 DEF EnumerationsHold, c
    <3>7. QED BY <3>6
  <2>5. QED BY <2>2, <2>3, <2>4 DEF ReadKeepsMeaning
<1>2. QED BY <1>1, NodeInvariance, PTL

(* The buckets of a written node hold its references, every one once, in   *)
(* their order and at the node they are to.                                *)
THEOREM DependenciesAreAlwaysSources == NodeSpec => []DependenciesAreSources
<1>1. NodeInv => DependenciesAreSources
  <2> SUFFICES ASSUME NodeInv, node_stage = "written", edits = {} PROVE DependenciesAreSources
    BY DEF DependenciesAreSources
  <2> DEFINE Of(b) == {i \in DOMAIN NodeSources : bucket_of(NodeSources[i]) = b}
  <2>1. Declared /\ DependencyInv /\ resolved = Len(NodeSources) /\ dict = node_to_dict(node)
    BY DEF NodeInv
  <2>2. dict.dependencies = dependencies_to_dict
    BY <2>1, NodeWritten
  <2>3. DOMAIN NodeSources = 1 .. Len(NodeSources)
    BY <2>1, SourcesAreList
  <2>4. \A b : OfBucket(NodeSources, b, resolved) = Of(b)
    BY <2>1, <2>3 DEF OfBucket
  <2> HIDE DEF Of
  <2>5. /\ ListsInOrder(dependencies.variables, NodeSources, Of("variables"))
        /\ BucketLists(dependencies.direct, NodeSources, Of("direct"))
        /\ BucketLists(dependencies.indirect, NodeSources, Of("indirect"))
    BY <2>1, <2>4 DEF DependencyInv
  <2>6. \A b \in {"direct", "indirect"} : BucketLists(dict.dependencies[b], NodeSources, Of(b))
    BY <2>2, <2>5 DEF dependencies_to_dict
  <2>7. ListsInOrder(dict.dependencies.variables, NodeSources, Of("variables"))
    BY <2>2, <2>5 DEF dependencies_to_dict
  <2>8. \A b \in {"direct", "indirect"} :
          /\ DOMAIN dict.dependencies[b] = {NodeSources[i].node : i \in Of(b)}
          /\ \A k \in DOMAIN dict.dependencies[b] :
               ListsInOrder(dict.dependencies[b][k], NodeSources,
                            {i \in Of(b) : NodeSources[i].node = k})
    BY <2>6 DEF BucketLists
  <2>9. QED BY <2>7, <2>8 DEF DependenciesAreSources, NodeSources, Of
<1>2. QED BY <1>1, NodeInvariance, PTL
=============================================================================
