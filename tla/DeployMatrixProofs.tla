------------------------- MODULE DeployMatrixProofs -------------------------
(***************************************************************************)
(* Proofs about DeployMatrix: for any matrix, any number of commands in    *)
(* any order, crashes between and within their steps, and writes that are  *)
(* carried out after their client gave up.                                 *)
(*                                                                         *)
(* The inductive invariant follows a scenario through the files: what the  *)
(* loops have left to do, which command came last, what ids.json says of   *)
(* the instance, what the results say of ids.json, and which workflows may *)
(* be due to a write that was given up.                                    *)
(***************************************************************************)
EXTENDS DeployMatrix, SequenceTheorems, FiniteSetTheorems, FunctionTheorems, TLAPS

Commands == {"deploy", "execute", "assert"}
Codes == {"none", "running", "0", "failed"}
Deploying == phase \in {"tunnel", "deploying", "writing"}

Typed ==
  /\ TypeOK
  /\ round \in Nat
  /\ last \in [Commands -> [round : Nat, code : Codes]]
  /\ Deploying => mode \in Modes
  /\ todo \in Seq(Names)
  /\ DOMAIN found \subseteq Names /\ found \in [DOMAIN found -> 1..Len(stored)]
  /\ failures + Len(todo) <= Len(Scenarios)
  /\ phase \in {"idle", "tunnel"} => failures = 0 /\ DOMAIN found = {}
  /\ phase = "executing" => Range(todo) \subseteq DOMAIN ids

(* The command that runs was started last.                                 *)
Runs(command) ==
  /\ last[command] = [round |-> round, code |-> "running"]
  /\ \A c \in Commands \ {command} : last[c].round < round

Rounds ==
  /\ \A c \in Commands : last[c].round <= round
  /\ Deploying => Runs("deploy")
  /\ phase = "executing" => Runs("execute")

(* An id stands for a workflow of the name it is kept under.               *)
Fits(file) == \A s \in DOMAIN file : stored[file[s]].name = s

Named ==
  /\ ids \notin {Absent, Torn} => Fits(ids)
  /\ Fits(found)
  /\ \A s \in DOMAIN results : stored[results[s].id].name = s
  /\ phase = "writing" /\ target # 0 => stored[target].name = Head(todo)

(* Who gives up on a write does not return 0.                              *)
Told ==
  \A w \in lost : w.round = last["deploy"].round =>
    last["deploy"].code # "0" /\ (Deploying => failures > 0)

(* A duplicate, or one in the making, goes with a POST that was given up.  *)
Posted(name, rounds) == \E w \in lost : w.id = 0 /\ w.name = name /\ w.round \in rounds

Once ==
  /\ \A i, j \in 1..Len(stored) :
       i < j /\ stored[i].name = stored[j].name /\ stored[j].made = "upsert" =>
         Posted(stored[i].name, {stored[i].born, stored[j].born})
  /\ phase = "writing" /\ mode = "upsert" /\ target = 0 =>
       \A i \in 1..Len(stored) : stored[i].name = Head(todo) =>
         Posted(stored[i].name, {stored[i].born})

(* What an execution has not written itself it could not remove.           *)
Kept ==
  /\ \A s, t \in DOMAIN results : ~ results[s].kept /\ ~ results[t].kept =>
       results[s].round = results[t].round
  /\ phase = "executing" =>
       \A s \in DOMAIN results : ~ results[s].kept => results[s].round = round

Asserted ==
  last["assert"].code = "0" /\ last["execute"].round < last["assert"].round => Verdict

(* Of deployment r, or written again by a write that was given up.         *)
Versions(r) == {r} \union {w.round : w \in lost}

Fresh ==
  /\ last["deploy"].code = "0" =>
       /\ ids \in [Names -> 1..Len(stored)]
       /\ \A s \in Names : stored[ids[s]].round \in Versions(last["deploy"].round)
  /\ phase \in {"deploying", "writing"} =>
       /\ \A s \in DOMAIN found : stored[found[s]].round \in Versions(round)
       /\ failures = 0 => Names \subseteq DOMAIN found \union Range(todo)

Ran ==
  /\ phase = "executing" =>
       /\ last["deploy"].code = "0" =>
            \A s \in DOMAIN results : ~ results[s].kept =>
              results[s].version \in Versions(last["deploy"].round)
       /\ failures = 0 =>
            \A s \in DOMAIN ids : s \in Range(todo) \/ (s \in DOMAIN results /\ ~ results[s].kept)
  /\ last["execute"].code = "0" /\ last["deploy"].code = "0"
       /\ last["deploy"].round < last["execute"].round =>
       \A s \in Names :
         /\ s \in DOMAIN results
         /\ results[s].round = last["execute"].round
         /\ results[s].version \in Versions(last["deploy"].round)

IInv ==
  Typed /\ Rounds /\ Named /\ Told /\ Once /\ Kept /\ Asserted /\ Fresh /\ Ran

-----------------------------------------------------------------------------
LEMMA WithType ==
  ASSUME NEW f, NEW s, NEW x, NEW S, f \in [DOMAIN f -> S], x \in S
  PROVE  With(f, s, x) \in [DOMAIN With(f, s, x) -> S]
BY DEF With

LEMMA TailIs ==
  ASSUME NEW S, NEW t \in Seq(S), t # <<>>
  PROVE  /\ Head(t) \in S /\ Head(t) \in Range(t)
         /\ Tail(t) \in Seq(S) /\ Len(Tail(t)) = Len(t) - 1
         /\ Range(Tail(t)) \subseteq Range(t)
         /\ Range(t) \subseteq {Head(t)} \union Range(Tail(t))
<1>1. /\ Len(t) \in Nat /\ Len(t) # 0 /\ Head(t) = t[1]
      /\ Tail(t) \in Seq(S) /\ Len(Tail(t)) = Len(t) - 1
      /\ \A i \in 1..Len(Tail(t)) : Tail(t)[i] = t[i + 1]
  BY HeadTailProperties, EmptySeq
<1>2. 1 \in DOMAIN t /\ DOMAIN t = 1..Len(t) /\ DOMAIN Tail(t) = 1..(Len(t) - 1)
  BY <1>1
<1>3. t[1] \in S /\ t[1] \in Range(t)
  BY <1>1, <1>2 DEF Range
<1>4. ASSUME NEW y \in Range(Tail(t)) PROVE y \in Range(t)
  <2>1. PICK i \in 1..(Len(t) - 1) : y = Tail(t)[i]
    BY <1>2 DEF Range
  <2>2. y = t[i + 1] /\ i + 1 \in DOMAIN t
    BY <1>1, <1>2, <2>1
  <2>3. QED BY <2>2 DEF Range
<1>5. ASSUME NEW y \in Range(t), y # Head(t) PROVE y \in Range(Tail(t))
  <2>1. PICK i \in 1..Len(t) : y = t[i]
    BY <1>2 DEF Range
  <2>2. i - 1 \in 1..(Len(t) - 1) /\ (i - 1) + 1 = i
    BY <1>1, <1>5, <2>1
  <2>3. y = Tail(t)[i - 1] /\ i - 1 \in DOMAIN Tail(t)
    BY <1>1, <1>2, <2>1, <2>2
  <2>4. QED BY <2>3 DEF Range
<1>6. QED BY <1>1, <1>3, <1>4, <1>5

(* A matrix of n scenarios has n names at most.                            *)
LEMMA NamesAreFew ==
  /\ Len(Scenarios) \in Nat /\ Len(Scenarios) > 0 /\ Scenarios \in Seq(Names)
  /\ IsFiniteSet(Names) /\ Cardinality(Names) <= Len(Scenarios)
<1>1. Scenarios \in Seq(Names) /\ Len(Scenarios) \in Nat /\ Len(Scenarios) > 0
  <2>1. Scenarios \in Seq(Range(Scenarios)) /\ Scenarios # <<>>
    BY MatrixAssumption
  <2>2. QED BY <2>1, EmptySeq DEF Names
<1>2. Scenarios \in Surjection(1..Len(Scenarios), Names)
  <2>1. DOMAIN Scenarios = 1..Len(Scenarios) /\ Scenarios \in [1..Len(Scenarios) -> Names]
    BY <1>1
  <2>2. \A n \in Names : \E i \in 1..Len(Scenarios) : Scenarios[i] = n
    BY <2>1 DEF Names, Range
  <2>3. QED BY <2>1, <2>2, Fun_IsSurj
<1>3. IsFiniteSet(1..Len(Scenarios)) /\ Cardinality(1..Len(Scenarios)) = Len(Scenarios)
  BY <1>1, FS_Interval
<1>4. IsFiniteSet(Names) /\ Cardinality(Names) <= Cardinality(1..Len(Scenarios))
  BY <1>2, <1>3, FS_Surjection
<1>5. QED BY <1>1, <1>3, <1>4

(* The order takes up each name once.                                      *)
LEMMA InOrderIs ==
  ASSUME NEW names \in SUBSET Names, NEW t \in InOrder(names)
  PROVE  /\ t \in Seq(names) /\ t \in Seq(Names) /\ Range(t) = names
         /\ Len(t) <= Len(Scenarios)
<1> DEFINE n == Cardinality(names)
<1>1. IsFiniteSet(names) /\ n \in Nat /\ n <= Len(Scenarios)
  <2>1. IsFiniteSet(names) /\ n <= Cardinality(Names)
    BY NamesAreFew, FS_Subset
  <2>2. n \in Nat /\ Cardinality(Names) \in Nat
    BY <2>1, NamesAreFew, FS_CardinalityType
  <2>3. QED BY <2>1, <2>2, NamesAreFew
<1>2. t \in [1..n -> names] /\ \A i, j \in 1..n : i # j => t[i] # t[j]
  BY DEF InOrder, SetToSeqs
<1> HIDE DEF n
<1>3. t \in Seq(names) /\ Len(t) = n
  BY <1>1, <1>2, SeqDef
<1>4. Range(t) = names
  <2>1. t \in Injection(1..n, names)
    BY <1>2, Fun_IsInj
  <2>2. IsFiniteSet(1..n) /\ Cardinality(1..n) = n
    BY <1>1, FS_Interval
  <2>3. t \in Surjection(1..n, names)
    BY <1>1, <2>1, <2>2, FS_Injection DEF n
  <2>4. \A s \in names : \E i \in 1..n : t[i] = s
    BY <2>3 DEF Surjection
  <2>5. DOMAIN t = 1..n
    BY <1>2
  <2>6. QED BY <1>2, <2>4, <2>5 DEF Range
<1>5. t \in Seq(Names)
  <2>1. t \in [1..n -> Names]
    BY <1>2
  <2>2. QED BY <1>1, <2>1, SeqDef
<1>6. QED BY <1>1, <1>3, <1>4, <1>5

LEMMA LastIs ==
  ASSUME Typed, NEW command \in Commands, NEW r \in Nat, NEW code \in Codes,
         Note(command, r, code)
  PROVE  /\ last' \in [Commands -> [round : Nat, code : Codes]]
         /\ last'[command] = [round |-> r, code |-> code]
         /\ \A c \in Commands \ {command} : last'[c] = last[c]
BY DEF Typed, Note

-----------------------------------------------------------------------------
(* What is in range stays in range: positions and rounds only grow.        *)
LEMMA RangesGrow ==
  ASSUME Typed, round' \in {round, round + 1},
         Len(stored') \in Nat, Len(stored) <= Len(stored')
  PROVE  /\ Workflow \subseteq Workflow'
         /\ stored \in Seq(Workflow')
         /\ RequestType \subseteq RequestType' /\ ResultType \subseteq ResultType'
         /\ lost \subseteq RequestType'
         /\ ids \in {Absent, Torn} \/ (DOMAIN ids \subseteq Names /\ ids \in [DOMAIN ids -> 1..Len(stored')])
         /\ results \in [DOMAIN results -> ResultType']
         /\ found \in [DOMAIN found -> 1..Len(stored')]
         /\ target \in 0..Len(stored')
<1>1. stored \in Seq(Workflow) /\ Len(stored) \in Nat /\ round \in Nat
  BY DEF Typed, TypeOK
<1>2. /\ \A i \in 1..Len(stored) : i \in 1..Len(stored')
      /\ \A i \in 0..Len(stored) : i \in 0..Len(stored')
  BY <1>1
<1>3. \A i \in 1..round : i \in 1..round'
  BY <1>1
<1>4. Workflow \subseteq Workflow'
  BY <1>3 DEF Workflow
<1>5. RequestType \subseteq RequestType'
  BY <1>2, <1>3 DEF RequestType
<1>6. ResultType \subseteq ResultType'
  BY <1>2, <1>3 DEF ResultType
<1>7. stored \in Seq(Workflow')
  <2>1. stored \in [1..Len(stored) -> Workflow]
    BY <1>1
  <2>2. stored \in [1..Len(stored) -> Workflow']
    BY <1>4, <2>1
  <2>3. QED BY <1>1, <2>2, SeqDef
<1>8. lost \subseteq RequestType'
  BY <1>5 DEF Typed, TypeOK
<1>9. results \in [DOMAIN results -> ResultType']
  BY <1>6 DEF Typed, TypeOK
<1>10. ids \in {Absent, Torn} \/ (DOMAIN ids \subseteq Names /\ ids \in [DOMAIN ids -> 1..Len(stored')])
  BY <1>2 DEF Typed, TypeOK
<1>11. found \in [DOMAIN found -> 1..Len(stored')] /\ target \in 0..Len(stored')
  BY <1>2 DEF Typed, TypeOK
<1>12. QED BY <1>4, <1>5, <1>6, <1>7, <1>8, <1>9, <1>10, <1>11

(* The instance carries a write out: a workflow is added, or the round of  *)
(* one changes.                                                            *)
LEMMA CarryOutIs ==
  ASSUME Typed, NEW w \in RequestType, CarryOut(w)
  PROVE  /\ stored' \in Seq(Workflow) /\ Len(stored') \in Nat /\ Len(stored) <= Len(stored')
         /\ \A i \in 1..Len(stored) :
              /\ stored'[i].name = stored[i].name
              /\ stored'[i].made = stored[i].made
              /\ stored'[i].born = stored[i].born
              /\ stored'[i].round \in {stored[i].round, w.round}
         /\ w.id # 0 => /\ Len(stored') = Len(stored) /\ w.id \in 1..Len(stored)
                        /\ stored'[w.id].round = w.round
         /\ w.id = 0 =>
              /\ Len(stored') = Len(stored) + 1
              /\ stored'[Len(stored) + 1] =
                   [name |-> w.name, made |-> w.mode, born |-> w.round, round |-> w.round]
<1>1. /\ stored \in Seq(Workflow) /\ Len(stored) \in Nat
      /\ stored \in [1..Len(stored) -> Workflow]
  <2>1. stored \in Seq(Workflow)
    BY DEF Typed, TypeOK
  <2>2. QED BY <2>1
<1>2. w.name \in Names /\ w.id \in 0..Len(stored) /\ w.mode \in Modes /\ w.round \in 1..round
  BY DEF RequestType
<1>3. CASE w.id = 0
  <2> DEFINE new == [name |-> w.name, made |-> w.mode, born |-> w.round, round |-> w.round]
  <2>1. new \in Workflow
    BY <1>2 DEF Workflow
  <2>2. stored' = Append(stored, new)
    BY <1>3 DEF CarryOut
  <2> HIDE DEF new
  <2>3. /\ stored' \in Seq(Workflow) /\ Len(stored') = Len(stored) + 1
        /\ \A i \in 1..Len(stored) : stored'[i] = stored[i]
        /\ stored'[Len(stored) + 1] = new
    BY <1>1, <2>1, <2>2, AppendProperties
  <2>4. QED BY <1>1, <1>3, <2>3 DEF new
<1>4. CASE w.id # 0
  <2>1. w.id \in 1..Len(stored) /\ stored' = [stored EXCEPT ![w.id].round = w.round]
    BY <1>1, <1>2, <1>4 DEF CarryOut
  <2>2. \A i \in 1..Len(stored) :
          /\ stored'[i] \in Workflow
          /\ stored'[i].name = stored[i].name
          /\ stored'[i].made = stored[i].made
          /\ stored'[i].born = stored[i].born
          /\ stored'[i].round = IF i = w.id THEN w.round ELSE stored[i].round
    <3>1. stored[w.id] \in Workflow /\ stored'[w.id] = [stored[w.id] EXCEPT !.round = w.round]
      BY <1>1, <2>1
    <3>2. /\ stored'[w.id] \in Workflow
          /\ stored'[w.id].name = stored[w.id].name /\ stored'[w.id].made = stored[w.id].made
          /\ stored'[w.id].born = stored[w.id].born
          /\ stored'[w.id].round = w.round
      BY <1>2, <3>1 DEF Workflow
    <3>3. \A i \in 1..Len(stored) : i # w.id => stored'[i] = stored[i] /\ stored'[i] \in Workflow
      BY <1>1, <2>1
    <3>4. QED BY <3>2, <3>3
  <2>3. DOMAIN stored' = 1..Len(stored) /\ stored' = [i \in 1..Len(stored) |-> stored'[i]]
    BY <1>1, <2>1
  <2>4. stored' \in Seq(Workflow) /\ Len(stored') = Len(stored)
    <3>1. stored' \in [1..Len(stored) -> Workflow]
      BY <2>2, <2>3
    <3>2. QED BY <1>1, <3>1, SeqDef
  <2>5. stored'[w.id].round = w.round
    BY <2>1, <2>2
  <2>6. \A i \in 1..Len(stored) : stored'[i].round \in {stored[i].round, w.round}
    BY <2>2
  <2>7. Len(stored') \in Nat /\ Len(stored) <= Len(stored')
    BY <1>1, <2>4
  <2>8. \A i \in 1..Len(stored) :
          /\ stored'[i].name = stored[i].name
          /\ stored'[i].made = stored[i].made
          /\ stored'[i].born = stored[i].born
    BY <2>2
  <2>9. QED BY <1>4, <2>1, <2>4, <2>5, <2>6, <2>7, <2>8
<1>5. QED BY <1>3, <1>4

(* Names stay: what fits the instance still does.                          *)
LEMMA FitsStays ==
  ASSUME NEW f, f \in [DOMAIN f -> 1..Len(stored)], Fits(f),
         \A i \in 1..Len(stored) : stored'[i].name = stored[i].name
  PROVE  \A s \in DOMAIN f : stored'[f[s]].name = s
BY DEF Fits

(* Nor does a workflow get a duplicate that no lost POST explains.         *)
LEMMA OnceStays ==
  ASSUME Typed, Once, NEW w \in RequestType, CarryOut(w), lost' = lost,
         \/ w \in lost
         \/ w.id = 0 /\ w.mode = "upsert" =>
              \A i \in 1..Len(stored) : stored[i].name = w.name =>
                Posted(w.name, {stored[i].born})
  PROVE  \A i, j \in 1..Len(stored') :
           i < j /\ stored'[i].name = stored'[j].name /\ stored'[j].made = "upsert" =>
             \E v \in lost : v.id = 0 /\ v.name = stored'[i].name
                             /\ v.round \in {stored'[i].born, stored'[j].born}
<1> SUFFICES ASSUME NEW i \in 1..Len(stored'), NEW j \in 1..Len(stored'), i < j,
                    stored'[i].name = stored'[j].name, stored'[j].made = "upsert"
             PROVE  \E v \in lost : v.id = 0 /\ v.name = stored'[i].name
                                    /\ v.round \in {stored'[i].born, stored'[j].born}
  OBVIOUS
<1>1. Len(stored) \in Nat
  BY DEF Typed, TypeOK
<1>2. /\ Len(stored') \in Nat
      /\ \A k \in 1..Len(stored) :
           /\ stored'[k].name = stored[k].name
           /\ stored'[k].made = stored[k].made
           /\ stored'[k].born = stored[k].born
      /\ w.id # 0 => Len(stored') = Len(stored)
      /\ w.id = 0 =>
           /\ Len(stored') = Len(stored) + 1
           /\ stored'[Len(stored) + 1] =
                [name |-> w.name, made |-> w.mode, born |-> w.round, round |-> w.round]
  BY CarryOutIs
<1>3. CASE j \in 1..Len(stored)
  <2>1. i \in 1..Len(stored)
    BY <1>1, <1>2, <1>3
  <2>2. Posted(stored[i].name, {stored[i].born, stored[j].born})
    BY <1>2, <1>3, <2>1 DEF Once
  <2>3. QED BY <1>2, <1>3, <2>1, <2>2 DEF Posted
<1>4. CASE j \notin 1..Len(stored)
  <2>1. w.id = 0 /\ j = Len(stored) + 1 /\ i \in 1..Len(stored)
    BY <1>1, <1>2, <1>4
  <2>2. stored'[j].name = w.name /\ stored'[j].made = w.mode /\ stored'[j].born = w.round
    BY <1>2, <2>1
  <2>3. CASE w \in lost
    BY <2>1, <2>2, <2>3
  <2>4. CASE Posted(w.name, {stored[i].born})
    BY <1>2, <2>1, <2>2, <2>4 DEF Posted
  <2>5. QED BY <1>2, <2>1, <2>2, <2>3, <2>4
<1>5. QED BY <1>3, <1>4

-----------------------------------------------------------------------------
(* A command ends; what it leaves in the files is typed.                   *)
LEMMA ExitIs ==
  ASSUME IInv, NEW command \in Commands, NEW r \in Nat, NEW code \in Codes,
         Exit(command, r, code), r <= round', round' \in {round, round + 1},
         stored' = stored, ids' \in {ids, Torn, found},
         late' \subseteq lost', lost' \subseteq lost \union RequestType, lost \subseteq lost',
         DOMAIN results' \subseteq Names, results' \in [DOMAIN results' -> ResultType],
         \A s \in DOMAIN results' : stored[results'[s].id].name = s
  PROVE  /\ Typed' /\ Rounds' /\ Named' /\ Once'
         /\ phase' = "idle"
         /\ last'[command] = [round |-> r, code |-> code]
         /\ \A c \in Commands \ {command} : last'[c] = last[c]
<1>1. /\ phase' = "idle" /\ todo' = <<>> /\ target' = 0 /\ found' = <<>> /\ failures' = 0
      /\ Note(command, r, code)
  BY DEF Exit
<1>2. Typed /\ round \in Nat /\ Len(Scenarios) \in Nat
  BY NamesAreFew DEF IInv, Typed
<1>3. /\ last' \in [Commands -> [round : Nat, code : Codes]]
      /\ last'[command] = [round |-> r, code |-> code]
      /\ \A c \in Commands \ {command} : last'[c] = last[c]
  BY <1>1, <1>2, LastIs
<1>4. Typed'
  <2>1. Len(stored') \in Nat /\ Len(stored) <= Len(stored')
    BY <1>2 DEF Typed, TypeOK
  <2>2. /\ stored \in Seq(Workflow')
        /\ RequestType \subseteq RequestType' /\ ResultType \subseteq ResultType'
        /\ lost \subseteq RequestType'
        /\ ids \in {Absent, Torn} \/ (DOMAIN ids \subseteq Names /\ ids \in [DOMAIN ids -> 1..Len(stored')])
        /\ found \in [DOMAIN found -> 1..Len(stored')]
    BY <1>2, <2>1, RangesGrow
  <2>3. ids' \in {Absent, Torn} \/ (DOMAIN ids' \subseteq Names /\ ids' \in [DOMAIN ids' -> 1..Len(stored')])
    BY <1>2, <2>2 DEF Typed
  <2>4. results' \in [DOMAIN results' -> ResultType'] /\ lost' \subseteq RequestType'
    BY <2>2
  <2>5. TypeOK'
    BY <1>1, <1>2, <2>1, <2>2, <2>3, <2>4 DEF TypeOK
  <2>6. /\ todo' \in Seq(Names) /\ Len(todo') = 0
        /\ DOMAIN found' = {} /\ found' \in [DOMAIN found' -> 1..Len(stored')]
    BY <1>1
  <2>7. QED BY <1>1, <1>2, <1>3, <2>5, <2>6 DEF Typed, Deploying
<1>5. Rounds'
  <2>1. \A c \in Commands : last[c].round <= round /\ last[c].round \in Nat
    BY <1>2 DEF IInv, Rounds, Typed
  <2>2. \A c \in Commands : last'[c].round <= round'
    BY <1>2, <1>3, <2>1
  <2>3. QED BY <1>1, <2>2 DEF Rounds, Deploying
<1>6. Named'
  <2>1. /\ ids \notin {Absent, Torn} => \A s \in DOMAIN ids : stored[ids[s]].name = s
        /\ \A s \in DOMAIN found : stored[found[s]].name = s
    BY DEF IInv, Named, Fits
  <2>2. ids' \notin {Absent, Torn} => \A s \in DOMAIN ids' : stored[ids'[s]].name = s
    BY <2>1
  <2>3. ids' \notin {Absent, Torn} => \A s \in DOMAIN ids' : stored'[ids'[s]].name = s
    BY <2>2
  <2>4. \A s \in DOMAIN found' : stored'[found'[s]].name = s
    BY <1>1
  <2>5. \A s \in DOMAIN results' : stored'[results'[s].id].name = s
    OBVIOUS
  <2>6. QED BY <1>1, <2>3, <2>4, <2>5 DEF Named, Fits
<1>7. Once'
  BY <1>1 DEF IInv, Once, Posted
<1>8. QED BY <1>1, <1>3, <1>4, <1>5, <1>6, <1>7

(* The rest of the invariant where neither instance nor files change: a    *)
(* refusal, a crash, an assertion.                                         *)
LEMMA QuietExit ==
  ASSUME IInv, NEW command \in Commands, NEW code \in Codes,
         round' \in {round, round + 1}, Exit(command, round', code),
         UNCHANGED <<stored, late, ids, results, lost>>,
         command # "assert" => code # "0",
         command = "assert" /\ code = "0" => Verdict
  PROVE  IInv'
<1>1. /\ DOMAIN results' \subseteq Names /\ results' \in [DOMAIN results' -> ResultType]
      /\ \A s \in DOMAIN results' : stored[results'[s].id].name = s
      /\ late' \subseteq lost' /\ lost' \subseteq lost \union RequestType /\ lost \subseteq lost'
  BY DEF IInv, Typed, TypeOK, Named
<1>2. round \in Nat /\ round' \in Nat /\ round <= round'
  BY DEF IInv, Typed
<1>3. /\ Typed' /\ Rounds' /\ Named' /\ Once'
      /\ phase' = "idle"
      /\ last'[command] = [round |-> round', code |-> code]
      /\ \A c \in Commands \ {command} : last'[c] = last[c]
  BY <1>1, <1>2, ExitIs
<1>4. Told'
  BY <1>3 DEF IInv, Told, Deploying, Commands
<1>5. Kept'
  BY <1>3 DEF IInv, Kept
<1>6. Asserted'
  <2>1. Verdict' <=> Verdict
    BY DEF Verdict
  <2>2. CASE command = "assert"
    BY <1>3, <2>1, <2>2 DEF Asserted
  <2>3. CASE command = "deploy"
    BY <1>3, <2>1, <2>3 DEF IInv, Asserted, Commands
  <2>4. CASE command = "execute"
    <3>1. last'["execute"].round = round' /\ last'["assert"] = last["assert"]
      BY <1>3, <2>4 DEF Commands
    <3>2. last["assert"].round <= round /\ last["assert"].round \in Nat
      BY DEF IInv, Rounds, Typed, Commands
    <3>3. QED BY <1>2, <3>1, <3>2 DEF Asserted
  <2>5. QED BY <2>2, <2>3, <2>4 DEF Commands
<1>7. Fresh' /\ Ran'
  BY <1>3 DEF IInv, Fresh, Ran, Versions, Commands
<1>8. QED BY <1>3, <1>4, <1>5, <1>6, <1>7 DEF IInv

-----------------------------------------------------------------------------
(* The deployment.                                                         *)

LEMMA RefuseDeployInv == ASSUME IInv, RefuseDeploy PROVE IInv'
<1>1. round' = round + 1 /\ Exit("deploy", round', "failed")
      /\ UNCHANGED <<stored, late, ids, results, lost>>
  BY DEF RefuseDeploy, Begin, instance, files
<1>2. QED BY <1>1, QuietExit DEF Commands, Codes

LEMMA AbortInv == ASSUME IInv, Abort PROVE IInv'
<1>1. round' = round /\ Exit("deploy", round', "failed")
      /\ UNCHANGED <<stored, late, ids, results, lost>>
  BY DEF Abort, instance, files
<1>2. QED BY <1>1, QuietExit DEF Commands, Codes

LEMMA StartDeployInv == ASSUME IInv, StartDeploy PROVE IInv'
<1>1. /\ phase = "idle" /\ phase' = "tunnel" /\ mode' \in Modes /\ round' = round + 1
      /\ Note("deploy", round + 1, "running")
      /\ UNCHANGED <<stored, late, ids, results, todo, target, found, failures, lost>>
  BY DEF StartDeploy, Begin, instance, files, progress
<1>2. Typed /\ round \in Nat /\ round + 1 \in Nat
  BY DEF IInv, Typed
<1>3. /\ last' \in [Commands -> [round : Nat, code : Codes]]
      /\ last'["deploy"] = [round |-> round', code |-> "running"]
      /\ \A c \in Commands \ {"deploy"} : last'[c] = last[c]
  <2>1. "deploy" \in Commands /\ "running" \in Codes
    BY DEF Commands, Codes
  <2>2. QED BY <1>1, <1>2, <2>1, LastIs
<1>4. \A c \in Commands : last[c].round \in Nat /\ last[c].round <= round
  BY DEF IInv, Rounds, Typed
<1>5. Typed'
  <2>1. Len(stored') \in Nat /\ Len(stored) <= Len(stored')
    BY <1>1, <1>2 DEF Typed, TypeOK
  <2>2. /\ stored \in Seq(Workflow')
        /\ lost \subseteq RequestType'
        /\ ids \in {Absent, Torn} \/ (DOMAIN ids \subseteq Names /\ ids \in [DOMAIN ids -> 1..Len(stored')])
        /\ results \in [DOMAIN results -> ResultType']
        /\ found \in [DOMAIN found -> 1..Len(stored')] /\ target \in 0..Len(stored')
    BY <1>1, <1>2, <2>1, RangesGrow
  <2>3. TypeOK'
    BY <1>1, <1>2, <2>2 DEF Typed, TypeOK
  <2>4. QED BY <1>1, <1>2, <1>3, <2>2, <2>3 DEF Typed, Deploying
<1>6. Rounds'
  <2>1. \A c \in Commands : last'[c].round <= round'
    BY <1>1, <1>2, <1>3, <1>4
  <2>2. \A c \in Commands \ {"deploy"} : last'[c].round < round'
    BY <1>1, <1>2, <1>3, <1>4
  <2>3. QED BY <1>1, <1>3, <2>1, <2>2 DEF Rounds, Runs, Deploying
<1>7. Named'
  BY <1>1 DEF IInv, Named, Fits
<1>8. Told'
  <2>1. \A w \in lost : w.round <= round
    BY <1>2 DEF Typed, TypeOK, RequestType
  <2>2. QED BY <1>1, <1>2, <1>3, <2>1 DEF Told
<1>9. Once' /\ Kept'
  BY <1>1 DEF IInv, Once, Posted, Kept
<1>10. Asserted'
  BY <1>1, <1>3 DEF IInv, Asserted, Verdict, Commands
<1>11. Fresh' /\ Ran'
  BY <1>1, <1>3 DEF Fresh, Ran
<1>12. QED BY <1>5, <1>6, <1>7, <1>8, <1>9, <1>10, <1>11 DEF IInv

(* What the steps of the loop leave alone.                                 *)
LEMMA LoopStep ==
  ASSUME IInv, Deploying, phase' \in {"deploying", "writing"}, mode' = mode,
         UNCHANGED <<ids, results, round, last>>
  PROVE  /\ Rounds' /\ Kept' /\ Asserted' /\ Ran'
         /\ last["deploy"] = [round |-> round, code |-> "running"]
         /\ mode \in Modes /\ round \in Nat /\ round >= 1
<1>1. last["deploy"] = [round |-> round, code |-> "running"] /\ mode \in Modes /\ round \in Nat
      /\ \A c \in Commands \ {"deploy"} : last[c].round < round
  BY DEF IInv, Rounds, Runs, Typed
<1>2. last["execute"].round \in Nat /\ last["execute"].round < round
  BY <1>1 DEF IInv, Typed, Commands
<1>3. Rounds'
  BY DEF IInv, Rounds, Runs, Deploying
<1>4. Kept' /\ Asserted'
  BY DEF IInv, Kept, Asserted, Verdict
<1>5. Ran'
  BY <1>1 DEF Ran
<1>6. QED BY <1>1, <1>2, <1>3, <1>4, <1>5

LEMMA ConnectInv == ASSUME IInv, Connect PROVE IInv'
<1>1. /\ phase = "tunnel" /\ phase' = "deploying" /\ todo' = Scenarios
      /\ UNCHANGED <<stored, late, ids, results, mode, target, found, failures, round, last, lost>>
  BY DEF Connect, instance, files, history
<1>2. /\ Rounds' /\ Kept' /\ Asserted' /\ Ran'
      /\ last["deploy"] = [round |-> round, code |-> "running"]
  <2>1. Deploying
    BY <1>1 DEF Deploying
  <2>2. QED BY <1>1, <2>1, LoopStep
<1>3. failures = 0 /\ DOMAIN found = {}
  BY <1>1 DEF IInv, Typed
<1>4. Typed'
  <2>1. TypeOK'
    BY <1>1 DEF IInv, Typed, TypeOK, Workflow, RequestType, ResultType
  <2>2. Scenarios \in Seq(Names) /\ Len(Scenarios) \in Nat
    BY NamesAreFew
  <2>3. QED BY <1>1, <1>3, <2>1, <2>2 DEF IInv, Typed, Deploying
<1>5. Named' /\ Told' /\ Once'
  BY <1>1 DEF IInv, Named, Fits, Told, Deploying, Once, Posted
<1>6. Fresh'
  <2>1. \A s \in Names : s \in Range(Scenarios)
    BY DEF Names
  <2>2. QED BY <1>1, <1>2, <1>3, <2>1 DEF Fresh
<1>7. QED BY <1>2, <1>4, <1>5, <1>6 DEF IInv

LEMMA LookUpInv == ASSUME IInv, LookUp PROVE IInv'
<1>1. /\ phase = "deploying" /\ phase' = "writing" /\ todo # <<>>
      /\ UNCHANGED <<stored, late, ids, results, mode, todo, found, failures, round, last, lost>>
  BY DEF LookUp, instance, files, history
<1>2. /\ target' = 0 \/ target' \in Matching(Head(todo))
      /\ mode = "upsert" /\ target' = 0 => Matching(Head(todo)) = {}
  <2>1. 0 \notin Matching(Head(todo))
    BY DEF IInv, Typed, TypeOK, Matching
  <2>2. QED BY <2>1 DEF LookUp
<1>3. /\ Rounds' /\ Kept' /\ Asserted' /\ Ran'
      /\ last["deploy"] = [round |-> round, code |-> "running"]
  <2>1. Deploying
    BY <1>1 DEF Deploying
  <2>2. QED BY <1>1, <2>1, LoopStep
<1>4. Typed'
  <2>1. target' \in 0..Len(stored)
    BY <1>2 DEF IInv, Typed, TypeOK, Matching
  <2>2. TypeOK'
    BY <1>1, <2>1 DEF IInv, Typed, TypeOK, Workflow, RequestType, ResultType
  <2>3. QED BY <1>1, <2>2 DEF IInv, Typed, Deploying
<1>5. Named'
  BY <1>1, <1>2 DEF IInv, Named, Fits, Matching
<1>6. Told'
  BY <1>1 DEF IInv, Told, Deploying
<1>7. Once'
  BY <1>1, <1>2 DEF IInv, Once, Posted, Matching
<1>8. Fresh'
  BY <1>1, <1>3 DEF IInv, Fresh, Versions
<1>9. QED BY <1>3, <1>4, <1>5, <1>6, <1>7, <1>8 DEF IInv

LEMMA RequestIs ==
  ASSUME IInv, phase = "writing"
  PROVE  Request \in RequestType /\ Head(todo) \in Names
<1>1. todo # <<>> /\ todo \in Seq(Names) /\ target \in 0..Len(stored)
  BY DEF IInv, Typed, TypeOK
<1>2. Head(todo) \in Names
  BY <1>1, TailIs
<1>3. mode \in Modes /\ round \in 1..round
  <2>1. mode \in Modes /\ round \in Nat /\ last["execute"].round \in Nat
        /\ last["execute"].round < round
    BY DEF IInv, Typed, Rounds, Runs, Deploying, Commands
  <2>2. QED BY <2>1
<1>4. QED BY <1>1, <1>2, <1>3 DEF Request, RequestType

LEMMA WriteInv == ASSUME IInv, Write PROVE IInv'
<1> DEFINE s == Head(todo)
           id == IF target = 0 THEN Len(stored) + 1 ELSE target
<1>1. /\ phase = "writing" /\ phase' = "deploying" /\ todo' = Tail(todo) /\ target' = 0
      /\ CarryOut(Request) /\ found' = With(found, s, id)
      /\ UNCHANGED <<late, ids, results, mode, failures, round, last, lost>>
  BY DEF Write, Advance, files, history
<1>2. Typed /\ Deploying /\ Len(stored) \in Nat /\ todo # <<>> /\ todo \in Seq(Names)
      /\ target \in 0..Len(stored)
  BY <1>1 DEF IInv, Typed, TypeOK, Deploying
<1>3. Request \in RequestType /\ s \in Names
  BY <1>1, RequestIs
<1>4. Request.name = s /\ Request.id = target /\ Request.mode = mode /\ Request.round = round
  BY DEF Request
<1>5. /\ s \in Range(todo) /\ Tail(todo) \in Seq(Names) /\ Len(Tail(todo)) = Len(todo) - 1
      /\ Range(todo) \subseteq {s} \union Range(Tail(todo))
  BY <1>2, TailIs
<1>6. /\ stored' \in Seq(Workflow) /\ Len(stored') \in Nat /\ Len(stored) <= Len(stored')
      /\ \A i \in 1..Len(stored) :
           /\ stored'[i].name = stored[i].name
           /\ stored'[i].made = stored[i].made
           /\ stored'[i].born = stored[i].born
           /\ stored'[i].round \in {stored[i].round, round}
      /\ target # 0 => /\ Len(stored') = Len(stored) /\ target \in 1..Len(stored)
                       /\ stored'[target].round = round
      /\ target = 0 =>
           /\ Len(stored') = Len(stored) + 1
           /\ stored'[Len(stored) + 1] = [name |-> s, made |-> mode, born |-> round, round |-> round]
  <2>1. /\ stored' \in Seq(Workflow) /\ Len(stored') \in Nat /\ Len(stored) <= Len(stored')
        /\ \A i \in 1..Len(stored) :
             /\ stored'[i].name = stored[i].name
             /\ stored'[i].made = stored[i].made
             /\ stored'[i].born = stored[i].born
             /\ stored'[i].round \in {stored[i].round, Request.round}
        /\ Request.id # 0 => /\ Len(stored') = Len(stored) /\ Request.id \in 1..Len(stored)
                             /\ stored'[Request.id].round = Request.round
        /\ Request.id = 0 =>
             /\ Len(stored') = Len(stored) + 1
             /\ stored'[Len(stored) + 1] =
                  [name |-> Request.name, made |-> Request.mode,
                   born |-> Request.round, round |-> Request.round]
    BY <1>1, <1>2, <1>3, CarryOutIs
  <2>2. QED BY <1>4, <2>1
<1>7. id \in 1..Len(stored') /\ stored'[id].name = s /\ stored'[id].round = round
  <2>1. CASE target = 0
    BY <1>6, <2>1
  <2>2. CASE target # 0
    <3>1. stored[target].name = s
      BY <1>1, <2>2 DEF IInv, Named
    <3>2. QED BY <1>6, <2>2, <3>1
  <2>3. QED BY <2>1, <2>2
<1> HIDE DEF s, id
<1>8. /\ DOMAIN found' = DOMAIN found \union {s} /\ found'[s] = id
      /\ \A t \in DOMAIN found : t # s => found'[t] = found[t]
  <2>1. /\ DOMAIN With(found, s, id) = DOMAIN found \union {s}
        /\ With(found, s, id)[s] = id
        /\ \A t \in DOMAIN found : t # s => With(found, s, id)[t] = found[t]
    BY DEF With
  <2>2. QED BY <1>1, <2>1
<1>9. /\ found \in [DOMAIN found -> 1..Len(stored)] /\ DOMAIN found \subseteq Names
      /\ \A t \in DOMAIN found : found[t] \in 1..Len(stored)
  BY DEF IInv, Typed
<1>10. /\ Rounds' /\ Kept' /\ Asserted' /\ Ran'
       /\ last["deploy"] = [round |-> round, code |-> "running"]
       /\ mode \in Modes /\ round \in Nat /\ round >= 1
  BY <1>1, <1>2, LoopStep
<1>11. Typed'
  <2>1. /\ Workflow \subseteq Workflow'
        /\ lost \subseteq RequestType'
        /\ ids \in {Absent, Torn} \/ (DOMAIN ids \subseteq Names /\ ids \in [DOMAIN ids -> 1..Len(stored')])
        /\ results \in [DOMAIN results -> ResultType']
        /\ found \in [DOMAIN found -> 1..Len(stored')]
    BY <1>1, <1>2, <1>6, RangesGrow
  <2>2. stored' \in Seq(Workflow')
    BY <1>1, <1>6 DEF Workflow
  <2>3. TypeOK'
    BY <1>1, <1>2, <1>6, <2>1, <2>2 DEF Typed, TypeOK
  <2>4. found' \in [DOMAIN found' -> 1..Len(stored')]
    BY <1>1, <1>7, <2>1, WithType
  <2>5. DOMAIN found' \subseteq Names
    BY <1>3, <1>8, <1>9
  <2>6. todo' \in Seq(Names) /\ Len(todo') = Len(todo) - 1 /\ Len(todo) \in Nat
    BY <1>1, <1>2, <1>5
  <2>7. failures' + Len(todo') <= Len(Scenarios)
    BY <1>1, <1>2, <2>6, NamesAreFew DEF Typed, TypeOK
  <2>8. QED BY <1>1, <1>2, <1>10, <2>3, <2>4, <2>5, <2>6, <2>7 DEF Typed
<1>12. Named'
  <2>1. ids \notin {Absent, Torn} => \A t \in DOMAIN ids : stored'[ids[t]].name = t
    <3>1. ids \notin {Absent, Torn} => ids \in [DOMAIN ids -> 1..Len(stored)] /\ Fits(ids)
      BY DEF IInv, Typed, TypeOK, Named
    <3>2. QED BY <1>6, <3>1, FitsStays
  <2>2. \A t \in DOMAIN found : stored'[found[t]].name = t
    <3>1. Fits(found)
      BY DEF IInv, Named
    <3>2. QED BY <1>6, <1>9, <3>1, FitsStays
  <2>3. \A t \in DOMAIN found' : stored'[found'[t]].name = t
    BY <1>7, <1>8, <2>2
  <2>4. \A t \in DOMAIN results : stored'[results[t].id].name = t
    <3>1. \A t \in DOMAIN results : results[t].id \in 1..Len(stored) /\ stored[results[t].id].name = t
      BY DEF IInv, Typed, TypeOK, ResultType, Named
    <3>2. QED BY <1>6, <3>1
  <2>5. QED BY <1>1, <2>1, <2>3, <2>4 DEF Named, Fits
<1>13. Told'
  BY <1>1 DEF IInv, Told, Deploying
<1>14. Once'
  <2>1. Request.id = 0 /\ Request.mode = "upsert" =>
          \A i \in 1..Len(stored) : stored[i].name = Request.name =>
            Posted(Request.name, {stored[i].born})
    BY <1>1, <1>4 DEF IInv, Once, s
  <2>2. \A i, j \in 1..Len(stored') :
          i < j /\ stored'[i].name = stored'[j].name /\ stored'[j].made = "upsert" =>
            \E v \in lost : v.id = 0 /\ v.name = stored'[i].name
                            /\ v.round \in {stored'[i].born, stored'[j].born}
    <3>1. Typed /\ Once /\ lost' = lost
      BY <1>1 DEF IInv
    <3>2. QED BY <1>1, <1>3, <2>1, <3>1, OnceStays
  <2>3. QED BY <1>1, <2>2 DEF Once, Posted
<1>15. Fresh'
  <2>1. \A t \in DOMAIN found : stored[found[t]].round \in Versions(round)
    BY <1>1 DEF IInv, Fresh
  <2>2. \A t \in DOMAIN found : stored'[found[t]].round \in Versions(round)
    BY <1>6, <1>9, <2>1 DEF Versions
  <2>3. \A t \in DOMAIN found' : stored'[found'[t]].round \in Versions(round)
    BY <1>7, <1>8, <2>2 DEF Versions
  <2>4. failures' = 0 => Names \subseteq DOMAIN found' \union Range(todo')
    BY <1>1, <1>5, <1>8 DEF IInv, Fresh
  <2>5. QED BY <1>1, <1>10, <2>3, <2>4 DEF Fresh, Versions
<1>16. QED BY <1>10, <1>11, <1>12, <1>13, <1>14, <1>15 DEF IInv

(* Who gives up may leave a write behind.                                  *)
LEMMA GiveUpIs ==
  ASSUME IInv, GiveUp
  PROVE  /\ late' \subseteq lost' /\ lost \subseteq lost' /\ lost' \subseteq lost \union RequestType
         /\ lost' \subseteq RequestType
         /\ \A w \in lost' \ lost : w.round = round
<1>1. late \subseteq lost /\ lost \subseteq RequestType
  BY DEF IInv, Typed, TypeOK
<1>2. CASE UNCHANGED <<late, lost>>
  BY <1>1, <1>2
<1>3. CASE phase = "writing" /\ late' = late \union {Request} /\ lost' = lost \union {Request}
  <2>1. Request \in RequestType /\ Request.round = round
    BY <1>3, RequestIs DEF Request
  <2>2. QED BY <1>1, <1>3, <2>1
<1>4. QED BY <1>2, <1>3 DEF GiveUp

LEMMA DeployFailsInv == ASSUME IInv, DeployFails PROVE IInv'
<1>1. /\ phase \in {"deploying", "writing"} /\ phase' = "deploying" /\ todo # <<>>
      /\ todo' = Tail(todo) /\ target' = 0 /\ failures' = failures + 1
      /\ UNCHANGED <<stored, ids, results, mode, found, round, last>>
  BY DEF DeployFails, Advance, files
<1>2. /\ late' \subseteq lost' /\ lost \subseteq lost' /\ lost' \subseteq RequestType
  BY GiveUpIs DEF DeployFails
<1>3. /\ Rounds' /\ Kept' /\ Asserted' /\ Ran'
      /\ last["deploy"] = [round |-> round, code |-> "running"]
  <2>1. Deploying
    BY <1>1 DEF Deploying
  <2>2. QED BY <1>1, <2>1, LoopStep
<1>4. failures' \in Nat /\ failures' > 0
  BY <1>1 DEF IInv, Typed, TypeOK
<1>5. Typed'
  <2>1. todo \in Seq(Names)
    BY DEF IInv, Typed
  <2>2. Tail(todo) \in Seq(Names) /\ Len(Tail(todo)) = Len(todo) - 1 /\ Len(todo) \in Nat
    BY <1>1, <2>1, TailIs
  <2>3. failures' + Len(todo') <= Len(Scenarios) /\ failures' \in 0..Len(Scenarios)
    BY <1>1, <1>4, <2>2, NamesAreFew DEF IInv, Typed, TypeOK
  <2>4. /\ Workflow' = Workflow /\ RequestType' = RequestType /\ ResultType' = ResultType
    BY <1>1 DEF Workflow, RequestType, ResultType
  <2>5. TypeOK'
    BY <1>1, <1>2, <2>3, <2>4 DEF IInv, Typed, TypeOK
  <2>6. QED BY <1>1, <2>2, <2>3, <2>5 DEF IInv, Typed, Deploying
<1>6. Named'
  BY <1>1 DEF IInv, Named, Fits
<1>7. Told'
  BY <1>1, <1>3, <1>4 DEF Told
<1>8. Once'
  BY <1>1, <1>2 DEF IInv, Once, Posted
<1>9. Fresh'
  <2>1. \A t \in DOMAIN found : stored[found[t]].round \in Versions(round)
    BY <1>1 DEF IInv, Fresh
  <2>2. \A t \in DOMAIN found' : stored'[found'[t]].round \in Versions(round)'
    BY <1>1, <1>2, <2>1 DEF Versions
  <2>3. QED BY <1>1, <1>3, <1>4, <2>2 DEF Fresh, Versions
<1>10. QED BY <1>3, <1>5, <1>6, <1>7, <1>8, <1>9 DEF IInv

LEMMA FinishDeployInv == ASSUME IInv, FinishDeploy PROVE IInv'
<1>1. /\ phase = "deploying" /\ todo = <<>>
      /\ UNCHANGED <<stored, late, results, round, lost>>
  BY DEF FinishDeploy, instance
<1>2. PICK code \in {"0", "failed"} :
        /\ Exit("deploy", round, code)
        /\ ids' \in {ids, Torn, found}
        /\ code = "0" => ids' = found /\ failures = 0
  <2>1. failures \in Nat
    BY DEF IInv, Typed, TypeOK
  <2>2. QED BY <2>1 DEF FinishDeploy
<1>3. /\ round \in Nat /\ last["deploy"] = [round |-> round, code |-> "running"]
      /\ \A c \in Commands \ {"deploy"} : last[c].round < round
      /\ last["execute"].round \in Nat
  BY <1>1 DEF IInv, Typed, Rounds, Runs, Deploying, Commands
<1>4. /\ Typed' /\ Rounds' /\ Named' /\ Once'
      /\ phase' = "idle"
      /\ last'["deploy"] = [round |-> round, code |-> code]
      /\ \A c \in Commands \ {"deploy"} : last'[c] = last[c]
  <2>1. /\ DOMAIN results' \subseteq Names /\ results' \in [DOMAIN results' -> ResultType]
        /\ \A s \in DOMAIN results' : stored[results'[s].id].name = s
        /\ late' \subseteq lost' /\ lost' \subseteq lost \union RequestType /\ lost \subseteq lost'
    BY <1>1 DEF IInv, Typed, TypeOK, Named
  <2>2. "deploy" \in Commands /\ code \in Codes /\ round <= round' /\ round' \in {round, round + 1}
    BY <1>1, <1>3 DEF Commands, Codes
  <2>3. QED BY <1>1, <1>2, <1>3, <2>1, <2>2, ExitIs
<1>5. Told'
  <2>1. \A w \in lost : w.round = round => failures > 0
    BY <1>1, <1>3 DEF IInv, Told, Deploying
  <2>2. \A w \in lost : w.round = round => code # "0"
    BY <1>2, <2>1
  <2>3. QED BY <1>1, <1>4, <2>2 DEF Told, Deploying
<1>6. Kept' /\ Asserted'
  BY <1>1, <1>4 DEF IInv, Kept, Asserted, Verdict, Commands
<1>7. Fresh'
  <2>1. CASE code = "failed"
    BY <1>4, <2>1 DEF Fresh
  <2>2. CASE code = "0"
    <3>1. ids' = found /\ failures = 0
      BY <1>2, <2>2
    <3>2. Range(todo) = {}
      BY <1>1 DEF Range
    <3>3. DOMAIN found = Names /\ found \in [Names -> 1..Len(stored)]
      BY <1>1, <3>1, <3>2 DEF IInv, Typed, Fresh
    <3>4. \A s \in Names : stored[found[s]].round \in Versions(round)
      BY <1>1, <3>3 DEF IInv, Fresh
    <3>5. QED BY <1>1, <1>4, <3>1, <3>3, <3>4 DEF Fresh, Versions
  <2>3. QED BY <1>2, <2>1, <2>2
<1>8. Ran'
  <2>1. last'["deploy"].round = round /\ last'["execute"] = last["execute"]
    BY <1>4 DEF Commands
  <2>2. ~ (last'["deploy"].round < last'["execute"].round)
    BY <1>3, <2>1 DEF Commands
  <2>3. QED BY <1>4, <2>2 DEF Ran
<1>9. QED BY <1>4, <1>5, <1>6, <1>7, <1>8 DEF IInv

(* A write that nobody waits for is one that was given up: whatever the    *)
(* commands have read or written still stands.                             *)
LEMMA LateWriteInv == ASSUME IInv, LateWrite PROVE IInv'
<1>1. /\ UNCHANGED <<ids, results, phase, mode, todo, target, found, failures, round, last, lost>>
      /\ late' \subseteq late
  BY DEF LateWrite, files, progress, history
<1>2. PICK w \in late : CarryOut(w)
  BY DEF LateWrite
<1>3. Typed /\ Len(stored) \in Nat /\ w \in lost /\ w \in RequestType /\ round \in Nat
  BY DEF IInv, Typed, TypeOK
<1>4. /\ stored' \in Seq(Workflow) /\ Len(stored') \in Nat /\ Len(stored) <= Len(stored')
      /\ \A i \in 1..Len(stored) :
           /\ stored'[i].name = stored[i].name
           /\ stored'[i].made = stored[i].made
           /\ stored'[i].born = stored[i].born
           /\ stored'[i].round \in {stored[i].round, w.round}
      /\ w.id # 0 => Len(stored') = Len(stored)
      /\ w.id = 0 =>
           /\ Len(stored') = Len(stored) + 1
           /\ stored'[Len(stored) + 1] =
                [name |-> w.name, made |-> w.mode, born |-> w.round, round |-> w.round]
  BY <1>2, <1>3, CarryOutIs
<1>5. /\ found \in [DOMAIN found -> 1..Len(stored)]
      /\ ids \in {Absent, Torn} \/ ids \in [DOMAIN ids -> 1..Len(stored)]
      /\ \A t \in DOMAIN results : results[t].id \in 1..Len(stored)
      /\ target \in 0..Len(stored)
  BY DEF IInv, Typed, TypeOK, ResultType
<1>6. Typed'
  <2>1. /\ lost \subseteq RequestType'
        /\ ids \in {Absent, Torn} \/ (DOMAIN ids \subseteq Names /\ ids \in [DOMAIN ids -> 1..Len(stored')])
        /\ results \in [DOMAIN results -> ResultType']
        /\ found \in [DOMAIN found -> 1..Len(stored')]
        /\ target \in 0..Len(stored')
    BY <1>1, <1>3, <1>4, RangesGrow
  <2>2. stored' \in Seq(Workflow')
    BY <1>1, <1>4 DEF Workflow
  <2>3. TypeOK'
    BY <1>1, <1>3, <2>1, <2>2 DEF Typed, TypeOK
  <2>4. QED BY <1>1, <1>3, <2>1, <2>3 DEF Typed, Deploying
<1>7. Rounds' /\ Kept' /\ Asserted' /\ Told'
  BY <1>1 DEF IInv, Rounds, Runs, Kept, Asserted, Verdict, Told, Deploying
<1>8. Named'
  <2>1. ids \notin {Absent, Torn} => \A t \in DOMAIN ids : stored'[ids[t]].name = t
    <3>1. ids \notin {Absent, Torn} => ids \in [DOMAIN ids -> 1..Len(stored)] /\ Fits(ids)
      BY <1>5 DEF IInv, Named
    <3>2. QED BY <1>4, <3>1, FitsStays
  <2>2. \A t \in DOMAIN found : stored'[found[t]].name = t
    <3>1. Fits(found)
      BY DEF IInv, Named
    <3>2. QED BY <1>4, <1>5, <3>1, FitsStays
  <2>3. \A t \in DOMAIN results : stored'[results[t].id].name = t
    <3>1. \A t \in DOMAIN results : stored[results[t].id].name = t
      BY DEF IInv, Named
    <3>2. QED BY <1>4, <1>5, <3>1
  <2>4. phase = "writing" /\ target # 0 => stored'[target].name = Head(todo)
    <3>1. target # 0 => target \in 1..Len(stored)
      BY <1>3, <1>5
    <3>2. QED BY <1>4, <3>1 DEF IInv, Named
  <2>5. QED BY <1>1, <2>1, <2>2, <2>3, <2>4 DEF Named, Fits
<1>9. Once'
  <2>1. \A i, j \in 1..Len(stored') :
          i < j /\ stored'[i].name = stored'[j].name /\ stored'[j].made = "upsert" =>
            \E v \in lost : v.id = 0 /\ v.name = stored'[i].name
                            /\ v.round \in {stored'[i].born, stored'[j].born}
    <3>1. Typed /\ Once /\ lost' = lost
      BY <1>1 DEF IInv
    <3>2. QED BY <1>2, <1>3, <3>1, OnceStays
  <2>2. ASSUME phase = "writing", mode = "upsert", target = 0, NEW i \in 1..Len(stored'),
               stored'[i].name = Head(todo)
        PROVE  \E v \in lost : v.id = 0 /\ v.name = stored'[i].name /\ v.round \in {stored'[i].born}
    <3>1. CASE i \in 1..Len(stored)
      <4>1. Posted(stored[i].name, {stored[i].born})
        BY <1>4, <2>2, <3>1 DEF IInv, Once
      <4>2. QED BY <1>4, <3>1, <4>1 DEF Posted
    <3>2. CASE i \notin 1..Len(stored)
      <4>1. w.id = 0 /\ i = Len(stored) + 1
        BY <1>3, <1>4, <3>2
      <4>2. QED BY <1>3, <1>4, <4>1
    <3>3. QED BY <3>1, <3>2
  <2>3. QED BY <1>1, <2>1, <2>2 DEF Once, Posted
<1>10. Fresh'
  <2>1. \A r : w.round \in Versions(r)
    BY <1>3 DEF Versions
  <2>2. ASSUME last["deploy"].code = "0"
        PROVE  /\ ids \in [Names -> 1..Len(stored')]
               /\ \A s \in Names : stored'[ids[s]].round \in Versions(last["deploy"].round)
    <3>1. /\ ids \in [Names -> 1..Len(stored)]
          /\ \A s \in Names : stored[ids[s]].round \in Versions(last["deploy"].round)
      BY <2>2 DEF IInv, Fresh
    <3>2. \A s \in Names : ids[s] \in 1..Len(stored) /\ ids[s] \in 1..Len(stored')
      BY <1>3, <1>4, <3>1
    <3>3. ids \in [Names -> 1..Len(stored')]
      BY <3>1, <3>2
    <3>4. \A s \in Names : stored'[ids[s]].round \in Versions(last["deploy"].round)
      BY <1>4, <2>1, <3>1, <3>2
    <3>5. QED BY <3>3, <3>4
  <2>3. ASSUME phase \in {"deploying", "writing"}
        PROVE  \A s \in DOMAIN found : stored'[found[s]].round \in Versions(round)
    <3>1. \A s \in DOMAIN found : stored[found[s]].round \in Versions(round)
      BY <2>3 DEF IInv, Fresh
    <3>2. QED BY <1>4, <1>5, <2>1, <3>1
  <2>4. phase \in {"deploying", "writing"} /\ failures = 0 => Names \subseteq DOMAIN found \union Range(todo)
    BY DEF IInv, Fresh
  <2>5. QED BY <1>1, <2>2, <2>3, <2>4 DEF Fresh, Versions
<1>11. Ran'
  BY <1>1 DEF IInv, Ran, Versions
<1>12. QED BY <1>6, <1>7, <1>8, <1>9, <1>10, <1>11 DEF IInv

-----------------------------------------------------------------------------
(* The execution.                                                          *)

LEMMA RefuseExecuteInv == ASSUME IInv, RefuseExecute PROVE IInv'
<1>1. round' = round + 1 /\ Exit("execute", round', "failed")
      /\ UNCHANGED <<stored, late, ids, results, lost>>
  BY DEF RefuseExecute, Begin, instance, files
<1>2. QED BY <1>1, QuietExit DEF Commands, Codes

(* What outlives the removal is marked.                                    *)
LEMMA ClearIs ==
  ASSUME IInv, Clear
  PROVE  /\ DOMAIN results' \subseteq Names /\ results' \in [DOMAIN results' -> ResultType]
         /\ \A s \in DOMAIN results' : results'[s].kept /\ stored[results'[s].id].name = s
<1>1. PICK stays \in SUBSET DOMAIN results :
        results' = [s \in stays |-> [results[s] EXCEPT !.kept = TRUE]]
  BY DEF Clear
<1>2. /\ DOMAIN results \subseteq Names
      /\ \A s \in DOMAIN results : results[s] \in ResultType /\ stored[results[s].id].name = s
  BY DEF IInv, Typed, TypeOK, Named
<1>3. \A s \in stays :
        /\ [results[s] EXCEPT !.kept = TRUE] \in ResultType
        /\ [results[s] EXCEPT !.kept = TRUE].kept
        /\ [results[s] EXCEPT !.kept = TRUE].id = results[s].id
  BY <1>2 DEF ResultType
<1>4. DOMAIN results' = stays /\ \A s \in stays : results'[s] = [results[s] EXCEPT !.kept = TRUE]
  BY <1>1
<1>5. \A s \in stays : results'[s] \in ResultType
  BY <1>3, <1>4
<1>6. results' \in [DOMAIN results' -> ResultType]
  BY <1>1, <1>4, <1>5
<1>7. QED BY <1>2, <1>3, <1>4, <1>6

LEMMA StartExecuteInv == ASSUME IInv, StartExecute PROVE IInv'
<1>1. /\ phase = "idle" /\ round' = round + 1 /\ ids \notin {Absent, Torn} /\ Clear
      /\ UNCHANGED <<stored, late, ids, lost>>
  BY DEF StartExecute, Begin, instance
<1>2. /\ DOMAIN results' \subseteq Names /\ results' \in [DOMAIN results' -> ResultType]
      /\ \A s \in DOMAIN results' : results'[s].kept /\ stored[results'[s].id].name = s
  BY <1>1, ClearIs
<1>3. Typed /\ round \in Nat /\ round + 1 \in Nat
      /\ last["assert"].round \in Nat /\ last["assert"].round <= round
  BY DEF IInv, Typed, Rounds, Commands
<1>4. Kept'
  BY <1>2 DEF Kept
<1>5. CASE Exit("execute", round + 1, "failed")
  <2>1. /\ Typed' /\ Rounds' /\ Named' /\ Once'
        /\ phase' = "idle"
        /\ last'["execute"] = [round |-> round + 1, code |-> "failed"]
        /\ \A c \in Commands \ {"execute"} : last'[c] = last[c]
    <3>1. late' \subseteq lost' /\ lost' \subseteq lost \union RequestType /\ lost \subseteq lost'
      BY <1>1 DEF IInv, Typed, TypeOK
    <3>2. "execute" \in Commands /\ "failed" \in Codes
      BY DEF Commands, Codes
    <3>3. QED BY <1>1, <1>2, <1>3, <1>5, <3>1, <3>2, ExitIs
  <2>2. Told'
    BY <1>1, <2>1 DEF IInv, Told, Deploying, Commands
  <2>3. Asserted'
    BY <1>3, <2>1 DEF Asserted, Commands
  <2>4. Fresh' /\ Ran'
    BY <1>1, <2>1 DEF IInv, Fresh, Ran, Versions, Commands
  <2>5. QED BY <1>4, <2>1, <2>2, <2>3, <2>4 DEF IInv
<1>6. CASE /\ phase' = "executing" /\ todo' \in InOrder(DOMAIN ids)
           /\ Note("execute", round + 1, "running")
           /\ UNCHANGED <<mode, target, found, failures>>
  <2>1. /\ last' \in [Commands -> [round : Nat, code : Codes]]
        /\ last'["execute"] = [round |-> round', code |-> "running"]
        /\ \A c \in Commands \ {"execute"} : last'[c] = last[c]
    <3>1. "execute" \in Commands /\ "running" \in Codes
      BY DEF Commands, Codes
    <3>2. QED BY <1>1, <1>3, <1>6, <3>1, LastIs
  <2>2. DOMAIN ids \subseteq Names /\ ids \in [DOMAIN ids -> 1..Len(stored)]
    BY <1>1, <1>3 DEF Typed, TypeOK
  <2>3. todo' \in Seq(Names) /\ Range(todo') = DOMAIN ids /\ Len(todo') <= Len(Scenarios)
    <3>1. DOMAIN ids \in SUBSET Names /\ todo' \in InOrder(DOMAIN ids)
      BY <1>6, <2>2
    <3>2. QED BY <3>1, InOrderIs
  <2>4. failures = 0 /\ DOMAIN found = {}
    BY <1>1, <1>3 DEF Typed
  <2>5. Typed'
    <3>1. Len(stored') \in Nat /\ Len(stored) <= Len(stored')
      BY <1>1, <1>3 DEF Typed, TypeOK
    <3>2. /\ stored \in Seq(Workflow')
          /\ ResultType \subseteq ResultType' /\ lost \subseteq RequestType'
          /\ ids \in {Absent, Torn} \/ (DOMAIN ids \subseteq Names /\ ids \in [DOMAIN ids -> 1..Len(stored')])
          /\ found \in [DOMAIN found -> 1..Len(stored')] /\ target \in 0..Len(stored')
      BY <1>1, <1>3, <3>1, RangesGrow
    <3>3. results' \in [DOMAIN results' -> ResultType']
      BY <1>2, <3>2
    <3>4. TypeOK'
      BY <1>1, <1>2, <1>3, <1>6, <3>2, <3>3 DEF Typed, TypeOK
    <3>5. failures' + Len(todo') <= Len(Scenarios)
      BY <1>6, <2>3, <2>4, NamesAreFew
    <3>6. QED BY <1>1, <1>3, <1>6, <2>1, <2>3, <3>2, <3>4, <3>5 DEF Typed, Deploying
  <2>6. Rounds'
    <3>1. \A c \in Commands : last[c].round \in Nat /\ last[c].round <= round
      BY DEF IInv, Typed, Rounds
    <3>2. \A c \in Commands : last'[c].round <= round'
      BY <1>1, <1>3, <2>1, <3>1
    <3>3. \A c \in Commands \ {"execute"} : last'[c].round < round'
      BY <1>1, <1>3, <2>1, <3>1
    <3>4. QED BY <1>6, <2>1, <3>2, <3>3 DEF Rounds, Runs, Deploying
  <2>7. Named'
    BY <1>1, <1>2, <1>6 DEF IInv, Named, Fits
  <2>8. Told'
    BY <1>1, <1>6, <2>1 DEF IInv, Told, Deploying, Commands
  <2>9. Once'
    BY <1>1, <1>6 DEF IInv, Once, Posted
  <2>10. Asserted'
    BY <1>1, <1>3, <2>1 DEF Asserted, Commands
  <2>11. Fresh'
    BY <1>1, <1>6, <2>1 DEF IInv, Fresh, Versions, Commands
  <2>12. Ran'
    BY <1>1, <1>2, <1>6, <2>1, <2>3 DEF Ran
  <2>13. QED BY <1>4, <2>5, <2>6, <2>7, <2>8, <2>9, <2>10, <2>11, <2>12 DEF IInv
<1>7. QED BY <1>5, <1>6 DEF StartExecute

(* A result is written: it is of this execution, and of the workflow that  *)
(* ids.json names.                                                         *)
LEMMA RecordIs ==
  ASSUME IInv, phase = "executing", todo # <<>>, NEW c \in Contents, Record(c)
  PROVE  /\ DOMAIN results' = DOMAIN results \union {Head(todo)}
         /\ DOMAIN results' \subseteq Names /\ results' \in [DOMAIN results' -> ResultType]
         /\ \A s \in DOMAIN results' :
              /\ stored[results'[s].id].name = s
              /\ ~ results'[s].kept => results'[s].round = round
              /\ last["deploy"].code = "0" /\ ~ results'[s].kept =>
                   results'[s].version \in Versions(last["deploy"].round)
              /\ s # Head(todo) => results'[s] = results[s]
         /\ ~ results'[Head(todo)].kept
<1> DEFINE h == Head(todo)
           new == [id |-> ids[h], version |-> stored[ids[h]].round,
                   round |-> round, content |-> c, kept |-> FALSE]
<1>1. results' = With(results, h, new)
  BY DEF Record
<1>2. /\ DOMAIN results \subseteq Names /\ results \in [DOMAIN results -> ResultType]
      /\ ids \notin {Absent, Torn} /\ DOMAIN ids \subseteq Names
      /\ ids \in [DOMAIN ids -> 1..Len(stored)]
      /\ todo \in Seq(Names) /\ Range(todo) \subseteq DOMAIN ids
      /\ stored \in Seq(Workflow)
  BY DEF IInv, Typed, TypeOK
<1>3. h \in Range(todo)
  BY <1>2, TailIs
<1>4. h \in DOMAIN ids /\ h \in Names /\ ids[h] \in 1..Len(stored) /\ stored[ids[h]].name = h
  <2>1. h \in DOMAIN ids
    BY <1>2, <1>3
  <2>2. Fits(ids)
    BY <1>2 DEF IInv, Named
  <2>3. QED BY <1>2, <2>1, <2>2 DEF Fits
<1>5. stored[ids[h]].round \in 1..round
  <2>1. stored[ids[h]] \in Workflow
    BY <1>2, <1>4
  <2>2. QED BY <2>1 DEF Workflow
<1>6. round \in 1..round
  <2>1. round \in Nat /\ last["deploy"].round \in Nat /\ last["deploy"].round < round
    BY DEF IInv, Typed, Rounds, Runs, Deploying, Commands
  <2>2. QED BY <2>1
<1>7. /\ new \in ResultType /\ stored[new.id].name = h /\ ~ new.kept /\ new.round = round
  BY <1>4, <1>5, <1>6 DEF ResultType
<1>8. last["deploy"].code = "0" => new.version \in Versions(last["deploy"].round)
  BY <1>4 DEF IInv, Fresh
<1> HIDE DEF h, new
<1>9. /\ DOMAIN With(results, h, new) = DOMAIN results \union {h}
      /\ With(results, h, new)[h] = new
      /\ \A t \in DOMAIN results : t # h => With(results, h, new)[t] = results[t]
  BY DEF With
<1>10. With(results, h, new) \in [DOMAIN With(results, h, new) -> ResultType]
  BY <1>2, <1>7, WithType
<1>11. \A s \in DOMAIN results :
         /\ stored[results[s].id].name = s
         /\ ~ results[s].kept => results[s].round = round
         /\ last["deploy"].code = "0" /\ ~ results[s].kept =>
              results[s].version \in Versions(last["deploy"].round)
  BY DEF IInv, Named, Kept, Ran
<1>12. \A s \in DOMAIN results' :
         /\ stored[results'[s].id].name = s
         /\ ~ results'[s].kept => results'[s].round = round
         /\ last["deploy"].code = "0" /\ ~ results'[s].kept =>
              results'[s].version \in Versions(last["deploy"].round)
         /\ s # h => results'[s] = results[s]
  BY <1>1, <1>7, <1>8, <1>9, <1>11
<1>13. ~ results'[h].kept
  BY <1>1, <1>7, <1>9
<1>14. QED BY <1>1, <1>2, <1>4, <1>9, <1>10, <1>12, <1>13 DEF h

LEMMA ExecuteLoopInv ==
  ASSUME IInv, phase = "executing", todo # <<>>,
         \/ failures' = failures /\ \E c \in Contents : Record(c)
         \/ failures' = failures + 1 /\ results' = results,
         todo' = Tail(todo),
         UNCHANGED <<stored, late, ids, phase, mode, target, found, round, last, lost>>
  PROVE  IInv'
<1> DEFINE h == Head(todo)
<1>1. /\ todo \in Seq(Names) /\ Range(todo) \subseteq DOMAIN ids
      /\ failures \in Nat /\ ids \notin {Absent, Torn}
      /\ last["execute"] = [round |-> round, code |-> "running"]
      /\ last["assert"].round < round /\ last["assert"].round \in Nat /\ round \in Nat
  BY DEF IInv, Typed, TypeOK, Rounds, Runs, Commands
<1>2. /\ Tail(todo) \in Seq(Names) /\ Len(Tail(todo)) = Len(todo) - 1 /\ Len(todo) \in Nat
      /\ Range(Tail(todo)) \subseteq Range(todo)
      /\ Range(todo) \subseteq {h} \union Range(Tail(todo))
  BY <1>1, TailIs
<1>3. /\ DOMAIN results' \subseteq Names /\ results' \in [DOMAIN results' -> ResultType]
      /\ \A s \in DOMAIN results' :
           /\ stored[results'[s].id].name = s
           /\ ~ results'[s].kept => results'[s].round = round
           /\ last["deploy"].code = "0" /\ ~ results'[s].kept =>
                results'[s].version \in Versions(last["deploy"].round)
      /\ \A s \in DOMAIN results : s # h => s \in DOMAIN results' /\ results'[s] = results[s]
      /\ failures' = failures => h \in DOMAIN results' /\ ~ results'[h].kept
  <2>1. CASE \E c \in Contents : Record(c)
    <3>1. PICK c \in Contents : Record(c)
      BY <2>1
    <3>2. /\ DOMAIN results' = DOMAIN results \union {h}
          /\ DOMAIN results' \subseteq Names /\ results' \in [DOMAIN results' -> ResultType]
          /\ \A s \in DOMAIN results' :
               /\ stored[results'[s].id].name = s
               /\ ~ results'[s].kept => results'[s].round = round
               /\ last["deploy"].code = "0" /\ ~ results'[s].kept =>
                    results'[s].version \in Versions(last["deploy"].round)
               /\ s # h => results'[s] = results[s]
          /\ ~ results'[h].kept
      BY <3>1, RecordIs
    <3>3. QED BY <3>2
  <2>2. CASE failures' = failures + 1 /\ results' = results
    <3>1. failures' # failures
      BY <1>1, <2>2
    <3>2. QED BY <2>2, <3>1 DEF IInv, Typed, TypeOK, Named, Kept, Ran
  <2>3. QED BY <2>1, <2>2
<1> HIDE DEF h
<1>4. failures' \in {failures, failures + 1}
  OBVIOUS
<1>5. Typed'
  <2>1. failures' + Len(todo') <= Len(Scenarios) /\ failures' \in 0..Len(Scenarios)
    BY <1>1, <1>2, <1>4, NamesAreFew DEF IInv, Typed, TypeOK
  <2>2. /\ Workflow' = Workflow /\ RequestType' = RequestType /\ ResultType' = ResultType
    BY DEF Workflow, RequestType, ResultType
  <2>3. TypeOK'
    BY <1>3, <2>1, <2>2 DEF IInv, Typed, TypeOK
  <2>4. QED BY <1>1, <1>2, <2>1, <2>3 DEF IInv, Typed, Deploying
<1>6. Rounds' /\ Told' /\ Once' /\ Fresh'
  BY DEF IInv, Rounds, Runs, Told, Deploying, Once, Posted, Fresh, Versions
<1>7. Named'
  BY <1>3 DEF IInv, Named, Fits
<1>8. Kept'
  BY <1>3 DEF Kept
<1>9. Asserted'
  BY <1>1 DEF Asserted
<1>10. Ran'
  <2>1. failures' = 0 => \A s \in DOMAIN ids : s \in Range(todo') \/ (s \in DOMAIN results' /\ ~ results'[s].kept)
    <3>1. SUFFICES ASSUME failures' = 0, NEW s \in DOMAIN ids, s \notin Range(todo')
                   PROVE  s \in DOMAIN results' /\ ~ results'[s].kept
      OBVIOUS
    <3>2. failures' = failures /\ failures = 0
      BY <1>1, <1>4, <3>1
    <3>3. CASE s = h
      BY <1>3, <3>2, <3>3
    <3>4. CASE s # h
      <4>1. s \in DOMAIN results /\ ~ results[s].kept
        BY <1>2, <3>1, <3>2, <3>4 DEF IInv, Ran
      <4>2. QED BY <1>3, <3>4, <4>1
    <3>5. QED BY <3>3, <3>4
  <2>2. last'["execute"].code # "0"
    BY <1>1
  <2>3. last["deploy"].code = "0" =>
          \A s \in DOMAIN results' : ~ results'[s].kept =>
            results'[s].version \in Versions(last["deploy"].round)
    BY <1>3
  <2>4. QED BY <2>1, <2>2, <2>3 DEF Ran, Versions
<1>11. QED BY <1>5, <1>6, <1>7, <1>8, <1>9, <1>10 DEF IInv

LEMMA ExecuteOneInv == ASSUME IInv, ExecuteOne PROVE IInv'
<1>1. /\ phase = "executing" /\ todo # <<>> /\ failures' = failures
      /\ \E c \in Contents : Record(c)
      /\ todo' = Tail(todo)
      /\ UNCHANGED <<stored, late, ids, phase, mode, target, found, round, last, lost>>
  BY DEF ExecuteOne, instance, history
<1>2. QED BY <1>1, ExecuteLoopInv

LEMMA ExecuteFailsInv == ASSUME IInv, ExecuteFails PROVE IInv'
<1>1. /\ phase = "executing" /\ todo # <<>> /\ failures' = failures + 1 /\ results' = results
      /\ todo' = Tail(todo)
      /\ UNCHANGED <<stored, late, ids, phase, mode, target, found, round, last, lost>>
  BY DEF ExecuteFails, instance, files, history
<1>2. QED BY <1>1, ExecuteLoopInv

(* An execution ends: with 0 only if every id in ids.json has a result of  *)
(* its own.                                                                *)
LEMMA FinishExecuteInv == ASSUME IInv, FinishExecute PROVE IInv'
<1>1. /\ phase = "executing" /\ todo = <<>>
      /\ UNCHANGED <<stored, late, ids, results, round, lost>>
  BY DEF FinishExecute, instance, files
<1>2. PICK code \in {"0", "failed"} : Exit("execute", round, code) /\ (code = "0" => failures = 0)
  <2>1. failures \in Nat
    BY DEF IInv, Typed, TypeOK
  <2>2. QED BY <2>1 DEF FinishExecute
<1>3. /\ round \in Nat /\ last["assert"].round < round /\ last["assert"].round \in Nat
  BY <1>1 DEF IInv, Typed, Rounds, Runs, Commands
<1>4. /\ Typed' /\ Rounds' /\ Named' /\ Once'
      /\ phase' = "idle"
      /\ last'["execute"] = [round |-> round, code |-> code]
      /\ \A c \in Commands \ {"execute"} : last'[c] = last[c]
  <2>1. /\ DOMAIN results' \subseteq Names /\ results' \in [DOMAIN results' -> ResultType]
        /\ \A s \in DOMAIN results' : stored[results'[s].id].name = s
        /\ late' \subseteq lost' /\ lost' \subseteq lost \union RequestType /\ lost \subseteq lost'
    BY <1>1 DEF IInv, Typed, TypeOK, Named
  <2>2. "execute" \in Commands /\ code \in Codes /\ round <= round' /\ round' \in {round, round + 1}
    BY <1>1, <1>3 DEF Commands, Codes
  <2>3. QED BY <1>1, <1>2, <1>3, <2>1, <2>2, ExitIs
<1>5. Told' /\ Kept' /\ Fresh'
  BY <1>1, <1>4 DEF IInv, Told, Deploying, Kept, Fresh, Versions, Commands
<1>6. Asserted'
  BY <1>3, <1>4 DEF Asserted, Commands
<1>7. Ran'
  <2>1. ASSUME code = "0", last["deploy"].code = "0", NEW s \in Names
        PROVE  /\ s \in DOMAIN results
               /\ results[s].round = round
               /\ results[s].version \in Versions(last["deploy"].round)
    <3>1. DOMAIN ids = Names /\ failures = 0 /\ Range(todo) = {}
      BY <1>1, <1>2, <2>1 DEF IInv, Fresh, Range
    <3>2. s \in DOMAIN results /\ ~ results[s].kept
      BY <1>1, <3>1 DEF IInv, Ran
    <3>3. QED BY <1>1, <2>1, <3>2 DEF IInv, Kept, Ran
  <2>2. last'["deploy"] = last["deploy"]
    BY <1>4 DEF Commands
  <2>3. QED BY <1>1, <1>4, <2>1, <2>2 DEF Ran, Versions
<1>8. QED BY <1>4, <1>5, <1>6, <1>7 DEF IInv

LEMMA AssertInv == ASSUME IInv, AssertResults PROVE IInv'
<1>1. PICK code \in {"0", "failed"} : Exit("assert", round + 1, code) /\ (code = "0" => Verdict)
  BY DEF AssertResults
<1>2. round' = round + 1 /\ UNCHANGED <<stored, late, ids, results, lost>>
  BY DEF AssertResults, Begin, instance, files
<1>3. Exit("assert", round', code) /\ code \in Codes
  BY <1>1, <1>2 DEF Codes
<1>4. QED BY <1>1, <1>2, <1>3, QuietExit DEF Commands

-----------------------------------------------------------------------------
LEMMA CrashInv == ASSUME IInv, Crash PROVE IInv'
<1>1. UNCHANGED <<stored, round>> /\ round \in Nat
  BY DEF Crash, IInv, Typed
<1>2. CASE /\ phase \in {"tunnel", "deploying", "writing"}
           /\ Exit("deploy", round, "failed")
           /\ GiveUp
           /\ ids' \in {ids} \union (IF phase = "deploying" /\ todo = <<>> THEN {Torn, found} ELSE {})
           /\ UNCHANGED results
  <2>1. /\ late' \subseteq lost' /\ lost \subseteq lost' /\ lost' \subseteq lost \union RequestType
    BY <1>2, GiveUpIs
  <2>2. last["execute"].round < round /\ last["execute"].round \in Nat
    BY <1>2 DEF IInv, Rounds, Runs, Deploying, Typed, Commands
  <2>3. /\ Typed' /\ Rounds' /\ Named' /\ Once'
        /\ phase' = "idle"
        /\ last'["deploy"] = [round |-> round, code |-> "failed"]
        /\ \A c \in Commands \ {"deploy"} : last'[c] = last[c]
    <3>1. /\ DOMAIN results' \subseteq Names /\ results' \in [DOMAIN results' -> ResultType]
          /\ \A s \in DOMAIN results' : stored[results'[s].id].name = s
      BY <1>2 DEF IInv, Typed, TypeOK, Named
    <3>2. "deploy" \in Commands /\ "failed" \in Codes /\ round <= round' /\ round' \in {round, round + 1}
      BY <1>1 DEF Commands, Codes
    <3>3. QED BY <1>1, <1>2, <2>1, <3>1, <3>2, ExitIs
  <2>4. Told' /\ Fresh' /\ Ran'
    BY <2>3 DEF Told, Fresh, Ran, Deploying
  <2>5. Kept' /\ Asserted'
    BY <1>2, <2>3 DEF IInv, Kept, Asserted, Verdict, Commands
  <2>6. QED BY <2>3, <2>4, <2>5 DEF IInv
<1>3. CASE /\ phase = "executing"
           /\ Exit("execute", round, "failed")
           /\ UNCHANGED results \/ (todo # <<>> /\ Record("other"))
           /\ UNCHANGED <<late, ids, lost>>
  <2>1. last["assert"].round < round /\ last["assert"].round \in Nat
    BY <1>3 DEF IInv, Rounds, Runs, Typed, Commands
  <2>2. /\ DOMAIN results' \subseteq Names /\ results' \in [DOMAIN results' -> ResultType]
        /\ \A s \in DOMAIN results' :
             /\ stored[results'[s].id].name = s
             /\ ~ results'[s].kept => results'[s].round = round
    <3>1. CASE UNCHANGED results
      BY <1>3, <3>1 DEF IInv, Typed, TypeOK, Named, Kept
    <3>2. CASE todo # <<>> /\ Record("other")
      <4>1. "other" \in Contents
        BY DEF Contents
      <4>2. /\ DOMAIN results' \subseteq Names /\ results' \in [DOMAIN results' -> ResultType]
            /\ \A s \in DOMAIN results' :
                 /\ stored[results'[s].id].name = s
                 /\ ~ results'[s].kept => results'[s].round = round
                 /\ last["deploy"].code = "0" /\ ~ results'[s].kept =>
                      results'[s].version \in Versions(last["deploy"].round)
                 /\ s # Head(todo) => results'[s] = results[s]
        BY <1>3, <3>2, <4>1, RecordIs
      <4>3. QED BY <4>2
    <3>3. QED BY <1>3, <3>1, <3>2
  <2>3. /\ Typed' /\ Rounds' /\ Named' /\ Once'
        /\ phase' = "idle"
        /\ last'["execute"] = [round |-> round, code |-> "failed"]
        /\ \A c \in Commands \ {"execute"} : last'[c] = last[c]
    <3>1. late' \subseteq lost' /\ lost' \subseteq lost \union RequestType /\ lost \subseteq lost'
      BY <1>3 DEF IInv, Typed, TypeOK
    <3>2. "execute" \in Commands /\ "failed" \in Codes /\ round <= round' /\ round' \in {round, round + 1}
      BY <1>1 DEF Commands, Codes
    <3>3. QED BY <1>1, <1>3, <2>2, <3>1, <3>2, ExitIs
  <2>4. Told' /\ Fresh'
    BY <1>1, <1>3, <2>3 DEF IInv, Told, Fresh, Versions, Deploying, Commands
  <2>5. Kept'
    BY <2>2, <2>3 DEF Kept
  <2>6. Asserted'
    <3>1. last'["execute"].round = round /\ last'["assert"] = last["assert"]
      BY <2>3 DEF Commands
    <3>2. QED BY <1>1, <2>1, <3>1 DEF Asserted
  <2>7. Ran'
    BY <2>3 DEF Ran
  <2>8. QED BY <2>3, <2>4, <2>5, <2>6, <2>7 DEF IInv
<1>4. QED BY <1>2, <1>3 DEF Crash

LEMMA InitInv == ASSUME Init PROVE IInv
<1>1. /\ stored = <<>> /\ late = {} /\ ids = Absent /\ results = <<>>
      /\ phase = "idle" /\ todo = <<>> /\ target = 0 /\ found = <<>> /\ failures = 0
      /\ round = 0 /\ lost = {}
      /\ last = [c \in Commands |-> [round |-> 0, code |-> "none"]]
  BY DEF Init, Commands
<1>2. Len(stored) = 0 /\ Len(todo) = 0 /\ DOMAIN results = {} /\ DOMAIN found = {}
  BY <1>1
<1>3. \A c \in Commands : last[c].code = "none" /\ last[c].round = 0
  BY <1>1
<1>4. Typed
  <2>1. stored \in Seq(Workflow) /\ todo \in Seq(Names)
    BY <1>1
  <2>2. results \in [DOMAIN results -> ResultType] /\ found \in [DOMAIN found -> 1..Len(stored)]
    BY <1>1, <1>2
  <2>3. last \in [Commands -> [round : Nat, code : Codes]]
    BY <1>1 DEF Codes
  <2>4. TypeOK
    BY <1>1, <1>2, <2>1, <2>2, NamesAreFew DEF TypeOK
  <2>5. QED BY <1>1, <1>2, <2>1, <2>2, <2>3, <2>4, NamesAreFew DEF Typed, Deploying
<1>5. Rounds /\ Told /\ Once /\ Kept /\ Asserted /\ Fresh /\ Ran
  BY <1>1, <1>2, <1>3 DEF Rounds, Told, Once, Kept, Asserted, Fresh, Ran, Deploying, Commands
<1>6. Named
  BY <1>1, <1>2 DEF Named, Fits
<1>7. QED BY <1>4, <1>5, <1>6 DEF IInv

LEMMA StepInv == ASSUME IInv, [Next]_vars PROVE IInv'
<1>1. CASE UNCHANGED vars
  <2>1. UNCHANGED <<stored, late, ids, results, phase, mode, todo, target, found, failures, round, last, lost>>
    BY <1>1 DEF vars, instance, files, progress, history
  <2>2. Typed'
    <3>1. TypeOK'
      BY <2>1 DEF IInv, Typed, TypeOK, Workflow, RequestType, ResultType
    <3>2. QED BY <2>1, <3>1 DEF IInv, Typed, Deploying
  <2>3. Rounds' /\ Told' /\ Named'
    BY <2>1 DEF IInv, Rounds, Runs, Told, Named, Fits, Deploying
  <2>4. Once' /\ Kept' /\ Asserted'
    BY <2>1 DEF IInv, Once, Posted, Kept, Asserted, Verdict
  <2>5. Fresh' /\ Ran'
    BY <2>1 DEF IInv, Fresh, Ran, Versions
  <2>6. QED BY <2>2, <2>3, <2>4, <2>5 DEF IInv
<1>2. CASE RefuseDeploy \/ StartDeploy
  BY <1>2, RefuseDeployInv, StartDeployInv
<1>3. CASE DeployStep
  BY <1>3, AbortInv, ConnectInv, LookUpInv, WriteInv, DeployFailsInv, FinishDeployInv DEF DeployStep
<1>4. CASE LateWrite
  BY <1>4, LateWriteInv
<1>5. CASE RefuseExecute \/ StartExecute
  BY <1>5, RefuseExecuteInv, StartExecuteInv
<1>6. CASE ExecuteOne \/ ExecuteFails \/ FinishExecute
  BY <1>6, ExecuteOneInv, ExecuteFailsInv, FinishExecuteInv
<1>7. CASE AssertResults \/ Crash
  BY <1>7, AssertInv, CrashInv
<1>8. QED BY <1>1, <1>2, <1>3, <1>4, <1>5, <1>6, <1>7 DEF Next

-----------------------------------------------------------------------------
(* The invariant holds in every reachable state, for any matrix.           *)
THEOREM Invariant == Spec => []IInv
<1>1. Init => IInv
  BY InitInv
<1>2. IInv /\ [Next]_vars => IInv'
  BY StepInv
<1>3. QED BY <1>1, <1>2, PTL DEF Spec

(* Instance, files and the memory of the command that runs keep their      *)
(* types: no id and no result stands for a workflow that is not there.     *)
THEOREM MatrixTypes == Spec => []TypeOK
<1>1. IInv => TypeOK
  BY DEF IInv, Typed
<1>2. QED BY <1>1, Invariant, PTL

(* For any matrix and any commands of execute_deploy.py, failing, killed   *)
(* or repeated: a duplicate made by mode upsert goes with a POST that was  *)
(* carried out after its client gave up on it or lost its answer, and the  *)
(* deployment that gave up does not return 0.                              *)
THEOREM UpsertsDuplicateLostPostsOnly == Spec => []UpsertsOnce
<1>1. IInv => UpsertsOnce
  BY DEF IInv, Once, Posted, Told, UpsertsOnce
<1>2. QED BY <1>1, Invariant, PTL

(* For any matrix: a green assertion is about results of one execution but *)
(* for the files rmtree left, and about the workflows of the deployment    *)
(* before it but for writes of deployments that gave up on them.           *)
THEOREM GreenIsAlwaysTrue == Spec => []GreenIsTrue
<1>1. ASSUME IInv PROVE GreenIsTrue
  <2>1. SUFFICES ASSUME last["assert"].code = "0", last["execute"].round < last["assert"].round
                 PROVE  /\ Verdict
                        /\ \A s, t \in Names : ~ results[s].kept /\ ~ results[t].kept =>
                             results[s].round = results[t].round
                        /\ last["deploy"].code = "0" /\ last["execute"].code = "0"
                             /\ last["deploy"].round < last["execute"].round =>
                             \A s \in Names :
                               /\ results[s].round = last["execute"].round
                               /\ stored[results[s].id].name = s
                               /\ results[s].version \in {last["deploy"].round} \union {w.round : w \in lost}
    BY DEF GreenIsTrue
  <2>2. Verdict /\ \A s \in Names : s \in DOMAIN results
    BY <1>1, <2>1 DEF IInv, Asserted, Verdict
  <2>3. \A s, t \in Names : ~ results[s].kept /\ ~ results[t].kept =>
          results[s].round = results[t].round
    BY <1>1, <2>2 DEF IInv, Kept
  <2>4. \A s \in Names : stored[results[s].id].name = s
    BY <1>1, <2>2 DEF IInv, Named
  <2>5. last["deploy"].code = "0" /\ last["execute"].code = "0"
          /\ last["deploy"].round < last["execute"].round =>
          \A s \in Names :
            /\ results[s].round = last["execute"].round
            /\ results[s].version \in {last["deploy"].round} \union {w.round : w \in lost}
    BY <1>1 DEF IInv, Ran, Versions
  <2>6. QED BY <2>2, <2>3, <2>4, <2>5
<1>2. QED BY <1>1, Invariant, PTL
=============================================================================
