---------------------------- MODULE DeployMatrix ----------------------------
(***************************************************************************)
(* scripts/execute_deploy.py and the assertions of execute_matrix.py: an   *)
(* operator deploys a list of scenarios to a real instance, executes what  *)
(* was deployed and asserts the results.  The three commands share nothing *)
(* but files, ids.json and one result per scenario, and are run in any     *)
(* order, repeated, and killed at any moment.                              *)
(*                                                                         *)
(* deploy_to_n8n is here its lookup and its write, as in module Deploy: a  *)
(* write whose client gave up may still be carried out, during any later   *)
(* command.                                                                *)
(***************************************************************************)
EXTENDS Integers, Sequences, FiniteSets, SequencesExt

CONSTANTS
  Scenarios,     \* the matrix, a sequence of names
  Modes,         \* modes the operator asks for
  MaxCommands,   \* bound: commands the operator runs
  MaxLost,       \* bound: writes that clients give up on
  MaxWorkflows,  \* bound: workflows the instance ever has
  Absent, Torn   \* no file; a file whose writer was killed

ASSUME MatrixAssumption ==
  /\ Scenarios \in Seq(Range(Scenarios)) /\ Scenarios # <<>>
  /\ Modes \subseteq {"create", "upsert"}
  /\ {MaxCommands, MaxLost, MaxWorkflows} \subseteq Nat

VARIABLES
  stored,     \* instance: its workflows; the id is the position.  name, round
              \* of the last write and, as history, mode and round it is made by
  late,       \* writes that may still be carried out though their client gave up
  ids,        \* ids.json: Absent, Torn or the id of each scenario in it
  results,    \* the result files of some scenarios: the id and the version that
              \* ran, the round and the content; kept: it outlived a removal
  phase,      \* "idle", or what the command that runs is doing
  mode,       \* of the deployment that runs
  todo,       \* scenarios its loop has not reached
  target,     \* what its lookup found: an id, or 0
  found,      \* `ids`, before it is written
  failures,   \* counted by the loop
  round,      \* commands started so far
  last,       \* history: round and exit code of the last run of each command;
              \* "failed": another code than 0, or killed
  lost        \* history: the writes given up on while their fate was open

instance == <<stored, late>>
files == <<ids, results>>
progress == <<todo, target, found, failures>>
history == <<round, last, lost>>
vars == <<instance, files, phase, mode, progress, history>>

Names == Range(Scenarios)

(* Of a result: what is expected, or anything else, a torn file included.  *)
Contents == {"expected", "other"}

Init ==
  /\ stored = <<>> /\ late = {}
  /\ ids = Absent /\ results = <<>>
  /\ phase = "idle" /\ mode = "none"
  /\ todo = <<>> /\ target = 0 /\ found = <<>> /\ failures = 0
  /\ round = 0 /\ lost = {}
  /\ last = [c \in {"deploy", "execute", "assert"} |-> [round |-> 0, code |-> "none"]]

(* f with x for s.                                                         *)
With(f, s, x) == [t \in DOMAIN f \union {s} |-> IF t = s THEN x ELSE f[t]]

Note(command, r, code) == last' = [last EXCEPT ![command] = [round |-> r, code |-> code]]

(* A command of the operator.                                              *)
Begin ==
  /\ phase = "idle"
  /\ round < MaxCommands
  /\ round' = round + 1

(* It ends, and its memory with it.                                        *)
Exit(command, r, code) ==
  /\ phase' = "idle"
  /\ mode' = "none"
  /\ todo' = <<>> /\ target' = 0 /\ found' = <<>> /\ failures' = 0
  /\ Note(command, r, code)

-----------------------------------------------------------------------------
(* execute_deploy.py deploy                                                *)

StartDeploy ==
  /\ Begin
  /\ phase' = "tunnel"
  /\ mode' \in Modes
  /\ Note("deploy", round + 1, "running")
  /\ UNCHANGED <<instance, files, progress, lost>>

(* Bad arguments, no output directory, no API key, no ssh.                 *)
RefuseDeploy ==
  /\ Begin
  /\ Exit("deploy", round + 1, "failed")
  /\ UNCHANGED <<instance, files, lost>>

(* The tunnel exits early, or the instance is not healthy in time.         *)
Abort ==
  /\ phase = "tunnel"
  /\ Exit("deploy", round, "failed")
  /\ UNCHANGED <<instance, files, round, lost>>

Connect ==
  /\ phase = "tunnel"
  /\ phase' = "deploying"
  /\ todo' = Scenarios
  /\ UNCHANGED <<instance, files, mode, target, found, failures, history>>

Matching(s) == {i \in 1..Len(stored) : stored[i].name = s}

(* The lookup of an upsert is left out.                                    *)
LookUpNothing ==
  /\ phase = "deploying"
  /\ todo # <<>>
  /\ target' = 0
  /\ phase' = "writing"
  /\ UNCHANGED <<instance, files, mode, todo, found, failures, history>>

(* What is deployed compiles; mode upsert looks for a workflow of the name.*)
LookUp ==
  /\ phase = "deploying"
  /\ todo # <<>>
  /\ LET hits == IF mode = "upsert" THEN Matching(Head(todo)) ELSE {}
     IN  IF hits = {} THEN target' = 0 ELSE target' \in hits
  /\ phase' = "writing"
  /\ UNCHANGED <<instance, files, mode, todo, found, failures, history>>

Request == [name |-> Head(todo), id |-> target, mode |-> mode, round |-> round]

(* The instance carries out the POST, of id 0, or the PUT w.               *)
CarryOut(w) ==
  IF w.id = 0
  THEN /\ Len(stored) < MaxWorkflows
       /\ stored' = Append(stored, [name |-> w.name, made |-> w.mode,
                                    born |-> w.round, round |-> w.round])
  ELSE stored' = [stored EXCEPT ![w.id].round = w.round]

(* The loop goes on with the next scenario.                                *)
Advance ==
  /\ phase' = "deploying"
  /\ todo' = Tail(todo)
  /\ target' = 0

(* The write is carried out and answered with the id.                      *)
Write ==
  /\ phase = "writing"
  /\ CarryOut(Request)
  /\ found' = With(found, Head(todo), IF target = 0 THEN Len(stored) + 1 ELSE target)
  /\ Advance
  /\ UNCHANGED <<late, files, mode, failures, history>>

(* The request was refused, or never sent; or its fate is open.            *)
GiveUp ==
  \/ UNCHANGED <<late, lost>>
  \/ /\ phase = "writing"
     /\ Cardinality(lost) < MaxLost
     /\ late' = late \union {Request}
     /\ lost' = lost \union {Request}

(* The scenario is tried again.                                            *)
DeployFailsAgain ==
  /\ phase \in {"deploying", "writing"} /\ todo # <<>>
  /\ GiveUp
  /\ failures' = 1
  /\ phase' = "deploying"
  /\ target' = 0
  /\ UNCHANGED <<stored, files, mode, todo, found, round, last>>

(* A scenario fails and the loop goes on: it does not compile, a request   *)
(* is refused or times out, an answer is lost or is no workflow.           *)
DeployFails ==
  /\ phase \in {"deploying", "writing"} /\ todo # <<>>
  /\ GiveUp
  /\ failures' = failures + 1
  /\ Advance
  /\ UNCHANGED <<stored, files, mode, found, round, last>>

(* ids.json is written, and the tunnel closed; the write may fail.         *)
FinishDeploy ==
  /\ phase = "deploying" /\ todo = <<>>
  /\ \/ /\ ids' = found
        /\ Exit("deploy", round, IF failures > 0 THEN "failed" ELSE "0")
     \/ /\ ids' \in {ids, Torn}
        /\ Exit("deploy", round, "failed")
  /\ UNCHANGED <<instance, results, round, lost>>

DeployStep ==
  Abort \/ Connect \/ LookUp \/ Write \/ DeployFails \/ FinishDeploy

(* The instance carries out a write that nobody waits for any more.        *)
LateWrite ==
  /\ \E w \in late : CarryOut(w) /\ late' = late \ {w}
  /\ UNCHANGED <<files, phase, mode, progress, history>>

-----------------------------------------------------------------------------
(* execute_deploy.py execute                                               *)

(* Some scenarios in the order of the matrix, which is that of ids.json.   *)
InOrder(names) ==
  {t \in SetToSeqs(names) : \A i, j \in DOMAIN t : i < j =>
     \E k, l \in DOMAIN Scenarios : k < l /\ Scenarios[k] = t[i] /\ Scenarios[l] = t[j]}

(* Nothing is touched: bad arguments or container, no ids.json or a torn   *)
(* one.                                                                    *)
RefuseExecute ==
  /\ Begin
  /\ Exit("execute", round + 1, "failed")
  /\ UNCHANGED <<instance, files, lost>>

(* The results of an earlier round stay.                                   *)
ClearNothing == UNCHANGED results

(* rmtree(ignore_errors): what cannot be removed stays.                    *)
Clear ==
  \E stays \in SUBSET DOMAIN results :
    results' = [s \in stays |-> [results[s] EXCEPT !.kept = TRUE]]

(* The results of earlier rounds are removed; then the directory is made,  *)
(* which may fail.                                                         *)
StartExecute ==
  /\ Begin
  /\ ids \notin {Absent, Torn}
  /\ Clear
  /\ \/ Exit("execute", round + 1, "failed")
     \/ /\ phase' = "executing"
        /\ todo' \in InOrder(DOMAIN ids)
        /\ Note("execute", round + 1, "running")
        /\ UNCHANGED <<mode, target, found, failures>>
  /\ UNCHANGED <<instance, ids, lost>>

(* The result of the scenario in hand is written.                          *)
Record(c) ==
  LET s == Head(todo)
  IN  results' = With(results, s,
                      [id |-> ids[s], version |-> stored[ids[s]].round,
                       round |-> round, content |-> c, kept |-> FALSE])

ExecuteOne ==
  /\ phase = "executing" /\ todo # <<>>
  /\ \E c \in Contents : Record(c)
  /\ todo' = Tail(todo)
  /\ UNCHANGED <<instance, ids, phase, mode, target, found, failures, history>>

(* What a failing execution printed is written as well.                    *)
ExecuteFailsWriting ==
  /\ phase = "executing" /\ todo # <<>>
  /\ Record("log")
  /\ failures' = failures + 1
  /\ todo' = Tail(todo)
  /\ UNCHANGED <<instance, ids, phase, mode, target, found, history>>

(* ssh, docker or n8n fails, or the id is no id: no file.                  *)
ExecuteFails ==
  /\ phase = "executing" /\ todo # <<>>
  /\ failures' = failures + 1
  /\ todo' = Tail(todo)
  /\ UNCHANGED <<instance, files, phase, mode, target, found, history>>

FinishExecute ==
  /\ phase = "executing" /\ todo = <<>>
  /\ Exit("execute", round, IF failures > 0 THEN "failed" ELSE "0")
  /\ UNCHANGED <<instance, files, round, lost>>

-----------------------------------------------------------------------------
(* execute_matrix.py assert                                                *)

(* All scenarios of the matrix count, a missing result as a failure.  A    *)
(* result that is no JSON or has no items ends the command with a          *)
(* traceback, which is exit code 1 as well.                                *)
Verdict ==
  \A s \in Names : s \in DOMAIN results /\ results[s].content = "expected"

AssertResults ==
  /\ Begin
  /\ Exit("assert", round + 1, IF Verdict THEN "0" ELSE "failed")
  /\ UNCHANGED <<instance, files, lost>>

-----------------------------------------------------------------------------
(* The command is killed, between two steps, while a request is out or     *)
(* while it writes a file; an execution that cannot write one ends alike.  *)
Crash ==
  /\ \/ /\ phase \in {"tunnel", "deploying", "writing"}
        /\ Exit("deploy", round, "failed")
        /\ GiveUp
        /\ ids' \in {ids} \union (IF phase = "deploying" /\ todo = <<>> THEN {Torn, found} ELSE {})
        /\ UNCHANGED results
     \/ /\ phase = "executing"
        /\ Exit("execute", round, "failed")
        /\ UNCHANGED results \/ (todo # <<>> /\ Record("other"))
        /\ UNCHANGED <<late, ids, lost>>
  /\ UNCHANGED <<stored, round>>

Next ==
  \/ RefuseDeploy \/ StartDeploy \/ DeployStep \/ LateWrite
  \/ RefuseExecute \/ StartExecute
  \/ ExecuteOne \/ ExecuteFails \/ FinishExecute
  \/ AssertResults \/ Crash

(* The polling loops have deadlines and every request of a deployment has  *)
(* a timeout: without any help of the network a deployment aborts or its   *)
(* scenario fails.  `ssh` of an execution has no timeout: nothing is       *)
(* assumed of it.                                                          *)
Spec == Init /\ [][Next]_vars
        /\ WF_vars(Abort) /\ WF_vars(DeployFails) /\ WF_vars(FinishDeploy)

-----------------------------------------------------------------------------
Workflow == [name : Names, made : Modes, born : 1..round, round : 1..round]
RequestType == [name : Names, id : 0..Len(stored), mode : Modes, round : 1..round]
ResultType == [id : 1..Len(stored), version : 1..round, round : 1..round,
               content : Contents, kept : BOOLEAN]

TypeOK ==
  /\ stored \in Seq(Workflow)
  /\ late \subseteq lost /\ lost \subseteq RequestType
  /\ ids \in {Absent, Torn} \/ (DOMAIN ids \subseteq Names /\ ids \in [DOMAIN ids -> 1..Len(stored)])
  /\ DOMAIN results \subseteq Names /\ results \in [DOMAIN results -> ResultType]
  /\ phase \in {"idle", "tunnel", "deploying", "writing", "executing"}
  /\ phase = "executing" => ids \notin {Absent, Torn}
  /\ phase = "writing" => todo # <<>>
  /\ target \in 0..Len(stored)
  /\ failures \in 0..Len(Scenarios)

(* What a green assertion has seen.  However often executions fail or are  *)
(* killed halfway, it is about results of one execution, but for files     *)
(* that rmtree could not remove.  And when the last deploy, execute and    *)
(* assert were run in this order and all returned 0, every scenario was    *)
(* executed, in this execution, from the workflow this deployment wrote;   *)
(* if that was written again before it ran, it was by an earlier           *)
(* deployment that had given up on this write.                             *)
GreenIsTrue ==
  LET d == last["deploy"]
      e == last["execute"]
      a == last["assert"]
  IN  a.code = "0" /\ e.round < a.round =>
        /\ Verdict
        /\ \A s, t \in Names : ~ results[s].kept /\ ~ results[t].kept =>
             results[s].round = results[t].round
        /\ d.code = "0" /\ e.code = "0" /\ d.round < e.round =>
             \A s \in Names :
               /\ results[s].round = e.round
               /\ stored[results[s].id].name = s
               /\ results[s].version \in {d.round} \union {w.round : w \in lost}

(* However deployments fail, are killed or repeated, and whatever modes    *)
(* they mix: two workflows of one name, the later made by mode upsert, are *)
(* due to a write that was carried out after its deployment gave up on it, *)
(* or whose answer it lost; and such a deployment does not return 0.       *)
UpsertsOnce ==
  /\ \A i, j \in 1..Len(stored) :
       i < j /\ stored[i].name = stored[j].name /\ stored[j].made = "upsert" =>
         \E w \in lost : w.id = 0 /\ w.name = stored[i].name
                          /\ w.round \in {stored[i].born, stored[j].born}
  /\ \A w \in lost : w.round = last["deploy"].round => last["deploy"].code # "0"

(* A deployment ends, whatever the network does.                           *)
DeploymentsEnd == phase \in {"tunnel", "deploying", "writing"} ~> phase = "idle"
=============================================================================
