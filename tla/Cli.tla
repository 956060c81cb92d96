-------------------------------- MODULE Cli --------------------------------
(***************************************************************************)
(* The command line (cli.py): `check` and `compile` on one input, run one  *)
(* after the other; compile is given an output file.  Both read the file,  *)
(* parse it, with the bridge to Node.js, and validate it; compile goes on  *)
(* to serialise and write the IR.  What goes wrong is an exception, and    *)
(* the first clause of main that names its class or an ancestor of it      *)
(* gives the exit code.                                                    *)
(***************************************************************************)
EXTENDS Integers, Sequences, SequencesExt, FiniteSets

CONSTANTS Inputs   \* sets of what is wrong, or special, with an input

(* What can be wrong with an input; "code" says that it has scripts.       *)
Faults == {"unreadable", "malformed", "constant", "list", "wrapped list", "python",
           "deep script", "duplicate", "nested list", "settings", "invalid",
           "overflow", "surrogate", "odd setting"}

ASSUME CliAssumption ==
  \A F \in Inputs : F \subseteq Faults \cup {"code"} /\ ("deep script" \in F => "code" \in F)

(* Python's classes of the exceptions, and their ancestors that an except  *)
(* clause names.                                                           *)
Classes(e) ==
  {e} \cup CASE e \in {"WorkflowValidationError", "UnsupportedSourceError",
                      "JSONDecodeError", "UnicodeError"} -> {"ValueError"}
            [] e \in {"JSInfraError", "RecursionError"} -> {"RuntimeError"}
            [] OTHER -> {}

(* The except clauses of main, in order.                                   *)
Clauses ==
  <<[names |-> {"WorkflowValidationError"}, code |-> 1],
    [names |-> {"UnsupportedSourceError"}, code |-> 1],
    [names |-> {"JSInfraError"}, code |-> 3],
    [names |-> {"OSError", "RuntimeError", "TypeError", "ValueError"}, code |-> 2]>>

first(S) == CHOOSE i \in S : \A j \in S : i <= j

(* Python ends with 1 on an exception that nothing catches.                *)
exit_code(e) ==
  LET hits == {i \in DOMAIN Clauses : Clauses[i].names \cap Classes(e) # {}}
  IN  IF hits = {} THEN 1 ELSE Clauses[first(hits)].code

Commands == {"check", "compile"}

VARIABLES
  input,      \* the faults of the input; "code" if it has scripts
  cli_stage,  \* the stage of the running command, or "idle"
  command,    \* the running or the last command
  bridge,     \* whether Node.js works, in this run
  result,     \* exit codes of the commands that ended
  infra,      \* the commands that lost their bridge
  file        \* the output file: "old", "torn" or "ir"

cli_vars == <<input, cli_stage, command, bridge, result, infra, file>>

CliInit ==
  /\ input \in Inputs
  /\ cli_stage = "idle"
  /\ command \in Commands
  /\ bridge = TRUE
  /\ result = <<>>
  /\ infra = {}
  /\ file = "old"

-----------------------------------------------------------------------------

ExitWith(code) ==
  /\ result' = [c \in DOMAIN result \cup {command} |->
                  IF c = command THEN code ELSE result[c]]
  /\ cli_stage' = "idle"

(* A stage raises for the first of the faults <<f, e>>, or goes on.        *)
Stage(name, faults, next) ==
  /\ cli_stage = name
  /\ LET hits == {i \in DOMAIN faults : faults[i][1] \in input}
     IN  IF hits # {} THEN ExitWith(exit_code(faults[first(hits)][2]))
         ELSE cli_stage' = next /\ UNCHANGED result

Invoke ==
  /\ cli_stage = "idle"
  /\ command' \in Commands \ DOMAIN result
  /\ bridge' \in BOOLEAN
  /\ cli_stage' = "read"
  /\ UNCHANGED <<input, result, infra, file>>

(* _read_json.  A number too large for a float is read as infinity, which  *)
(* only the names NaN and Infinity are guarded against.                    *)
Read ==
  /\ Stage("read", << <<"unreadable", "OSError">>, <<"malformed", "JSONDecodeError">>,
                      <<"constant", "ValueError">>, <<"list", "TypeError">> >>, "collect")
  /\ UNCHANGED <<input, command, bridge, infra, file>>

(* _precompile_code_nodes, up to the bridge: {"workflow": [...]} is passed *)
(* on as it is.                                                            *)
Collect ==
  /\ Stage("collect", << <<"wrapped list", "AttributeError">>,
                         <<"python", "UnsupportedSourceError">> >>, "bridge")
  /\ UNCHANGED <<input, command, bridge, infra, file>>

(* The bridge, and the analysis of its trees, which recurses.              *)
Bridge ==
  /\ cli_stage = "bridge"
  /\ IF "code" \in input /\ ~bridge
       THEN /\ ExitWith(exit_code("JSInfraError"))
            /\ infra' = infra \cup {command}
       ELSE /\ Stage("bridge", << <<"deep script", "RecursionError">> >>, "parse")
            /\ UNCHANGED infra
  /\ UNCHANGED <<input, command, bridge, file>>

(* The rest of parse_workflow.                                             *)
Parse ==
  /\ Stage("parse", << <<"duplicate", "ValueError">>, <<"nested list", "AttributeError">>,
                       <<"settings", "ValueError">> >>, "validate")
  /\ UNCHANGED <<input, command, bridge, infra, file>>

(* check prints the issues and ends well.                                  *)
ValidateLeniently ==
  /\ cli_stage = "validate"
  /\ IF command = "check" THEN ExitWith(0)
     ELSE IF "invalid" \in input THEN ExitWith(exit_code("WorkflowValidationError"))
     ELSE cli_stage' = "serialize" /\ UNCHANGED result
  /\ UNCHANGED <<input, command, bridge, infra, file>>

(* validate_workflow: check prints the issues, compile raises them.        *)
Validate ==
  /\ cli_stage = "validate"
  /\ IF "invalid" \in input
       THEN ExitWith(IF command = "check" THEN 1 ELSE exit_code("WorkflowValidationError"))
       ELSE IF command = "check" THEN ExitWith(0)
       ELSE cli_stage' = "serialize" /\ UNCHANGED result
  /\ UNCHANGED <<input, command, bridge, infra, file>>

(* The output file is opened before there is something to write.           *)
SerializeOpened ==
  /\ Stage("serialize", << <<"overflow", "ValueError">>, <<"surrogate", "UnicodeError">>,
                           <<"odd setting", "TypeError">> >>, "write")
  /\ file' = "torn"
  /\ UNCHANGED <<input, command, bridge, infra>>

(* The digest refuses infinity, and text that is no UTF-8; the check of    *)
(* the settings, which comes last, a list in the place of a word.          *)
Serialize ==
  /\ Stage("serialize", << <<"overflow", "ValueError">>, <<"surrogate", "UnicodeError">>,
                           <<"odd setting", "TypeError">> >>, "write")
  /\ UNCHANGED <<input, command, bridge, infra, file>>

(* write_text truncates the file and then writes: it can fail before, and  *)
(* in between.                                                             *)
WriteFile ==
  /\ cli_stage = "write"
  /\ file' = "ir"
  /\ ExitWith(0)
  /\ UNCHANGED <<input, command, bridge, infra>>

WriteFails ==
  /\ cli_stage = "write"
  /\ file' \in {"old", "torn"}
  /\ ExitWith(exit_code("OSError"))
  /\ UNCHANGED <<input, command, bridge, infra>>

CliFinished ==
  /\ cli_stage = "idle"
  /\ DOMAIN result = Commands
  /\ UNCHANGED cli_vars

CliNext ==
  \/ Invoke \/ Read \/ Collect \/ Bridge \/ Parse \/ Validate
  \/ Serialize \/ WriteFile \/ WriteFails \/ CliFinished

CliSpec == CliInit /\ [][CliNext]_cli_vars

-----------------------------------------------------------------------------
(* Properties.                                                             *)

CliTypeOK ==
  /\ cli_stage \in {"idle", "read", "collect", "bridge", "parse",
                    "validate", "serialize", "write"}
  /\ command \in Commands
  /\ DOMAIN result \subseteq Commands
  /\ \A c \in DOMAIN result : result[c] \in 0 .. 3
  /\ file \in {"old", "torn", "ir"}

(* The exit codes tell the truth.  An input that check accepts is not      *)
(* rejected by compile as a faulty workflow, and one that check rejects is *)
(* never compiled, whichever ran first; exit code 3 is for the bridge, and *)
(* only for it: callers can tell a broken environment from a broken        *)
(* workflow.                                                               *)
CommandsAgree ==
  /\ DOMAIN result = Commands =>
       /\ result["check"] = 0 => result["compile"] # 1
       /\ result["check"] = 1 => result["compile"] # 0
  /\ \A c \in DOMAIN result : result[c] = 3 <=> c \in infra

(* An input that was rejected, or could not be analysed, leaves the output *)
(* of an earlier run as it was; the file holds an IR only if compile said  *)
(* so.                                                                     *)
RejectedLeavesFile ==
  "compile" \in DOMAIN result =>
    /\ result["compile"] \in {1, 3} => file = "old"
    /\ file = "torn" => result["compile"] = 2 /\ input \subseteq {"code"}
    /\ file = "ir" <=> result["compile"] = 0

=============================================================================
