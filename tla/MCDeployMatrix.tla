--------------------------- MODULE MCDeployMatrix ---------------------------
(***************************************************************************)
(* Two scenarios and four commands: enough for a deployment that fails or  *)
(* is killed halfway, its repetition, an execution and an assertion.       *)
(***************************************************************************)
EXTENDS DeployMatrix

TwoScenarios == <<"if_branch", "merge">>
=============================================================================
