------------------------------ MODULE MCParser ------------------------------
(***************************************************************************)
(* The stages of the parser that are modelled one by one, in one run: the  *)
(* initial state picks the stage ("part") that runs; the others rest in an *)
(* initial state of theirs and no step of the run touches them.            *)
(***************************************************************************)
EXTENDS MCParse, MCExpression, MCCodeFlow, MCCodeBatch

VARIABLE part

OneOf(set) == CHOOSE elem \in set : TRUE

ExprRest == value = OneOf(Values) /\ ExprInit
FlowRest == script = OneOf(Programs) /\ inputs = {Up} /\ FlowInit
BatchRest == raw_nodes = OneOf(Workflows).nodes /\ flow = OneOf(Workflows).flow /\ BatchInit
ParseRest ==
  /\ kind = [n \in {} |-> "plain"] /\ fault = "none" /\ rules = None
  /\ main = {} /\ again = {} /\ ai = {} /\ uses = {}
  /\ Start

ParserInit ==
  \/ part = "expression" /\ ParseRest /\ FlowRest /\ BatchRest /\ ExprInit
  \/ part = "code flow" /\ ParseRest /\ ExprRest /\ BatchRest /\ FlowInit
  \/ part = "code batch" /\ ParseRest /\ ExprRest /\ FlowRest /\ BatchInit
  \/ part = "workflow" /\ ExprRest /\ FlowRest /\ BatchRest /\ MCInit

InExpression == part = "expression" /\ UNCHANGED <<part, vars, flow_vars, batch_vars>>
InFlow == part = "code flow" /\ UNCHANGED <<part, vars, expr_vars, batch_vars>>
InBatch == part = "code batch" /\ UNCHANGED <<part, vars, expr_vars, flow_vars>>
InWorkflow == part = "workflow" /\ UNCHANGED <<part, expr_vars, flow_vars, batch_vars>>

(* parse_workflow returns or raises.                                       *)
ParserFinished ==
  /\ part = "workflow" /\ phase \in {"parsed", "rejected", "crashed"}
  /\ UNCHANGED <<part, vars, expr_vars, flow_vars, batch_vars>>

ParserNext ==
  \/ InExpression /\ ParseValue
  \/ InExpression /\ BindExpr
  \/ InExpression /\ ExprFinished
  \/ InFlow /\ Visit
  \/ InFlow /\ Precompile
  \/ InFlow /\ BindOne
  \/ InFlow /\ BindDone
  \/ InFlow /\ CheckOne
  \/ InFlow /\ CheckContracts
  \/ InFlow /\ FlowFinished
  \/ InBatch /\ Collect
  \/ InBatch /\ Collected
  \/ InBatch /\ Run
  \/ InBatch /\ Fail
  \/ InBatch /\ Batch
  \/ InBatch /\ AdaptCode
  \/ InBatch /\ AdaptDone
  \/ InBatch /\ BatchFinished
  \/ InWorkflow /\ Adapt
  \/ InWorkflow /\ Connect
  \/ InWorkflow /\ Close
  \/ InWorkflow /\ Bind
  \/ ParserFinished

ParserSpec == ParserInit /\ [][ParserNext]_<<part, vars, expr_vars, flow_vars, batch_vars>>

(* The type invariants of the stages.                                      *)
TypesOK == TypeOK /\ ExprTypeOK /\ FlowTypeOK /\ BatchTypeOK
=============================================================================
