---------------------------- MODULE WorkflowStore ----------------------------
(***************************************************************************)
(* What a caller may rely on when it deploys: every call of deploy_to_n8n  *)
(* changes the instance at most once and in one step, it creates one       *)
(* workflow or replaces one that has the same name, and an id is returned  *)
(* only for a change that has been made.  No requests, no pages, no        *)
(* lookups, no time.                                                       *)
(***************************************************************************)
EXTENDS Naturals, Sequences

CONSTANTS
  Clients,     \* who deploys
  Documents,   \* what is deployed
  NameOf,      \* NameOf[document]
  Nothing,     \* no workflow any more; no answer yet
  Failed       \* the answer of a call that raises

VARIABLES
  workflows,   \* the document of each workflow, in order of creation
  writes,      \* <<client, call, id>> of every change
  calls,       \* calls each client has made
  answer       \* of the last call of each client

ws_vars == <<workflows, writes, calls, answer>>

WSInit ==
  /\ workflows = <<>>
  /\ writes = {}
  /\ calls = [c \in Clients |-> 0]
  /\ answer = [c \in Clients |-> Nothing]

Begin(c) ==
  /\ calls' = [calls EXCEPT ![c] = @ + 1]
  /\ \E a \in {Nothing, Failed} : answer' = [answer EXCEPT ![c] = a]
  /\ UNCHANGED <<workflows, writes>>

(* The one change of a call, which may come late.                          *)
Write(c, call, id) ==
  /\ \A w \in writes : w[1] # c \/ w[2] # call
  /\ writes' = writes \cup {<<c, call, id>>}
  /\ UNCHANGED <<calls, answer>>

Create(c, call) ==
  /\ \E d \in Documents : workflows' = Append(workflows, d)
  /\ Write(c, call, Len(workflows) + 1)

Replace(c, call, id) ==
  /\ workflows[id] # Nothing
  /\ \E d \in Documents :
       /\ NameOf[d] = NameOf[workflows[id]]
       /\ workflows' = [workflows EXCEPT ![id] = d]
  /\ Write(c, call, id)

Return(c) ==
  /\ answer[c] = Nothing
  /\ \E a \in {Failed} \cup {w[3] : w \in {v \in writes : v[1] = c /\ v[2] = calls[c]}} :
       answer' = [answer EXCEPT ![c] = a]
  /\ UNCHANGED <<workflows, writes, calls>>

(* Somebody removes a workflow in the editor.                              *)
Delete(id) ==
  /\ workflows[id] # Nothing
  /\ workflows' = [workflows EXCEPT ![id] = Nothing]
  /\ UNCHANGED <<writes, calls, answer>>

WSNext ==
  \/ \E c \in Clients : Begin(c) \/ Return(c)
  \/ \E c \in Clients : \E call \in 1..calls[c] :
       Create(c, call) \/ \E id \in 1..Len(workflows) : Replace(c, call, id)
  \/ \E id \in 1..Len(workflows) : Delete(id)

WSSpec == WSInit /\ [][WSNext]_ws_vars
=============================================================================
