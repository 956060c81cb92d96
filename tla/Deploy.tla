------------------------------- MODULE Deploy -------------------------------
(***************************************************************************)
(* deploy_to_n8n (runtime/deploy.py): processes that write compiled        *)
(* workflows to one n8n instance over its REST API.  A call lists the      *)
(* credentials of the instance page by page, binds the workflow's by name, *)
(* looks the workflow up by name (mode "upsert") and sends one PUT or      *)
(* POST.                                                                   *)
(*                                                                         *)
(* The instance is external: what is modelled of it is what the code makes *)
(* of its answers.  A request may be refused, its answer lost, and a write *)
(* whose client has stopped waiting may still be carried out later.        *)
(***************************************************************************)
EXTENDS Naturals, Sequences, FiniteSets, FiniteSetsExt, Functions

CONSTANTS
  Deployers,     \* processes that call deploy_to_n8n
  IRs,           \* documents
  Tampered,      \* those of them that validate_typed_ir rejects
  NameOf,        \* NameOf[ir]: the name it is deployed under
  Needs,         \* Needs[ir]: its credential references, [name, type]
  Modes,         \* the modes asked for
  Maps,          \* credential_map: functions from names to ids, <<>> for none
  Nothing, Failed,   \* results that are no ids
  Late,          \* TRUE: a write may be carried out after its client gave up
  PageSize,      \* credentials on a page of the listing
  MaxCalls,      \* bound: calls of all deployers together
  MaxCredentials,\* bound: credentials the instance ever has
  MaxRemovals    \* bound: workflows removed in the editor

ASSUME DeployAssumption ==
  /\ IRs # {} /\ Modes # {} /\ Maps # {}
  /\ Tampered \subseteq IRs
  /\ Nothing \notin IRs
  /\ \A m \in Maps : Range(m) \subseteq Nat
  /\ Late \in BOOLEAN
  /\ PageSize \in Nat \ {0}
  /\ {MaxCalls, MaxCredentials, MaxRemovals} \subseteq Nat

VARIABLES
  vault,       \* instance: its credentials; the id is the position
  stored,      \* instance: its workflows in order of creation, the removed too
  removed,     \* instance: ids of the workflows removed in the editor
  log,         \* history: <<deployer, call, id>> of every write carried out
  orphans,     \* writes whose client no longer waits
  calls,       \* calls each deployer has made
  job,         \* the arguments of the last call
  pc,          \* "idle", or the phase whose answer is awaited
  listing,     \* credentials listed so far
  bound,       \* pairs of a credential reference and an id
  channel,     \* the request that is out, or its answer
  result       \* of the last call: Nothing, Failed or the id returned

instance == <<vault, stored, removed, log>>
arguments == <<calls, job>>
vars == <<instance, orphans, arguments, pc, listing, bound, channel, result>>

Ref == UNION {Needs[i] : i \in IRs}
Job == [ir : IRs, mode : Modes, map : Maps]
Silent == [kind |-> "silent"]

(* The pages of a listing: what stands behind position `cursor`.           *)
Page(cursor) ==
  SubSeq(vault, cursor + 1, IF cursor + PageSize < Len(vault) THEN cursor + PageSize ELSE Len(vault))

Matching(name) == {i \in (1..Len(stored)) \ removed : stored[i].name = name}

Init ==
  /\ vault \in UNION {[1..n -> Ref] : n \in 0..MaxCredentials}
  /\ stored = <<>>
  /\ removed = {}
  /\ log = {}
  /\ orphans = {}
  /\ calls = [d \in Deployers |-> 0]
  /\ job \in [Deployers -> {CHOOSE j \in Job : TRUE}]
  /\ pc = [d \in Deployers |-> "idle"]
  /\ listing = [d \in Deployers |-> <<>>]
  /\ bound = [d \in Deployers |-> {}]
  /\ channel = [d \in Deployers |-> Silent]
  /\ result = [d \in Deployers |-> Nothing]

-----------------------------------------------------------------------------
(* The client.                                                             *)

Ask(d, phase, r) ==
  /\ pc' = [pc EXCEPT ![d] = phase]
  /\ channel' = [channel EXCEPT ![d] = r]

(* The call returns an id, or raises ValueError.                           *)
EndCall(d, r) ==
  /\ Ask(d, "idle", Silent)
  /\ result' = [result EXCEPT ![d] = r]

WriteRequest(d, j, call, binding, kind, id) ==
  [kind |-> kind, id |-> id, ir |-> j.ir, binding |-> binding, client |-> d, call |-> call]

ProceedUnnamed(d, j, call, binding) ==
  /\ bound' = [bound EXCEPT ![d] = binding]
  /\ IF j.mode = "upsert"
     THEN \E i \in IRs : Ask(d, "lookup", [kind |-> "find", name |-> NameOf[i]])
     ELSE Ask(d, "write", WriteRequest(d, j, call, binding, "POST", 0))

(* After the credentials: look the workflow up, or create it.              *)
Proceed(d, j, call, binding) ==
  /\ bound' = [bound EXCEPT ![d] = binding]
  /\ IF j.mode = "upsert"
     THEN Ask(d, "lookup", [kind |-> "find", name |-> NameOf[j.ir]])
     ELSE Ask(d, "write", WriteRequest(d, j, call, binding, "POST", 0))

(* `missing`, and the ids the references are bound to.                     *)
Bind(d, j, call, resolved) ==
  IF \E r \in Needs[j.ir] : r.name \notin DOMAIN resolved
  THEN EndCall(d, Failed) /\ UNCHANGED bound
  ELSE /\ Proceed(d, j, call, {<<r, resolved[r.name]>> : r \in Needs[j.ir]})
       /\ result' = [result EXCEPT ![d] = Nothing]

(* The last of a name wins.                                                *)
by_nameLast(list) ==
  [n \in {list[i].name : i \in 1..Len(list)} |-> Max({i \in 1..Len(list) : list[i].name = n})]

(* resolved.setdefault over the listing: the first of a name wins.         *)
by_name(list) ==
  [n \in {list[i].name : i \in 1..Len(list)} |-> Min({i \in 1..Len(list) : list[i].name = n})]

(* A call, up to the first request it waits for; a later call may repeat   *)
(* an earlier one.                                                         *)
Call(d, j) ==
  /\ pc[d] = "idle"
  /\ FoldFunction(+, 0, calls) < MaxCalls
  /\ calls' = [calls EXCEPT ![d] = @ + 1]
  /\ job' = [job EXCEPT ![d] = j]
  /\ listing' = [listing EXCEPT ![d] = <<>>]
  /\ IF j.ir \in Tampered \/ j.mode \notin {"create", "upsert"}
     THEN EndCall(d, Failed) /\ UNCHANGED bound
     ELSE IF Needs[j.ir] = {} \/ j.map # <<>>
     THEN Bind(d, j, calls'[d], j.map)
     ELSE /\ Ask(d, "list", [kind |-> "list", cursor |-> 0])
          /\ result' = [result EXCEPT ![d] = Nothing]
          /\ UNCHANGED bound
  /\ UNCHANGED <<instance, orphans>>

(* A page takes the place of the ones before it.                           *)
ReceivePageOnly(d) ==
  /\ pc[d] = "list"
  /\ channel[d].kind = "page"
  /\ LET seen == channel[d].data
     IN  /\ listing' = [listing EXCEPT ![d] = seen]
         /\ IF channel[d].data # <<>> /\ channel[d].more
            THEN /\ Ask(d, "list", [kind |-> "list", cursor |-> Len(seen)])
                 /\ UNCHANGED <<bound, result>>
            ELSE Bind(d, job[d], calls[d], by_name(seen))
  /\ UNCHANGED <<instance, orphans, arguments>>

(* One page of credentials; the last one has no cursor.                    *)
ReceivePage(d) ==
  /\ pc[d] = "list"
  /\ channel[d].kind = "page"
  /\ LET seen == listing[d] \o channel[d].data
     IN  /\ listing' = [listing EXCEPT ![d] = seen]
         /\ IF channel[d].data # <<>> /\ channel[d].more
            THEN /\ Ask(d, "list", [kind |-> "list", cursor |-> Len(seen)])
                 /\ UNCHANGED <<bound, result>>
            ELSE Bind(d, job[d], calls[d], by_name(seen))
  /\ UNCHANGED <<instance, orphans, arguments>>

(* The lookup is taken for a hit whatever it says.                         *)
ReceiveLookupAsHit(d) ==
  /\ pc[d] = "lookup"
  /\ channel[d].kind = "hit"
  /\ Ask(d, "write", WriteRequest(d, job[d], calls[d], bound[d], "PUT", channel[d].id))
  /\ UNCHANGED <<instance, orphans, arguments, listing, bound, result>>

(* The first hit is updated; without one the workflow is created.          *)
ReceiveLookup(d) ==
  /\ pc[d] = "lookup"
  /\ channel[d].kind = "hit"
  /\ LET id == channel[d].id
     IN  Ask(d, "write", WriteRequest(d, job[d], calls[d], bound[d],
                                      IF id # 0 THEN "PUT" ELSE "POST", id))
  /\ UNCHANGED <<instance, orphans, arguments, listing, bound, result>>

ReceiveWritten(d) ==
  /\ pc[d] = "write"
  /\ channel[d].kind = "written"
  /\ EndCall(d, channel[d].id)
  /\ UNCHANGED <<instance, orphans, arguments, listing, bound>>

(* HTTP error, network error, timeout, or an answer that is not as it      *)
(* should be: ValueError, whatever has become of the request.              *)
Fail(d) ==
  /\ pc[d] # "idle"
  /\ orphans' = IF Late /\ channel[d].kind \in {"PUT", "POST"}
                THEN orphans \cup {channel[d]} ELSE orphans
  /\ EndCall(d, Failed)
  /\ UNCHANGED <<instance, arguments, listing, bound>>

Client(d) ==
  ReceivePage(d) \/ ReceiveLookup(d) \/ ReceiveWritten(d) \/ Fail(d)

-----------------------------------------------------------------------------
(* The instance.                                                           *)

Answer(d, a) == channel' = [channel EXCEPT ![d] = a]

ServeList(d) ==
  /\ channel[d].kind = "list"
  /\ LET page == Page(channel[d].cursor)
     IN  Answer(d, [kind |-> "page", data |-> page,
                    more |-> channel[d].cursor + Len(page) < Len(vault)])
  /\ UNCHANGED instance

(* Several workflows may have the name; any of them may come first.        *)
ServeFind(d) ==
  /\ channel[d].kind = "find"
  /\ LET hits == Matching(channel[d].name)
     IN  \E id \in IF hits = {} THEN {0} ELSE hits : Answer(d, [kind |-> "hit", id |-> id])
  /\ UNCHANGED instance

Possible(w) == w.kind = "POST" \/ (w.kind = "PUT" /\ w.id \notin removed)

Target(w) == IF w.kind = "POST" THEN Len(stored) + 1 ELSE w.id

CarryOut(w) ==
  LET document == [name |-> NameOf[w.ir], ir |-> w.ir, binding |-> w.binding]
  IN  /\ stored' = IF w.kind = "POST" THEN Append(stored, document)
                   ELSE [stored EXCEPT ![w.id] = document]
      /\ log' = log \cup {<<w.client, w.call, Target(w)>>}
      /\ UNCHANGED <<vault, removed>>

ServeWrite(d) ==
  /\ Possible(channel[d])
  /\ CarryOut(channel[d])
  /\ Answer(d, [kind |-> "written", id |-> Target(channel[d])])

(* A write reaches the instance after its client gave up.                  *)
ServeOrphan ==
  /\ \E w \in orphans :
       /\ orphans' = orphans \ {w}
       /\ IF Possible(w) THEN CarryOut(w) ELSE UNCHANGED instance
  /\ UNCHANGED <<arguments, pc, listing, bound, channel, result>>

(* What people do in the editor meanwhile.                                 *)
AddCredential ==
  /\ Len(vault) < MaxCredentials
  /\ \E c \in Ref : vault' = Append(vault, c)
  /\ UNCHANGED <<stored, removed, log, orphans, arguments, pc, listing, bound, channel, result>>

Remove ==
  /\ Cardinality(removed) < MaxRemovals
  /\ \E i \in (1..Len(stored)) \ removed : removed' = removed \cup {i}
  /\ UNCHANGED <<vault, stored, log, orphans, arguments, pc, listing, bound, channel, result>>

Serve(d) ==
  /\ ServeList(d) \/ ServeFind(d) \/ ServeWrite(d)
  /\ UNCHANGED <<orphans, arguments, pc, listing, bound, result>>

Next ==
  \/ \E d \in Deployers : (\E j \in Job : Call(d, j)) \/ Client(d) \/ Serve(d)
  \/ ServeOrphan \/ AddCredential \/ Remove

(* urlopen has a timeout: a client does not wait for ever.  The instance   *)
(* owes nothing.                                                           *)
Spec == Init /\ [][Next]_vars /\ \A d \in Deployers : WF_vars(Client(d))

-----------------------------------------------------------------------------
Document == [name : {NameOf[i] : i \in IRs}, ir : IRs, binding : SUBSET (Ref \X Nat)]

Write == [kind : {"PUT", "POST"}, id : Nat, ir : IRs, binding : SUBSET (Ref \X Nat),
          client : Deployers, call : Nat]

Message ==
  {Silent} \cup Write
    \cup [kind : {"list"}, cursor : Nat]
    \cup [kind : {"page"}, data : Seq(Ref), more : BOOLEAN]
    \cup [kind : {"find"}, name : {NameOf[i] : i \in IRs}]
    \cup [kind : {"hit", "written"}, id : Nat]

Awaited ==
  [idle |-> {"silent"}, list |-> {"list", "page"}, lookup |-> {"find", "hit"},
   write |-> {"PUT", "POST", "written"}]

TypeOK ==
  /\ vault \in Seq(Ref)
  /\ stored \in Seq(Document)
  /\ removed \subseteq 1..Len(stored)
  /\ log \subseteq Deployers \X Nat \X (1..Len(stored))
  /\ orphans \subseteq Write
  /\ calls \in [Deployers -> Nat]
  /\ job \in [Deployers -> Job]
  /\ pc \in [Deployers -> {"idle", "list", "lookup", "write"}]
  /\ listing \in [Deployers -> Seq(Ref)]
  /\ bound \in [Deployers -> SUBSET (Ref \X Nat)]
  /\ channel \in [Deployers -> Message]
  /\ \A d \in Deployers : channel[d].kind \in Awaited[pc[d]]
  /\ result \in [Deployers -> {Nothing, Failed} \cup (1..Len(stored))]

(* A workflow that reaches the instance has every credential it refers to  *)
(* bound: to the id the caller's map gives, or to the oldest credential of *)
(* that name, even where credentials are added while pages are read.       *)
BindingsHold ==
  \A i \in 1..Len(stored) :
    /\ {b[1] : b \in stored[i].binding} = Needs[stored[i].ir]
    /\ \A b \in stored[i].binding :
         \/ \E m \in Maps : b[1].name \in DOMAIN m /\ m[b[1].name] = b[2]
         \/ /\ b[2] \in 1..Len(vault)
            /\ b[2] = Min({c \in 1..Len(vault) : vault[c].name = b[1].name})

(* What callers rely on: seen from outside, a call changes the instance    *)
(* at most once, in one step and within its name, never brings a removed   *)
(* workflow back, and answers with the id of what it changed, after the    *)
(* change: a write is never sent again inside a call, however it fails.    *)
(* Retries, late writes and lookups that race are all steps of the store.  *)
Store == INSTANCE WorkflowStore WITH
  Clients   <- Deployers,
  Documents <- IRs,
  workflows <- [i \in 1..Len(stored) |-> IF i \in removed THEN Nothing ELSE stored[i].ir],
  writes    <- log,
  answer    <- result
ImplementsStore == Store!WSSpec

(* What the comment on mode "upsert" promises: deploying the same document *)
(* again makes no second workflow of its name.                             *)
NoDuplicates ==
  \A ir \in IRs : Cardinality(Matching(NameOf[ir])) <= 1

(* Every call returns or raises.                                           *)
CallsEnd == \A d \in Deployers : pc[d] # "idle" ~> pc[d] = "idle"
=============================================================================
