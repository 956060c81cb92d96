---------------------------- MODULE DeployProofs ----------------------------
(***************************************************************************)
(* Proofs about Deploy: for any number of deployers, documents, credential *)
(* maps, calls and workflows, any page size, and whatever the instance     *)
(* answers, loses or carries out late.                                     *)
(*                                                                         *)
(* The inductive invariant has four parts, each of which rests on those    *)
(* before it: the types, what an id in a message stands for, which writes  *)
(* are still out, and what the bindings are.                               *)
(***************************************************************************)
EXTENDS Deploy, SequenceTheorems, WellFoundedInduction, TLAPS

IsWrite(m) == m.kind \in {"PUT", "POST"}

(* id is, or was, a workflow that has the name of ir.  Names do not change *)
(* and positions are not used again, so this stays true.                   *)
HasName(id, ir) == id \in 1..Len(stored) /\ stored[id].name = NameOf[ir]

Addressed ==
  /\ \A i \in 1..Len(stored) : HasName(i, stored[i].ir)
  /\ \A d \in Deployers :
       /\ channel[d].kind = "find" => channel[d].name = NameOf[job[d].ir]
       /\ channel[d].kind = "hit" /\ channel[d].id # 0 => HasName(channel[d].id, job[d].ir)
       /\ channel[d].kind = "PUT" => HasName(channel[d].id, channel[d].ir)
       /\ channel[d].kind = "written" => channel[d].id \in 1..Len(stored)
  /\ \A w \in orphans : w.kind = "PUT" => HasName(w.id, w.ir)

(* No call has more than one write that may still be carried out, and none *)
(* once one was.                                                           *)
NotDone(d, call) == \A l \in log : l[1] # d \/ l[2] # call
NotLeft(d, call) == \A w \in orphans : w.client # d \/ w.call # call

OneWrite ==
  /\ \A l \in log : l[2] \in 1..calls[l[1]]
  /\ \A w \in orphans : w.call \in 1..calls[w.client] /\ NotDone(w.client, w.call)
  /\ \A v, w \in orphans : v.client = w.client /\ v.call = w.call => v = w
  /\ \A d \in Deployers : pc[d] # "idle" =>
       /\ calls[d] # 0
       /\ NotLeft(d, calls[d])
       /\ result[d] = Nothing
       /\ channel[d].kind # "written" => NotDone(d, calls[d])
       /\ channel[d].kind = "written" => <<d, calls[d], channel[d].id>> \in log
       /\ IsWrite(channel[d]) => channel[d].client = d /\ channel[d].call = calls[d]

(* What was listed is a prefix of the vault, however much was added since. *)
Reads(list, from) ==
  /\ from + Len(list) <= Len(vault)
  /\ \A i \in 1..Len(list) : list[i] = vault[from + i]

(* The oldest credential of a name.                                        *)
Oldest(name, id) ==
  /\ id \in 1..Len(vault)
  /\ vault[id].name = name
  /\ \A c \in 1..Len(vault) : vault[c].name = name => id <= c

Resolves(name, id) ==
  \/ \E m \in Maps : name \in DOMAIN m /\ m[name] = id
  \/ Oldest(name, id)

Fulfils(binding, ir) ==
  /\ {b[1] : b \in binding} = Needs[ir]
  /\ \A b \in binding : Resolves(b[1].name, b[2])

Bindings ==
  /\ \A i \in 1..Len(stored) : Fulfils(stored[i].binding, stored[i].ir)
  /\ \A w \in orphans : Fulfils(w.binding, w.ir)
  /\ \A d \in Deployers :
       /\ pc[d] = "list" => Reads(listing[d], 0)
       /\ channel[d].kind = "list" => channel[d].cursor = Len(listing[d])
       /\ channel[d].kind = "page" => Reads(channel[d].data, Len(listing[d]))
       /\ pc[d] = "lookup" => Fulfils(bound[d], job[d].ir)
       /\ IsWrite(channel[d]) => Fulfils(channel[d].binding, channel[d].ir)

IInv == TypeOK /\ Addressed /\ OneWrite /\ Bindings

-----------------------------------------------------------------------------
(* The least element of a set of natural numbers.                          *)
LEMMA MinIs ==
  ASSUME NEW S \in SUBSET Nat, NEW m \in S, \A x \in S : m <= x
  PROVE  Min(S) = m
<1> DEFINE Least(x) == x \in S /\ \A y \in S : x =< y
<1>1. Least(m)
  OBVIOUS
<1>2. \A x : Least(x) => x = m
  OBVIOUS
<1>3. Min(S) = CHOOSE x : Least(x)
  BY DEF Min
<1> HIDE DEF Least
<1>4. QED BY <1>1, <1>2, <1>3

LEMMA LeastExists ==
  ASSUME NEW S \in SUBSET Nat, S # {}
  PROVE  \E m \in S : \A x \in S : m <= x
<1> DEFINE R == OpToRel(<, Nat)
<1>1. \A x, y \in Nat : <<x, y>> \in R <=> x < y
  BY DEF OpToRel
<1>2. IsWellFoundedOn(R, Nat)
  BY NatLessThanWellFounded
<1> HIDE DEF R
<1>3. PICK m \in S : \A y \in S : <<y, m>> \notin R
  BY <1>2, WFMin
<1>4. \A y \in S : ~ (y < m)
  BY <1>1, <1>3, S \subseteq Nat, Zenon
<1>5. QED BY <1>4

LEMMA ByNameFinds ==
  ASSUME NEW list, Len(list) \in Nat, Len(vault) \in Nat, Reads(list, 0),
         NEW n \in DOMAIN by_name(list)
  PROVE  by_name(list)[n] \in Nat /\ Oldest(n, by_name(list)[n])
<1> DEFINE S == {i \in 1..Len(list) : list[i].name = n}
<1>1. S \in SUBSET Nat /\ S # {}
  BY DEF by_name
<1>2. PICK m \in S : \A x \in S : m <= x
  BY <1>1, LeastExists
<1>3. by_name(list)[n] = m
  BY <1>1, <1>2, MinIs DEF by_name
<1>4. Oldest(n, m)
  <2>1. m \in 1..Len(vault) /\ vault[m].name = n
    BY <1>2 DEF Reads
  <2>2. ASSUME NEW c \in 1..Len(vault), vault[c].name = n PROVE m <= c
    <3>1. CASE c \in 1..Len(list)
      BY <1>2, <2>2, <3>1 DEF Reads
    <3>2. CASE c \notin 1..Len(list)
      BY <1>2, <3>2
    <3>3. QED BY <3>1, <3>2
  <2>3. QED BY <2>1, <2>2 DEF Oldest
<1>5. QED BY <1>1, <1>3, <1>4

(* Two adjacent stretches of the vault are one stretch.                    *)
LEMMA ReadsOn ==
  ASSUME NEW S, vault \in Seq(S), NEW s \in Seq(S), NEW t \in Seq(S),
         Reads(s, 0), Reads(t, Len(s))
  PROVE  s \o t \in Seq(S) /\ Reads(s \o t, 0)
<1> DEFINE u == s \o t
<1>1. Len(s) \in Nat /\ Len(t) \in Nat /\ Len(vault) \in Nat
  OBVIOUS
<1>2. /\ u \in Seq(S)
      /\ Len(u) = Len(s) + Len(t)
      /\ \A i \in 1..Len(s) + Len(t) : u[i] = IF i <= Len(s) THEN s[i] ELSE t[i - Len(s)]
  BY ConcatProperties
<1>3. /\ Len(s) + Len(t) <= Len(vault)
      /\ \A i \in 1..Len(s) : s[i] = vault[0 + i]
      /\ \A i \in 1..Len(t) : t[i] = vault[Len(s) + i]
  BY DEF Reads
<1> HIDE DEF u
<1>4. ASSUME NEW i \in 1..Len(u) PROVE u[i] = vault[0 + i]
  <2>1. CASE i <= Len(s)
    BY <1>1, <1>2, <1>3, <2>1
  <2>2. CASE ~ (i <= Len(s))
    <3>1. i - Len(s) \in 1..Len(t) /\ Len(s) + (i - Len(s)) = 0 + i
      BY <1>1, <1>2, <2>2
    <3>2. QED BY <1>1, <1>2, <1>3, <2>2, <3>1
  <2>3. QED BY <2>1, <2>2
<1>5. Reads(u, 0)
  BY <1>1, <1>2, <1>3, <1>4 DEF Reads
<1>6. QED BY <1>2, <1>5 DEF u

(* What a call asks of the credential map or of the listing, and what the  *)
(* call does once it has it: it fails, or goes on with bindings that hold. *)
Good(resolved) ==
  \A n \in DOMAIN resolved : resolved[n] \in Nat /\ Resolves(n, resolved[n])

LEMMA MapsAreGood ==
  ASSUME NEW m \in Maps
  PROVE  Good(m)
BY DeployAssumption DEF Good, Resolves, Range

LEMMA ListingsAreGood ==
  ASSUME NEW list, Len(list) \in Nat, Len(vault) \in Nat, Reads(list, 0)
  PROVE  Good(by_name(list))
BY ByNameFinds DEF Good, Resolves

(* One step of a client, by what it makes of the client's own state.       *)
Move(d, p, m, b, r) ==
  /\ pc' = [pc EXCEPT ![d] = p]
  /\ channel' = [channel EXCEPT ![d] = m]
  /\ bound' = [bound EXCEPT ![d] = b]
  /\ result' = [result EXCEPT ![d] = r]
  /\ UNCHANGED instance

(* Binding ends the call, or hands bindings that hold to the next request. *)
Outcome(d, j, call) ==
  \/ Move(d, "idle", Silent, bound[d], Failed)
  \/ \E b \in SUBSET (Ref \X Nat) :
       /\ Fulfils(b, j.ir)
       /\ \/ Move(d, "lookup", [kind |-> "find", name |-> NameOf[j.ir]], b, Nothing)
          \/ Move(d, "write", WriteRequest(d, j, call, b, "POST", 0), b, Nothing)

LEMMA BindOutcome ==
  ASSUME NEW d, NEW j \in Job, NEW call, NEW resolved, Good(resolved),
         bound = [bound EXCEPT ![d] = bound[d]],
         Bind(d, j, call, resolved), UNCHANGED instance
  PROVE  Outcome(d, j, call)
<1> DEFINE B == {<<r, resolved[r.name]>> : r \in Needs[j.ir]}
<1>1. CASE \E r \in Needs[j.ir] : r.name \notin DOMAIN resolved
  <2>1. EndCall(d, Failed) /\ UNCHANGED bound
    BY <1>1 DEF Bind
  <2>2. QED BY <2>1 DEF EndCall, Ask, Move, Outcome
<1>2. CASE \A r \in Needs[j.ir] : r.name \in DOMAIN resolved
  <2>1. Proceed(d, j, call, B) /\ result' = [result EXCEPT ![d] = Nothing]
    BY <1>2 DEF Bind
  <2>2. Needs[j.ir] \subseteq Ref
    BY DEF Job, Ref
  <2>3. B \in SUBSET (Ref \X Nat)
    BY <1>2, <2>2 DEF Good
  <2>4. {b[1] : b \in B} = Needs[j.ir]
    <3>1. \A b \in B : b[1] \in Needs[j.ir]
      OBVIOUS
    <3>2. \A r \in Needs[j.ir] : <<r, resolved[r.name]>> \in B /\ <<r, resolved[r.name]>>[1] = r
      OBVIOUS
    <3>3. \A r \in Needs[j.ir] : \E b \in B : b[1] = r
      BY <3>2
    <3> HIDE DEF B
    <3>4. QED BY <3>1, <3>3
  <2>5. \A b \in B : Resolves(b[1].name, b[2])
    BY <1>2 DEF Good
  <2> HIDE DEF B
  <2>6. Fulfils(B, j.ir)
    BY <2>4, <2>5 DEF Fulfils
  <2>7. QED BY <2>1, <2>3, <2>6 DEF Proceed, Ask, Move, Outcome
<1>3. QED BY <1>1, <1>2

LEMMA CallCases ==
  ASSUME TypeOK, NEW d \in Deployers, NEW j \in Job, Call(d, j)
  PROVE  /\ pc[d] = "idle"
         /\ calls' = [calls EXCEPT ![d] = calls[d] + 1]
         /\ job' = [job EXCEPT ![d] = j]
         /\ listing' = [listing EXCEPT ![d] = <<>>]
         /\ UNCHANGED orphans
         /\ \/ Outcome(d, j, calls[d] + 1)
            \/ Move(d, "list", [kind |-> "list", cursor |-> 0], bound[d], Nothing)
<1>1. bound = [bound EXCEPT ![d] = bound[d]]
  BY DEF TypeOK
<1>2. /\ pc[d] = "idle"
      /\ calls' = [calls EXCEPT ![d] = calls[d] + 1]
      /\ calls'[d] = calls[d] + 1
      /\ job' = [job EXCEPT ![d] = j]
      /\ listing' = [listing EXCEPT ![d] = <<>>]
      /\ UNCHANGED <<orphans, instance>>
  BY DEF Call, TypeOK
<1>3. CASE j.ir \in Tampered \/ j.mode \notin {"create", "upsert"}
  <2>1. EndCall(d, Failed) /\ UNCHANGED bound
    BY <1>3 DEF Call
  <2>2. QED BY <1>1, <1>2, <2>1 DEF EndCall, Ask, Move, Outcome
<1>4. CASE /\ ~ (j.ir \in Tampered \/ j.mode \notin {"create", "upsert"})
           /\ Needs[j.ir] = {} \/ j.map # <<>>
  <2>1. Bind(d, j, calls[d] + 1, j.map)
    BY <1>2, <1>4 DEF Call
  <2>2. Good(j.map)
    BY MapsAreGood DEF Job
  <2>3. QED BY <1>1, <1>2, <2>1, <2>2, BindOutcome
<1>5. CASE /\ ~ (j.ir \in Tampered \/ j.mode \notin {"create", "upsert"})
           /\ ~ (Needs[j.ir] = {} \/ j.map # <<>>)
  <2>1. /\ Ask(d, "list", [kind |-> "list", cursor |-> 0])
        /\ result' = [result EXCEPT ![d] = Nothing]
        /\ UNCHANGED bound
    BY <1>5 DEF Call
  <2>2. QED BY <1>1, <1>2, <2>1 DEF Ask, Move
<1>6. QED BY <1>3, <1>4, <1>5

LEMMA PageCases ==
  ASSUME TypeOK, Bindings, NEW d \in Deployers, ReceivePage(d)
  PROVE  \E seen \in Seq(Ref) :
           /\ pc[d] = "list"
           /\ Reads(seen, 0)
           /\ listing' = [listing EXCEPT ![d] = seen]
           /\ UNCHANGED <<orphans, arguments>>
           /\ \/ Outcome(d, job[d], calls[d])
              \/ Move(d, "list", [kind |-> "list", cursor |-> Len(seen)], bound[d], result[d])
<1> DEFINE seen == listing[d] \o channel[d].data
<1>1. /\ bound = [bound EXCEPT ![d] = bound[d]]
      /\ result = [result EXCEPT ![d] = result[d]]
      /\ job[d] \in Job
      /\ listing[d] \in Seq(Ref)
      /\ vault \in Seq(Ref)
  BY DEF TypeOK
<1>2. channel[d].data \in Seq(Ref)
  <2>1. channel[d] \in Message /\ channel[d].kind = "page"
    BY DEF TypeOK, ReceivePage
  <2>2. QED BY <2>1 DEF Message, Silent, Write
<1>3. seen \in Seq(Ref) /\ Reads(seen, 0)
  <2>1. Reads(listing[d], 0) /\ Reads(channel[d].data, Len(listing[d]))
    BY DEF Bindings, ReceivePage
  <2>2. QED BY <1>1, <1>2, <2>1, ReadsOn
<1>4. /\ pc[d] = "list"
      /\ listing' = [listing EXCEPT ![d] = seen]
      /\ UNCHANGED <<orphans, arguments, instance>>
      /\ \/ /\ Ask(d, "list", [kind |-> "list", cursor |-> Len(seen)])
            /\ UNCHANGED <<bound, result>>
         \/ Bind(d, job[d], calls[d], by_name(seen))
  BY DEF ReceivePage
<1> HIDE DEF seen
<1>5. Good(by_name(seen))
  BY <1>1, <1>3, ListingsAreGood
<1>6. CASE Bind(d, job[d], calls[d], by_name(seen))
  BY <1>1, <1>3, <1>4, <1>5, <1>6, BindOutcome
<1>7. CASE /\ Ask(d, "list", [kind |-> "list", cursor |-> Len(seen)])
           /\ UNCHANGED <<bound, result>>
  BY <1>1, <1>3, <1>4, <1>7 DEF Ask, Move
<1>8. QED BY <1>4, <1>6, <1>7

-----------------------------------------------------------------------------
(* A write that is carried out changes one workflow, or adds one.          *)
LEMMA CarryOutEffects ==
  ASSUME TypeOK, NEW w \in Write, w.kind = "PUT" => HasName(w.id, w.ir), CarryOut(w)
  PROVE  /\ stored' \in Seq(Document)
         /\ Len(stored) <= Len(stored')
         /\ Target(w) \in 1..Len(stored')
         /\ stored'[Target(w)] = [name |-> NameOf[w.ir], ir |-> w.ir, binding |-> w.binding]
         /\ \A i \in 1..Len(stored') :
              i # Target(w) => i \in 1..Len(stored) /\ stored'[i] = stored[i]
         /\ log' = log \cup {<<w.client, w.call, Target(w)>>}
         /\ UNCHANGED <<vault, removed>>
<1> DEFINE document == [name |-> NameOf[w.ir], ir |-> w.ir, binding |-> w.binding]
<1>1. document \in Document
  BY DEF Write, Document
<1>2. stored \in Seq(Document) /\ Len(stored) \in Nat
  BY DEF TypeOK
<1>3. /\ stored' = IF w.kind = "POST" THEN Append(stored, document)
                   ELSE [stored EXCEPT ![w.id] = document]
      /\ log' = log \cup {<<w.client, w.call, Target(w)>>}
      /\ UNCHANGED <<vault, removed>>
  BY DEF CarryOut
<1> HIDE DEF document
<1>4. CASE w.kind = "POST"
  <2>1. Target(w) = Len(stored) + 1
    BY <1>4 DEF Target
  <2>2. /\ stored' \in Seq(Document)
        /\ Len(stored') = Len(stored) + 1
        /\ \A i \in 1..Len(stored) : stored'[i] = stored[i]
        /\ stored'[Len(stored) + 1] = document
    BY <1>1, <1>2, <1>3, <1>4, AppendProperties
  <2>3. \A i \in 1..Len(stored') : i # Target(w) => i \in 1..Len(stored)
    BY <1>2, <2>1, <2>2
  <2>4. QED BY <1>2, <1>3, <2>1, <2>2, <2>3 DEF document
<1>5. CASE w.kind = "PUT"
  <2>1. Target(w) = w.id /\ w.id \in 1..Len(stored)
    BY <1>5 DEF Target, HasName
  <2>2. /\ stored' \in Seq(Document)
        /\ Len(stored') = Len(stored)
        /\ \A i \in 1..Len(stored) : stored'[i] = IF i = w.id THEN document ELSE stored[i]
    BY <1>1, <1>2, <1>3, <1>5, <2>1, ExceptSeq
  <2>3. QED BY <1>2, <1>3, <2>1, <2>2 DEF document
<1>6. QED BY <1>4, <1>5 DEF Write

LEMMA CarryOutTypes ==
  ASSUME TypeOK, NEW w \in Write, w.kind = "PUT" => HasName(w.id, w.ir), CarryOut(w)
  PROVE  /\ stored' \in Seq(Document) /\ vault' = vault
         /\ Target(w) \in Nat
         /\ log' \subseteq Deployers \X Nat \X (1..Len(stored'))
         /\ removed' \subseteq 1..Len(stored')
         /\ 1..Len(stored) \subseteq 1..Len(stored')
<1>1. /\ stored' \in Seq(Document) /\ Len(stored) <= Len(stored')
      /\ Target(w) \in 1..Len(stored') /\ UNCHANGED <<vault, removed>>
      /\ log' = log \cup {<<w.client, w.call, Target(w)>>}
  BY CarryOutEffects
<1>2. Len(stored) \in Nat /\ Len(stored') \in Nat
  BY <1>1 DEF TypeOK
<1>3. 1..Len(stored) \subseteq 1..Len(stored')
  BY <1>1, <1>2
<1>4. log' \subseteq Deployers \X Nat \X (1..Len(stored'))
  <2>1. Deployers \X Nat \X (1..Len(stored)) \subseteq Deployers \X Nat \X (1..Len(stored'))
    BY <1>3
  <2>2. <<w.client, w.call, Target(w)>> \in Deployers \X Nat \X (1..Len(stored'))
    BY <1>1 DEF Write
  <2>3. QED BY <1>1, <2>1, <2>2 DEF TypeOK
<1>5. removed' \subseteq 1..Len(stored')
  BY <1>1, <1>3 DEF TypeOK
<1>6. QED BY <1>1, <1>2, <1>3, <1>4, <1>5

(* No step takes the name of a workflow away.                              *)
LEMMA NamesStay ==
  ASSUME TypeOK, NEW w \in Write, w.kind = "PUT" => HasName(w.id, w.ir), CarryOut(w)
  PROVE  \A id, ir : HasName(id, ir) => HasName(id, ir)'
<1>1. /\ Len(stored) <= Len(stored')
      /\ stored'[Target(w)] = [name |-> NameOf[w.ir], ir |-> w.ir, binding |-> w.binding]
      /\ \A i \in 1..Len(stored') :
           i # Target(w) => i \in 1..Len(stored) /\ stored'[i] = stored[i]
      /\ stored' \in Seq(Document)
  BY CarryOutEffects
<1>2. Len(stored) \in Nat /\ Len(stored') \in Nat
  BY <1>1 DEF TypeOK
<1> SUFFICES ASSUME NEW id, NEW ir, HasName(id, ir) PROVE HasName(id, ir)'
  OBVIOUS
<1>3. id \in 1..Len(stored) /\ stored[id].name = NameOf[ir] /\ id \in 1..Len(stored')
  BY <1>1, <1>2 DEF HasName
<1>4. CASE id # Target(w)
  BY <1>1, <1>3, <1>4 DEF HasName
<1>5. CASE id = Target(w)
  <2>1. stored'[id].name = NameOf[w.ir]
    BY <1>1, <1>5
  <2>2. w.kind = "PUT" /\ id = w.id
    BY <1>2, <1>3, <1>5 DEF Target, Write
  <2>3. QED BY <1>3, <2>1, <2>2 DEF HasName
<1>6. QED BY <1>4, <1>5

(* The kind of a message tells its fields.                                 *)
LEMMA Kinds ==
  ASSUME NEW m \in Message
  PROVE  /\ IsWrite(m) => m \in Write
         /\ m.kind = "list" => m.cursor \in Nat
         /\ m.kind = "page" => m.data \in Seq(Ref)
         /\ m.kind = "find" => m.name \in {NameOf[i] : i \in IRs}
         /\ m.kind \in {"hit", "written"} => m.id \in Nat
<1>1. CASE m = Silent
  BY <1>1 DEF Silent, IsWrite
<1>2. CASE m \in Write
  <2>1. m.kind \in {"PUT", "POST"}
    BY <1>2 DEF Write
  <2>2. QED BY <1>2, <2>1
<1>3. CASE m \in [kind : {"list"}, cursor : Nat]
  BY <1>3 DEF IsWrite
<1>4. CASE m \in [kind : {"page"}, data : Seq(Ref), more : BOOLEAN]
  BY <1>4 DEF IsWrite
<1>5. CASE m \in [kind : {"find"}, name : {NameOf[i] : i \in IRs}]
  BY <1>5 DEF IsWrite
<1>6. CASE m \in [kind : {"hit", "written"}, id : Nat]
  BY <1>6 DEF IsWrite
<1>7. QED BY <1>1, <1>2, <1>3, <1>4, <1>5, <1>6 DEF Message

LEMMA MoveTypes ==
  ASSUME TypeOK, NEW d \in Deployers,
         NEW p \in {"idle", "list", "lookup", "write"}, NEW m \in Message, m.kind \in Awaited[p],
         NEW b \in SUBSET (Ref \X Nat), NEW r \in {Nothing, Failed} \cup (1..Len(stored)),
         Move(d, p, m, b, r),
         orphans' \subseteq Write, calls' \in [Deployers -> Nat], job' \in [Deployers -> Job],
         listing' \in [Deployers -> Seq(Ref)]
  PROVE  TypeOK'
<1>1. UNCHANGED <<vault, stored, removed, log>>
  BY DEF Move, instance
<1>2. /\ pc' \in [Deployers -> {"idle", "list", "lookup", "write"}]
      /\ bound' \in [Deployers -> SUBSET (Ref \X Nat)]
      /\ channel' \in [Deployers -> Message]
      /\ result' \in [Deployers -> {Nothing, Failed} \cup (1..Len(stored))]
  BY DEF Move, TypeOK
<1>3. \A e \in Deployers : channel'[e].kind \in Awaited[pc'[e]]
  BY DEF Move, TypeOK
<1>4. QED BY <1>1, <1>2, <1>3 DEF TypeOK, Message, Ref, Job, Document, Write, Awaited, Silent

LEMMA OutcomeTypes ==
  ASSUME TypeOK, NEW d \in Deployers, NEW j \in Job, NEW call \in Nat, Outcome(d, j, call),
         orphans' \subseteq Write, calls' \in [Deployers -> Nat], job' \in [Deployers -> Job],
         listing' \in [Deployers -> Seq(Ref)]
  PROVE  TypeOK'
<1>1. CASE Move(d, "idle", Silent, bound[d], Failed)
  <2>1. Silent \in Message /\ Silent.kind \in Awaited["idle"]
    BY DEF Message, Silent, Awaited
  <2>2. bound[d] \in SUBSET (Ref \X Nat)
    BY DEF TypeOK
  <2>3. QED BY <1>1, <2>1, <2>2, MoveTypes
<1>2. ASSUME NEW b \in SUBSET (Ref \X Nat),
             Move(d, "lookup", [kind |-> "find", name |-> NameOf[j.ir]], b, Nothing)
      PROVE  TypeOK'
  <2> DEFINE m == [kind |-> "find", name |-> NameOf[j.ir]]
  <2>1. m \in Message /\ m.kind \in Awaited["lookup"]
    BY DEF Message, Awaited, Job
  <2> HIDE DEF m
  <2>2. QED BY <1>2, <2>1, MoveTypes DEF m
<1>3. ASSUME NEW b \in SUBSET (Ref \X Nat),
             Move(d, "write", WriteRequest(d, j, call, b, "POST", 0), b, Nothing)
      PROVE  TypeOK'
  <2> DEFINE m == WriteRequest(d, j, call, b, "POST", 0)
  <2>1. m \in Write
    BY DEF Job, Write, WriteRequest
  <2> HIDE DEF m
  <2>2. m \in Message /\ m.kind \in Awaited["write"]
    BY <2>1 DEF Message, Awaited, Write
  <2>3. QED BY <1>3, <2>2, MoveTypes DEF m
<1>4. QED BY <1>1, <1>2, <1>3 DEF Outcome

LEMMA TypeClient ==
  ASSUME TypeOK, Addressed, Bindings, NEW d \in Deployers,
         (\E j \in Job : Call(d, j)) \/ Client(d)
  PROVE  TypeOK'
<1>1. ASSUME NEW j \in Job, Call(d, j) PROVE TypeOK'
  <2>1. /\ orphans' \subseteq Write
        /\ calls' \in [Deployers -> Nat]
        /\ job' \in [Deployers -> Job]
        /\ listing' \in [Deployers -> Seq(Ref)]
        /\ calls[d] + 1 \in Nat
    <3>1. /\ orphans' = orphans
          /\ calls' = [calls EXCEPT ![d] = calls[d] + 1]
          /\ job' = [job EXCEPT ![d] = j]
          /\ listing' = [listing EXCEPT ![d] = <<>>]
      BY <1>1, CallCases
    <3>2. QED BY <3>1 DEF TypeOK
  <2>2. CASE Outcome(d, j, calls[d] + 1)
    BY <2>1, <2>2, OutcomeTypes
  <2>3. CASE Move(d, "list", [kind |-> "list", cursor |-> 0], bound[d], Nothing)
    <3> DEFINE m == [kind |-> "list", cursor |-> 0]
    <3>1. m \in Message /\ m.kind \in Awaited["list"]
      BY DEF Message, Awaited
    <3>2. bound[d] \in SUBSET (Ref \X Nat)
      BY DEF TypeOK
    <3> HIDE DEF m
    <3>3. QED BY <2>1, <2>3, <3>1, <3>2, MoveTypes DEF m
  <2>4. QED BY <1>1, <2>2, <2>3, CallCases
<1>2. ASSUME ReceivePage(d) PROVE TypeOK'
  <2>1. PICK seen \in Seq(Ref) :
           /\ listing' = [listing EXCEPT ![d] = seen]
           /\ UNCHANGED <<orphans, arguments>>
           /\ \/ Outcome(d, job[d], calls[d])
              \/ Move(d, "list", [kind |-> "list", cursor |-> Len(seen)], bound[d], result[d])
    BY <1>2, PageCases
  <2>2. /\ orphans' \subseteq Write
        /\ calls' \in [Deployers -> Nat]
        /\ job' \in [Deployers -> Job]
        /\ listing' \in [Deployers -> Seq(Ref)]
        /\ calls[d] \in Nat /\ job[d] \in Job
        /\ bound[d] \in SUBSET (Ref \X Nat)
        /\ result[d] \in {Nothing, Failed} \cup (1..Len(stored))
    BY <2>1 DEF TypeOK, arguments
  <2>3. CASE Outcome(d, job[d], calls[d])
    BY <2>2, <2>3, OutcomeTypes
  <2>4. CASE Move(d, "list", [kind |-> "list", cursor |-> Len(seen)], bound[d], result[d])
    <3> DEFINE m == [kind |-> "list", cursor |-> Len(seen)]
    <3>1. m \in Message /\ m.kind \in Awaited["list"]
      BY DEF Message, Awaited
    <3> HIDE DEF m
    <3>2. QED BY <2>2, <2>4, <3>1, MoveTypes DEF m
  <2>5. QED BY <2>1, <2>3, <2>4
<1>3. ASSUME ReceiveLookup(d) PROVE TypeOK'
  <2> DEFINE m == WriteRequest(d, job[d], calls[d], bound[d],
                               IF channel[d].id # 0 THEN "PUT" ELSE "POST", channel[d].id)
  <2>1. channel[d].id \in Nat
    BY <1>3, Kinds DEF ReceiveLookup, TypeOK
  <2>2. /\ calls[d] \in Nat /\ job[d] \in Job
        /\ bound[d] \in SUBSET (Ref \X Nat)
        /\ result[d] \in {Nothing, Failed} \cup (1..Len(stored))
    BY DEF TypeOK
  <2>3. m \in Write
    BY <2>1, <2>2 DEF Write, WriteRequest, Job
  <2>4. Move(d, "write", m, bound[d], result[d])
    BY <1>3 DEF ReceiveLookup, Ask, Move, TypeOK
  <2> HIDE DEF m
  <2>5. m \in Message /\ m.kind \in Awaited["write"]
    BY <2>3 DEF Message, Awaited, Write
  <2>6. QED BY <1>3, <2>2, <2>4, <2>5, MoveTypes DEF ReceiveLookup, arguments, TypeOK
<1>4. ASSUME ReceiveWritten(d) PROVE TypeOK'
  <2>1. channel[d].id \in 1..Len(stored)
    BY <1>4 DEF ReceiveWritten, Addressed
  <2>2. Move(d, "idle", Silent, bound[d], channel[d].id)
    BY <1>4 DEF ReceiveWritten, EndCall, Ask, Move, TypeOK
  <2>3. Silent \in Message /\ Silent.kind \in Awaited["idle"]
    BY DEF Message, Silent, Awaited
  <2>4. QED BY <1>4, <2>1, <2>2, <2>3, MoveTypes DEF ReceiveWritten, arguments, TypeOK
<1>5. ASSUME Fail(d) PROVE TypeOK'
  <2>1. Move(d, "idle", Silent, bound[d], Failed)
    BY <1>5 DEF Fail, EndCall, Ask, Move, TypeOK
  <2>2. Silent \in Message /\ Silent.kind \in Awaited["idle"]
    BY DEF Message, Silent, Awaited
  <2>3. channel[d].kind \in {"PUT", "POST"} => channel[d] \in Write
    BY Kinds DEF TypeOK, IsWrite
  <2>4. orphans' \subseteq Write
    BY <1>5, <2>3 DEF Fail, TypeOK
  <2>5. QED BY <1>5, <2>1, <2>2, <2>4, MoveTypes DEF Fail, arguments, TypeOK
<1>6. QED BY <1>1, <1>2, <1>3, <1>4, <1>5 DEF Client

(* A page continues what was listed.                                       *)
LEMMA PageReads ==
  ASSUME TypeOK, NEW cursor \in Nat, cursor <= Len(vault)
  PROVE  Page(cursor) \in Seq(Ref) /\ Reads(Page(cursor), cursor)
<1> DEFINE n == IF cursor + PageSize < Len(vault) THEN cursor + PageSize ELSE Len(vault)
<1>1. vault \in Seq(Ref) /\ Len(vault) \in Nat /\ PageSize \in Nat
  BY DeployAssumption DEF TypeOK
<1>2. n \in Nat /\ n <= Len(vault) /\ cursor <= n /\ cursor + 1 \in Int
  BY <1>1
<1>3. Page(cursor) = SubSeq(vault, cursor + 1, n)
  BY DEF Page
<1> HIDE DEF n
<1>4. \A i \in cursor + 1..n : vault[i] \in Ref
  BY <1>1, <1>2
<1>5. /\ Page(cursor) \in Seq(Ref)
      /\ Len(Page(cursor)) = IF cursor + 1 <= n THEN n - (cursor + 1) + 1 ELSE 0
      /\ \A i \in 1..n - (cursor + 1) + 1 : Page(cursor)[i] = vault[(cursor + 1) + i - 1]
  BY <1>2, <1>3, <1>4, SubSeqProperties
<1>6. Len(Page(cursor)) = n - cursor
  BY <1>2, <1>5
<1>7. \A i \in 1..Len(Page(cursor)) : Page(cursor)[i] = vault[cursor + i]
  BY <1>2, <1>5, <1>6
<1>8. QED BY <1>1, <1>2, <1>5, <1>6, <1>7 DEF Reads

(* The answer of the instance to what a client asked.                      *)
LEMMA AnswerTypes ==
  ASSUME TypeOK, NEW d \in Deployers, NEW a \in Message, a.kind \in Awaited[pc[d]], Answer(d, a)
  PROVE  /\ channel' \in [Deployers -> Message]
         /\ \A e \in Deployers : channel'[e].kind \in Awaited[pc[e]]
BY DEF Answer, TypeOK

LEMMA TypeServe ==
  ASSUME TypeOK, Addressed, Bindings, NEW d \in Deployers, Serve(d)
  PROVE  TypeOK'
<1>1. /\ channel[d] \in Message
      /\ channel[d].kind \in Awaited[pc[d]]
      /\ pc[d] \in {"idle", "list", "lookup", "write"}
      /\ UNCHANGED <<orphans, calls, job, pc, listing, bound, result>>
  BY DEF TypeOK, Serve, arguments
<1>2. ASSUME ServeList(d) PROVE TypeOK'
  <2> DEFINE page == Page(channel[d].cursor)
             a == [kind |-> "page", data |-> page, more |-> channel[d].cursor + Len(page) < Len(vault)]
  <2>1. pc[d] = "list"
    BY <1>1, <1>2 DEF ServeList, Awaited
  <2>2. channel[d].cursor \in Nat /\ channel[d].cursor <= Len(vault)
    <3>1. channel[d].cursor \in Nat
      BY <1>1, <1>2, Kinds DEF ServeList
    <3>2. Reads(listing[d], 0) /\ channel[d].cursor = Len(listing[d])
      BY <1>2, <2>1 DEF ServeList, Bindings
    <3>3. QED BY <3>1, <3>2 DEF Reads
  <2>3. page \in Seq(Ref)
    BY <2>2, PageReads
  <2> HIDE DEF page
  <2>4. a \in [kind : {"page"}, data : Seq(Ref), more : BOOLEAN]
    BY <2>3
  <2>5. a \in Message /\ a.kind \in Awaited[pc[d]]
    BY <2>1, <2>4 DEF Message, Awaited
  <2>6. Answer(d, a) /\ UNCHANGED instance
    BY <1>2 DEF ServeList, page
  <2> HIDE DEF a
  <2>7. QED BY <1>1, <2>5, <2>6, AnswerTypes
             DEF TypeOK, instance, Message, Ref, Job, Document, Write, Awaited, Silent
<1>3. ASSUME ServeFind(d) PROVE TypeOK'
  <2>1. PICK id : /\ id \in (IF Matching(channel[d].name) = {} THEN {0} ELSE Matching(channel[d].name))
                  /\ Answer(d, [kind |-> "hit", id |-> id])
    BY <1>3 DEF ServeFind
  <2>2. id \in Nat
    BY <2>1 DEF Matching
  <2>3. pc[d] = "lookup"
    BY <1>1, <1>3 DEF ServeFind, Awaited
  <2> DEFINE a == [kind |-> "hit", id |-> id]
  <2>4. a \in Message /\ a.kind \in Awaited[pc[d]]
    BY <2>2, <2>3 DEF Message, Awaited
  <2>5. Answer(d, a) /\ UNCHANGED instance
    BY <1>3, <2>1 DEF ServeFind
  <2> HIDE DEF a
  <2>6. QED BY <1>1, <2>4, <2>5, AnswerTypes
             DEF TypeOK, instance, Message, Ref, Job, Document, Write, Awaited, Silent
<1>4. ASSUME ServeWrite(d) PROVE TypeOK'
  <2> DEFINE w == channel[d]
             a == [kind |-> "written", id |-> Target(w)]
  <2>1. /\ w \in Write /\ (w.kind = "PUT" => HasName(w.id, w.ir))
        /\ CarryOut(w) /\ Answer(d, a) /\ pc[d] = "write"
    BY <1>1, <1>4, Kinds DEF ServeWrite, Possible, Addressed, IsWrite, Awaited
  <2> HIDE DEF w
  <2>2. /\ stored' \in Seq(Document) /\ vault' = vault
        /\ Target(w) \in Nat
        /\ log' \subseteq Deployers \X Nat \X (1..Len(stored'))
        /\ removed' \subseteq 1..Len(stored')
        /\ 1..Len(stored) \subseteq 1..Len(stored')
    BY <2>1, CarryOutTypes
  <2>3. a \in Message /\ a.kind \in Awaited[pc[d]]
    BY <2>1, <2>2 DEF Message, Awaited
  <2> HIDE DEF a
  <2>4. /\ channel' \in [Deployers -> Message]
        /\ \A e \in Deployers : channel'[e].kind \in Awaited[pc[e]]
    BY <2>1, <2>3, AnswerTypes
  <2>5. result' \in [Deployers -> {Nothing, Failed} \cup (1..Len(stored'))]
    BY <1>1, <2>2 DEF TypeOK
  <2>6. QED BY <1>1, <2>2, <2>4, <2>5
             DEF TypeOK, Message, Ref, Job, Document, Write, Awaited, Silent
<1>5. QED BY <1>2, <1>3, <1>4 DEF Serve

LEMMA TypeElsewhere ==
  ASSUME TypeOK, Addressed, ServeOrphan \/ AddCredential \/ Remove
  PROVE  TypeOK'
<1>1. ASSUME ServeOrphan PROVE TypeOK'
  <2>1. PICK w \in orphans :
          /\ orphans' = orphans \ {w}
          /\ IF Possible(w) THEN CarryOut(w) ELSE UNCHANGED instance
    BY <1>1 DEF ServeOrphan
  <2>2. w \in Write /\ (w.kind = "PUT" => HasName(w.id, w.ir))
    BY DEF TypeOK, Addressed
  <2>3. UNCHANGED <<calls, job, pc, listing, bound, channel, result>>
    BY <1>1 DEF ServeOrphan, arguments
  <2>4. CASE Possible(w)
    <3>1. CarryOut(w)
      BY <2>1, <2>4
    <3>2. /\ stored' \in Seq(Document) /\ vault' = vault
          /\ log' \subseteq Deployers \X Nat \X (1..Len(stored'))
          /\ removed' \subseteq 1..Len(stored')
          /\ 1..Len(stored) \subseteq 1..Len(stored')
      BY <2>2, <3>1, CarryOutTypes
    <3>3. result' \in [Deployers -> {Nothing, Failed} \cup (1..Len(stored'))]
      BY <2>3, <3>2 DEF TypeOK
    <3>4. QED BY <2>1, <2>3, <3>2, <3>3
               DEF TypeOK, Message, Ref, Job, Document, Write, Awaited, Silent
  <2>5. CASE ~ Possible(w)
    BY <2>1, <2>3, <2>5
    DEF TypeOK, instance, Message, Ref, Job, Document, Write, Awaited, Silent
  <2>6. QED BY <2>4, <2>5
<1>2. ASSUME AddCredential PROVE TypeOK'
  <2>1. vault' \in Seq(Ref)
    BY <1>2 DEF AddCredential, TypeOK
  <2>2. QED BY <1>2, <2>1
             DEF AddCredential, TypeOK, arguments, Message, Ref, Job, Document, Write, Awaited, Silent
<1>3. ASSUME Remove PROVE TypeOK'
  <2>1. removed' \subseteq 1..Len(stored)
    BY <1>3 DEF Remove, TypeOK
  <2>2. QED BY <1>3, <2>1
             DEF Remove, TypeOK, arguments, Message, Ref, Job, Document, Write, Awaited, Silent
<1>4. QED BY <1>1, <1>2, <1>3

-----------------------------------------------------------------------------
(* Ids stand for workflows of the right name.                              *)

(* A step that stores nothing: only the messages matter.                   *)
LEMMA MoveAddressed ==
  ASSUME TypeOK, Addressed, NEW d \in Deployers, NEW p, NEW m, NEW b, NEW r,
         Move(d, p, m, b, r),
         \A e \in Deployers \ {d} : job'[e] = job[e],
         m.kind = "find" => m.name = NameOf[job'[d].ir],
         m.kind # "hit" /\ m.kind # "written",
         m.kind = "PUT" => HasName(m.id, m.ir),
         \A w \in orphans' : w.kind = "PUT" => HasName(w.id, w.ir)
  PROVE  Addressed'
<1>1. stored' = stored
  BY DEF Move, instance
<1>2. \A id, ir : HasName(id, ir)' <=> HasName(id, ir)
  BY <1>1 DEF HasName
<1>3. \A e \in Deployers : channel'[e] = IF e = d THEN m ELSE channel[e]
  BY DEF Move, TypeOK
<1>4. QED BY <1>1, <1>2, <1>3 DEF Addressed

LEMMA OutcomeAddressed ==
  ASSUME TypeOK, Addressed, NEW d \in Deployers, NEW j \in Job, NEW call, Outcome(d, j, call),
         \A e \in Deployers \ {d} : job'[e] = job[e], job'[d] = j, orphans' = orphans
  PROVE  Addressed'
<1>1. CASE Move(d, "idle", Silent, bound[d], Failed)
  BY <1>1, MoveAddressed DEF Silent, Addressed
<1>2. ASSUME NEW b \in SUBSET (Ref \X Nat),
             Move(d, "lookup", [kind |-> "find", name |-> NameOf[j.ir]], b, Nothing)
      PROVE  Addressed'
  BY <1>2, MoveAddressed DEF Addressed
<1>3. ASSUME NEW b \in SUBSET (Ref \X Nat),
             Move(d, "write", WriteRequest(d, j, call, b, "POST", 0), b, Nothing)
      PROVE  Addressed'
  BY <1>3, MoveAddressed DEF WriteRequest, Addressed
<1>4. QED BY <1>1, <1>2, <1>3 DEF Outcome

LEMMA AddressedClient ==
  ASSUME TypeOK, Addressed, Bindings, NEW d \in Deployers,
         (\E j \in Job : Call(d, j)) \/ Client(d)
  PROVE  Addressed'
<1> USE DEF Addressed
<1>1. ASSUME NEW j \in Job, Call(d, j) PROVE Addressed'
  <2>1. /\ \A e \in Deployers \ {d} : job'[e] = job[e]
        /\ job'[d] = j
        /\ orphans' = orphans
    BY <1>1, CallCases DEF TypeOK
  <2>2. CASE Outcome(d, j, calls[d] + 1)
    BY <2>1, <2>2, OutcomeAddressed
  <2>3. CASE Move(d, "list", [kind |-> "list", cursor |-> 0], bound[d], Nothing)
    BY <2>1, <2>3, MoveAddressed
  <2>4. QED BY <1>1, <2>2, <2>3, CallCases
<1>2. ASSUME ReceivePage(d) PROVE Addressed'
  <2>1. PICK seen \in Seq(Ref) :
           /\ UNCHANGED <<orphans, arguments>>
           /\ \/ Outcome(d, job[d], calls[d])
              \/ Move(d, "list", [kind |-> "list", cursor |-> Len(seen)], bound[d], result[d])
    BY <1>2, PageCases
  <2>2. job' = job /\ job[d] \in Job /\ orphans' = orphans
    BY <2>1 DEF arguments, TypeOK
  <2>3. CASE Outcome(d, job[d], calls[d])
    BY <2>2, <2>3, OutcomeAddressed
  <2>4. CASE Move(d, "list", [kind |-> "list", cursor |-> Len(seen)], bound[d], result[d])
    BY <2>2, <2>4, MoveAddressed
  <2>5. QED BY <2>1, <2>3, <2>4
<1>3. ASSUME ReceiveLookup(d) PROVE Addressed'
  <2> DEFINE m == WriteRequest(d, job[d], calls[d], bound[d],
                               IF channel[d].id # 0 THEN "PUT" ELSE "POST", channel[d].id)
  <2>1. Move(d, "write", m, bound[d], result[d])
    BY <1>3 DEF ReceiveLookup, Ask, Move, TypeOK
  <2>2. m.kind \in {"PUT", "POST"} /\ (m.kind = "PUT" => HasName(m.id, m.ir))
    BY <1>3 DEF ReceiveLookup, WriteRequest
  <2>3. job' = job /\ orphans' = orphans
    BY <1>3 DEF ReceiveLookup, arguments
  <2> HIDE DEF m
  <2>4. QED BY <2>1, <2>2, <2>3, MoveAddressed
<1>4. ASSUME ReceiveWritten(d) PROVE Addressed'
  <2>1. Move(d, "idle", Silent, bound[d], channel[d].id)
    BY <1>4 DEF ReceiveWritten, EndCall, Ask, Move, TypeOK
  <2>2. QED BY <1>4, <2>1, MoveAddressed DEF ReceiveWritten, arguments, Silent
<1>5. ASSUME Fail(d) PROVE Addressed'
  <2>1. Move(d, "idle", Silent, bound[d], Failed)
    BY <1>5 DEF Fail, EndCall, Ask, Move, TypeOK
  <2>2. \A w \in orphans' : w.kind = "PUT" => HasName(w.id, w.ir)
    BY <1>5 DEF Fail
  <2>3. QED BY <1>5, <2>1, <2>2, MoveAddressed DEF Fail, arguments, Silent
<1>6. QED BY <1>1, <1>2, <1>3, <1>4, <1>5 DEF Client

(* A write keeps every id that is held, and its own document has its name. *)
LEMMA CarryOutAddressed ==
  ASSUME TypeOK, Addressed, NEW w \in Write, w.kind = "PUT" => HasName(w.id, w.ir), CarryOut(w)
  PROVE  /\ \A id, ir : HasName(id, ir) => HasName(id, ir)'
         /\ \A i \in 1..Len(stored') : HasName(i, stored[i].ir)'
<1>1. \A id, ir : HasName(id, ir) => HasName(id, ir)'
  BY NamesStay
<1>2. /\ stored'[Target(w)] = [name |-> NameOf[w.ir], ir |-> w.ir, binding |-> w.binding]
      /\ \A i \in 1..Len(stored') :
           i # Target(w) => i \in 1..Len(stored) /\ stored'[i] = stored[i]
  BY CarryOutEffects
<1>3. ASSUME NEW i \in 1..Len(stored') PROVE HasName(i, stored[i].ir)'
  <2>1. CASE i = Target(w)
    BY <1>2, <2>1 DEF HasName
  <2>2. CASE i # Target(w)
    <3>1. stored'[i] = stored[i] /\ HasName(i, stored[i].ir)
      BY <1>2, <2>2 DEF Addressed
    <3>2. QED BY <3>1 DEF HasName
  <2>3. QED BY <2>1, <2>2
<1>4. QED BY <1>1, <1>3

LEMMA AddressedServe ==
  ASSUME TypeOK, Addressed, NEW d \in Deployers, Serve(d)
  PROVE  Addressed'
<1>1. UNCHANGED <<orphans, calls, job>>
  BY DEF Serve, arguments
<1>2. ASSUME ServeList(d) PROVE Addressed'
  <2>1. stored' = stored
    BY <1>2 DEF ServeList, instance
  <2>2. \A id, ir : HasName(id, ir)' <=> HasName(id, ir)
    BY <2>1 DEF HasName
  <2>3. \A e \in Deployers : channel'[e] = channel[e] \/ (e = d /\ channel'[e].kind = "page")
    BY <1>2 DEF ServeList, Answer, TypeOK
  <2>4. QED BY <1>1, <2>1, <2>2, <2>3 DEF Addressed
<1>3. ASSUME ServeFind(d) PROVE Addressed'
  <2>1. PICK id : /\ id \in (IF Matching(channel[d].name) = {} THEN {0} ELSE Matching(channel[d].name))
                  /\ Answer(d, [kind |-> "hit", id |-> id])
    BY <1>3 DEF ServeFind
  <2>2. id # 0 => HasName(id, job[d].ir)
    BY <1>3, <2>1 DEF ServeFind, Matching, HasName, Addressed
  <2>3. stored' = stored
    BY <1>3 DEF ServeFind, instance
  <2>4. \A i, ir : HasName(i, ir)' <=> HasName(i, ir)
    BY <2>3 DEF HasName
  <2>5. \A e \in Deployers :
          channel'[e] = IF e = d THEN [kind |-> "hit", id |-> id] ELSE channel[e]
    BY <2>1 DEF Answer, TypeOK
  <2>6. QED BY <1>1, <2>2, <2>3, <2>4, <2>5 DEF Addressed
<1>4. ASSUME ServeWrite(d) PROVE Addressed'
  <2> DEFINE w == channel[d]
  <2>1. /\ w \in Write /\ (w.kind = "PUT" => HasName(w.id, w.ir))
        /\ CarryOut(w) /\ Answer(d, [kind |-> "written", id |-> Target(w)])
    BY <1>4, Kinds DEF ServeWrite, Possible, Addressed, IsWrite, TypeOK
  <2> HIDE DEF w
  <2>2. Target(w) \in 1..Len(stored') /\ 1..Len(stored) \subseteq 1..Len(stored')
    BY <2>1, CarryOutEffects, CarryOutTypes
  <2>3. /\ \A id, ir : HasName(id, ir) => HasName(id, ir)'
        /\ \A i \in 1..Len(stored') : HasName(i, stored[i].ir)'
    BY <2>1, CarryOutAddressed
  <2>4. \A e \in Deployers :
          channel'[e] = IF e = d THEN [kind |-> "written", id |-> Target(w)] ELSE channel[e]
    BY <2>1 DEF Answer, TypeOK
  <2>5. QED BY <1>1, <2>2, <2>3, <2>4 DEF Addressed
<1>5. QED BY <1>2, <1>3, <1>4 DEF Serve

LEMMA AddressedElsewhere ==
  ASSUME TypeOK, Addressed, ServeOrphan \/ AddCredential \/ Remove
  PROVE  Addressed'
<1>1. ASSUME stored' = stored, job' = job, channel' = channel, orphans' \subseteq orphans
      PROVE  Addressed'
  <2>1. \A i, ir : HasName(i, ir)' <=> HasName(i, ir)
    BY <1>1 DEF HasName
  <2>2. QED BY <1>1, <2>1 DEF Addressed
<1>2. ASSUME ServeOrphan PROVE Addressed'
  <2>1. PICK w \in orphans :
          /\ orphans' = orphans \ {w}
          /\ IF Possible(w) THEN CarryOut(w) ELSE UNCHANGED instance
    BY <1>2 DEF ServeOrphan
  <2>2. w \in Write /\ (w.kind = "PUT" => HasName(w.id, w.ir))
    BY DEF TypeOK, Addressed
  <2>3. job' = job /\ channel' = channel
    BY <1>2 DEF ServeOrphan, arguments
  <2>4. CASE Possible(w)
    <3>1. /\ \A id, ir : HasName(id, ir) => HasName(id, ir)'
          /\ \A i \in 1..Len(stored') : HasName(i, stored[i].ir)'
          /\ 1..Len(stored) \subseteq 1..Len(stored')
      BY <2>1, <2>2, <2>4, CarryOutAddressed, CarryOutTypes
    <3>2. QED BY <2>1, <2>3, <3>1 DEF Addressed
  <2>5. CASE ~ Possible(w)
    BY <1>1, <2>1, <2>3, <2>5 DEF instance
  <2>6. QED BY <2>4, <2>5
<1>3. ASSUME AddCredential \/ Remove PROVE Addressed'
  BY <1>1, <1>3 DEF AddCredential, Remove, arguments
<1>4. QED BY <1>2, <1>3

-----------------------------------------------------------------------------
(* No call has two writes.                                                 *)

LEMMA MoveOneWrite ==
  ASSUME TypeOK, OneWrite, NEW d \in Deployers, NEW p, NEW m, NEW b, NEW r,
         Move(d, p, m, b, r), m.kind # "written",
         \A e \in Deployers \ {d} : calls'[e] = calls[e], calls[d] <= calls'[d],
         calls' \in [Deployers -> Nat],
         orphans' = orphans,
         p # "idle" => /\ calls'[d] # 0 /\ r = Nothing
                       /\ NotLeft(d, calls'[d]) /\ NotDone(d, calls'[d])
                       /\ IsWrite(m) => m.client = d /\ m.call = calls'[d]
  PROVE  OneWrite'
<1>1. log' = log
  BY DEF Move, instance
<1>2. /\ \A e \in Deployers : pc'[e] = IF e = d THEN p ELSE pc[e]
      /\ \A e \in Deployers : channel'[e] = IF e = d THEN m ELSE channel[e]
      /\ \A e \in Deployers : result'[e] = IF e = d THEN r ELSE result[e]
  BY DEF Move, TypeOK
<1>3. \A e, c : (NotDone(e, c)' <=> NotDone(e, c)) /\ (NotLeft(e, c)' <=> NotLeft(e, c))
  BY <1>1 DEF NotDone, NotLeft
<1> DEFINE Grown == \A e \in Deployers : \A c : c \in 1..calls[e] => c \in 1..calls'[e]
<1>g. Grown
  <2>1. ASSUME NEW e \in Deployers PROVE calls[e] \in Nat /\ calls'[e] \in Nat /\ calls[e] <= calls'[e]
    <3>1. calls[e] \in Nat /\ calls'[e] \in Nat
      BY DEF TypeOK
    <3>2. calls'[e] = calls[e] \/ e = d
      OBVIOUS
    <3>3. QED BY <3>1, <3>2
  <2>2. QED BY <2>1
<1> HIDE DEF Grown
<1>4. \A l \in log : l[2] \in 1..calls'[l[1]]
  <2>1. \A l \in log : l[1] \in Deployers
    BY DEF TypeOK
  <2>2. \A l \in log : l[2] \in 1..calls[l[1]]
    BY DEF OneWrite
  <2>3. QED BY <1>g, <2>1, <2>2 DEF Grown
<1>5. \A w \in orphans : w.call \in 1..calls'[w.client]
  <2>1. \A w \in orphans : w.client \in Deployers
    BY DEF TypeOK, Write
  <2>2. \A w \in orphans : w.call \in 1..calls[w.client]
    BY DEF OneWrite
  <2>3. QED BY <1>g, <2>1, <2>2 DEF Grown
<1>6. \A e \in Deployers : pc'[e] # "idle" =>
        /\ calls'[e] # 0
        /\ NotLeft(e, calls'[e])
        /\ result'[e] = Nothing
        /\ channel'[e].kind # "written" => NotDone(e, calls'[e])
        /\ channel'[e].kind = "written" => <<e, calls'[e], channel'[e].id>> \in log
        /\ IsWrite(channel'[e]) => channel'[e].client = e /\ channel'[e].call = calls'[e]
  <2> SUFFICES ASSUME NEW e \in Deployers, pc'[e] # "idle"
               PROVE  /\ calls'[e] # 0
                      /\ NotLeft(e, calls'[e])
                      /\ result'[e] = Nothing
                      /\ channel'[e].kind # "written" => NotDone(e, calls'[e])
                      /\ channel'[e].kind = "written" => <<e, calls'[e], channel'[e].id>> \in log
                      /\ IsWrite(channel'[e]) => channel'[e].client = e /\ channel'[e].call = calls'[e]
    OBVIOUS
  <2>1. CASE e = d
    BY <1>2, <2>1
  <2>2. CASE e # d
    BY <1>2, <2>2 DEF OneWrite
  <2>3. QED BY <2>1, <2>2
<1>7. QED BY <1>1, <1>3, <1>4, <1>5, <1>6 DEF OneWrite, IsWrite

LEMMA OutcomeOneWrite ==
  ASSUME TypeOK, OneWrite, NEW d \in Deployers, NEW j, NEW call, Outcome(d, j, call),
         \A e \in Deployers \ {d} : calls'[e] = calls[e], calls[d] <= calls'[d],
         calls' \in [Deployers -> Nat],
         call = calls'[d], call # 0, NotLeft(d, call), NotDone(d, call), orphans' = orphans
  PROVE  OneWrite'
<1>1. CASE Move(d, "idle", Silent, bound[d], Failed)
  BY <1>1, MoveOneWrite DEF Silent
<1>2. ASSUME NEW b \in SUBSET (Ref \X Nat),
             Move(d, "lookup", [kind |-> "find", name |-> NameOf[j.ir]], b, Nothing)
      PROVE  OneWrite'
  BY <1>2, MoveOneWrite DEF IsWrite
<1>3. ASSUME NEW b \in SUBSET (Ref \X Nat),
             Move(d, "write", WriteRequest(d, j, call, b, "POST", 0), b, Nothing)
      PROVE  OneWrite'
  BY <1>3, MoveOneWrite DEF WriteRequest
<1>4. QED BY <1>1, <1>2, <1>3 DEF Outcome

LEMMA OneWriteClient ==
  ASSUME TypeOK, OneWrite, Bindings, NEW d \in Deployers,
         (\E j \in Job : Call(d, j)) \/ Client(d)
  PROVE  OneWrite'
<1>1. ASSUME NEW j \in Job, Call(d, j) PROVE OneWrite'
  <2>1. calls' = [calls EXCEPT ![d] = calls[d] + 1] /\ orphans' = orphans
    BY <1>1, CallCases
  <2>2. /\ \A e \in Deployers \ {d} : calls'[e] = calls[e]
        /\ calls' \in [Deployers -> Nat]
        /\ calls'[d] = calls[d] + 1
        /\ calls[d] <= calls'[d] /\ calls'[d] # 0
    BY <2>1 DEF TypeOK
  <2>3. NotDone(d, calls'[d]) /\ NotLeft(d, calls'[d])
    <3>1. calls'[d] \notin 1..calls[d]
      BY <2>2 DEF TypeOK
    <3>2. QED BY <3>1 DEF OneWrite, NotDone, NotLeft
  <2>4. CASE Outcome(d, j, calls[d] + 1)
    BY <2>1, <2>2, <2>3, <2>4, OutcomeOneWrite
  <2>5. CASE Move(d, "list", [kind |-> "list", cursor |-> 0], bound[d], Nothing)
    BY <2>1, <2>2, <2>3, <2>5, MoveOneWrite DEF IsWrite
  <2>6. QED BY <1>1, <2>4, <2>5, CallCases
<1>2. ASSUME ReceivePage(d) PROVE OneWrite'
  <2>1. PICK seen \in Seq(Ref) :
           /\ UNCHANGED <<orphans, arguments>>
           /\ \/ Outcome(d, job[d], calls[d])
              \/ Move(d, "list", [kind |-> "list", cursor |-> Len(seen)], bound[d], result[d])
    BY <1>2, PageCases
  <2>2. calls' = calls /\ orphans' = orphans /\ calls \in [Deployers -> Nat] /\ calls[d] <= calls[d]
    BY <2>1 DEF arguments, TypeOK
  <2>3. calls[d] # 0 /\ NotLeft(d, calls[d]) /\ NotDone(d, calls[d]) /\ result[d] = Nothing
    BY <1>2 DEF ReceivePage, OneWrite
  <2>4. CASE Outcome(d, job[d], calls[d])
    BY <2>2, <2>3, <2>4, OutcomeOneWrite
  <2>5. CASE Move(d, "list", [kind |-> "list", cursor |-> Len(seen)], bound[d], result[d])
    BY <2>2, <2>3, <2>5, MoveOneWrite DEF IsWrite
  <2>6. QED BY <2>1, <2>4, <2>5
<1>3. ASSUME ReceiveLookup(d) PROVE OneWrite'
  <2> DEFINE m == WriteRequest(d, job[d], calls[d], bound[d],
                               IF channel[d].id # 0 THEN "PUT" ELSE "POST", channel[d].id)
  <2>1. Move(d, "write", m, bound[d], result[d])
    BY <1>3 DEF ReceiveLookup, Ask, Move, TypeOK
  <2>2. m.kind # "written" /\ m.client = d /\ m.call = calls[d]
    BY DEF WriteRequest
  <2>3. calls' = calls /\ orphans' = orphans /\ calls \in [Deployers -> Nat] /\ calls[d] <= calls[d]
    BY <1>3 DEF ReceiveLookup, arguments, TypeOK
  <2>4. calls[d] # 0 /\ NotLeft(d, calls[d]) /\ NotDone(d, calls[d]) /\ result[d] = Nothing
    BY <1>3 DEF ReceiveLookup, OneWrite
  <2> HIDE DEF m
  <2>5. QED BY <2>1, <2>2, <2>3, <2>4, MoveOneWrite
<1>4. ASSUME ReceiveWritten(d) PROVE OneWrite'
  <2>1. Move(d, "idle", Silent, bound[d], channel[d].id)
    BY <1>4 DEF ReceiveWritten, EndCall, Ask, Move, TypeOK
  <2>2. calls' = calls /\ orphans' = orphans /\ calls \in [Deployers -> Nat] /\ calls[d] <= calls[d]
    BY <1>4 DEF ReceiveWritten, arguments, TypeOK
  <2>3. QED BY <2>1, <2>2, MoveOneWrite DEF Silent
<1>5. ASSUME Fail(d) PROVE OneWrite'
  <2>1. Move(d, "idle", Silent, bound[d], Failed)
    BY <1>5 DEF Fail, EndCall, Ask, Move, TypeOK
  <2>2. calls' = calls /\ log' = log
    BY <1>5 DEF Fail, instance, arguments
  <2>3. CASE orphans' = orphans
    <3>1. calls \in [Deployers -> Nat] /\ calls[d] <= calls[d]
      BY DEF TypeOK
    <3>2. QED BY <2>1, <2>2, <2>3, <3>1, MoveOneWrite DEF Silent
  <2>4. CASE orphans' = orphans \cup {channel[d]} /\ IsWrite(channel[d])
    <3> DEFINE v == channel[d]
    <3>1. /\ v.client = d /\ v.call = calls[d]
          /\ NotLeft(d, calls[d]) /\ NotDone(d, calls[d])
          /\ calls[d] \in 1..calls[d]
      <4>1. v.kind # "written"
        BY <2>4 DEF IsWrite
      <4>2. calls[d] # 0 /\ calls[d] \in Nat
        BY <1>5 DEF Fail, OneWrite, TypeOK
      <4>3. v.client = d /\ v.call = calls[d] /\ NotLeft(d, calls[d]) /\ NotDone(d, calls[d])
        BY <1>5, <2>4, <4>1 DEF Fail, OneWrite
      <4>4. calls[d] \in 1..calls[d]
        BY <4>2
      <4>5. QED BY <4>3, <4>4
    <3> HIDE DEF v
    <3>2. \A e \in Deployers : pc'[e] # "idle" =>
            e # d /\ pc[e] # "idle" /\ channel'[e] = channel[e] /\ result'[e] = result[e]
      BY <2>1 DEF Move, TypeOK
    <3>3. orphans' = orphans \cup {v}
      BY <2>4 DEF v
    <3>4. \A e \in Deployers \ {d} : \A c : NotLeft(e, c) => NotLeft(e, c)'
      BY <3>1, <3>3 DEF NotLeft
    <3>5. \A e, c : NotDone(e, c)' <=> NotDone(e, c)
      BY <2>2 DEF NotDone
    <3>6. \A l \in log' : l[2] \in 1..calls'[l[1]]
      BY <2>2 DEF OneWrite
    <3>7. \A w \in orphans' : w.call \in 1..calls'[w.client] /\ NotDone(w.client, w.call)'
      BY <2>2, <3>1, <3>3, <3>5 DEF OneWrite
    <3>8. \A u, w \in orphans' : u.client = w.client /\ u.call = w.call => u = w
      BY <3>1, <3>3 DEF OneWrite, NotLeft
    <3>9. \A e \in Deployers : pc'[e] # "idle" =>
            /\ calls'[e] # 0
            /\ NotLeft(e, calls[e])'
            /\ result'[e] = Nothing
            /\ channel'[e].kind # "written" => NotDone(e, calls[e])'
            /\ channel'[e].kind = "written" => <<e, calls'[e], channel'[e].id>> \in log'
            /\ IsWrite(channel[e])' => channel'[e].client = e /\ channel'[e].call = calls'[e]
      BY <2>2, <3>2, <3>4, <3>5 DEF OneWrite, IsWrite
    <3>10. QED BY <2>2, <3>6, <3>7, <3>8, <3>9 DEF OneWrite
  <2>5. QED BY <1>5, <2>3, <2>4 DEF Fail, IsWrite
<1>6. QED BY <1>1, <1>2, <1>3, <1>4, <1>5 DEF Client

(* A write is carried out that no other request stands for.                *)
LEMMA DoneOneWrite ==
  ASSUME TypeOK, OneWrite, NEW c \in Deployers, NEW call \in 1..calls[c], NEW id,
         log' = log \cup {<<c, call, id>>},
         UNCHANGED <<calls, pc, result>>,
         orphans' \subseteq orphans, \A w \in orphans' : w.client # c \/ w.call # call,
         \A e \in Deployers :
           \/ channel'[e] = channel[e] /\ (pc[e] # "idle" => e # c \/ calls[e] # call)
           \/ /\ e = c /\ call = calls[e]
              /\ channel'[e] = [kind |-> "written", id |-> id]
  PROVE  OneWrite'
<1>1. \A e, n : NotLeft(e, n) => NotLeft(e, n)'
  BY DEF NotLeft
<1>2. \A e, n : NotDone(e, n) /\ (e # c \/ n # call) => NotDone(e, n)'
  BY DEF NotDone
<1>3. \A l \in log' : l[2] \in 1..calls'[l[1]]
  BY DEF OneWrite
<1>4. \A w \in orphans' : w.call \in 1..calls'[w.client] /\ NotDone(w.client, w.call)'
  BY <1>2 DEF OneWrite
<1>5. \A v, w \in orphans' : v.client = w.client /\ v.call = w.call => v = w
  BY DEF OneWrite
<1>6. ASSUME NEW e \in Deployers, pc'[e] # "idle"
      PROVE  /\ calls'[e] # 0
             /\ NotLeft(e, calls[e])'
             /\ result'[e] = Nothing
             /\ channel'[e].kind # "written" => NotDone(e, calls[e])'
             /\ channel'[e].kind = "written" => <<e, calls'[e], channel'[e].id>> \in log'
             /\ IsWrite(channel[e])' => channel'[e].client = e /\ channel'[e].call = calls'[e]
  <2>1. calls'[e] # 0 /\ NotLeft(e, calls[e])' /\ result'[e] = Nothing
    BY <1>1, <1>6 DEF OneWrite
  <2>2. CASE channel'[e] = channel[e] /\ (e # c \/ calls[e] # call)
    BY <1>2, <1>6, <2>1, <2>2 DEF OneWrite, IsWrite
  <2>3. CASE e = c /\ call = calls[e] /\ channel'[e] = [kind |-> "written", id |-> id]
    BY <2>1, <2>3 DEF IsWrite
  <2>4. QED BY <1>6, <2>2, <2>3
<1>7. QED BY <1>3, <1>4, <1>5, <1>6 DEF OneWrite

LEMMA OneWriteServe ==
  ASSUME TypeOK, Addressed, OneWrite, NEW d \in Deployers, Serve(d)
  PROVE  OneWrite'
<1>1. UNCHANGED <<orphans, calls, pc, result>>
  BY DEF Serve, arguments
<1>2. ASSUME log' = log, channel[d].kind \in {"list", "find"},
             \A e \in Deployers : channel'[e] = channel[e] \/
                                  (e = d /\ channel'[e].kind \in {"page", "hit"})
      PROVE  OneWrite'
  <2>1. \A e, c : (NotDone(e, c)' <=> NotDone(e, c)) /\ (NotLeft(e, c)' <=> NotLeft(e, c))
    BY <1>1, <1>2 DEF NotDone, NotLeft
  <2>2. ASSUME NEW e \in Deployers, pc'[e] # "idle"
        PROVE  /\ calls'[e] # 0
               /\ NotLeft(e, calls[e])'
               /\ result'[e] = Nothing
               /\ channel'[e].kind # "written" => NotDone(e, calls[e])'
               /\ channel'[e].kind = "written" => <<e, calls'[e], channel'[e].id>> \in log'
               /\ IsWrite(channel[e])' => channel'[e].client = e /\ channel'[e].call = calls'[e]
    <3>1. CASE channel'[e] = channel[e]
      BY <1>1, <1>2, <2>1, <2>2, <3>1 DEF OneWrite, IsWrite
    <3>2. CASE e = d /\ channel'[e].kind \in {"page", "hit"}
      BY <1>1, <1>2, <2>1, <2>2, <3>2 DEF OneWrite, IsWrite
    <3>3. QED BY <1>2, <3>1, <3>2
  <2>3. QED BY <1>1, <1>2, <2>1, <2>2 DEF OneWrite
<1>3. ASSUME ServeList(d) PROVE OneWrite'
  <2>1. /\ log' = log /\ channel[d].kind = "list"
        /\ \A e \in Deployers : channel'[e] = channel[e] \/ (e = d /\ channel'[e].kind = "page")
    BY <1>3 DEF ServeList, Answer, TypeOK, instance
  <2>2. QED BY <1>2, <2>1
<1>4. ASSUME ServeFind(d) PROVE OneWrite'
  <2>1. /\ log' = log /\ channel[d].kind = "find"
        /\ \A e \in Deployers : channel'[e] = channel[e] \/ (e = d /\ channel'[e].kind = "hit")
    BY <1>4 DEF ServeFind, Answer, TypeOK, instance
  <2>2. QED BY <1>2, <2>1
<1>5. ASSUME ServeWrite(d) PROVE OneWrite'
  <2> DEFINE w == channel[d]
  <2>1. /\ w \in Write /\ IsWrite(w) /\ (w.kind = "PUT" => HasName(w.id, w.ir))
        /\ CarryOut(w) /\ Answer(d, [kind |-> "written", id |-> Target(w)])
    BY <1>5, Kinds DEF ServeWrite, Possible, Addressed, IsWrite, TypeOK
  <2>2. pc[d] # "idle"
    BY <2>1 DEF TypeOK, Awaited, IsWrite
  <2>3. /\ w.client = d /\ w.call = calls[d] /\ NotLeft(d, calls[d]) /\ calls[d] # 0
    BY <2>1, <2>2 DEF OneWrite
  <2> HIDE DEF w
  <2>4. log' = log \cup {<<d, calls[d], Target(w)>>}
    BY <2>1, <2>3, CarryOutEffects
  <2>5. calls[d] \in 1..calls[d]
    BY <2>3 DEF TypeOK
  <2>6. \A e \in Deployers :
          \/ channel'[e] = channel[e] /\ e # d
          \/ e = d /\ channel'[e] = [kind |-> "written", id |-> Target(w)]
    BY <2>1 DEF Answer, TypeOK
  <2>7. QED BY <1>1, <2>3, <2>4, <2>5, <2>6, DoneOneWrite DEF NotLeft
<1>6. QED BY <1>3, <1>4, <1>5 DEF Serve

LEMMA OneWriteElsewhere ==
  ASSUME TypeOK, Addressed, OneWrite, ServeOrphan \/ AddCredential \/ Remove
  PROVE  OneWrite'
<1>1. ASSUME UNCHANGED <<log, calls, pc, channel, result>>, orphans' \subseteq orphans
      PROVE  OneWrite'
  <2>1. \A e, c : (NotDone(e, c)' <=> NotDone(e, c)) /\ (NotLeft(e, c) => NotLeft(e, c)')
    BY <1>1 DEF NotDone, NotLeft
  <2>2. QED BY <1>1, <2>1 DEF OneWrite, IsWrite
<1>2. ASSUME ServeOrphan PROVE OneWrite'
  <2>1. PICK w \in orphans :
          /\ orphans' = orphans \ {w}
          /\ IF Possible(w) THEN CarryOut(w) ELSE UNCHANGED instance
    BY <1>2 DEF ServeOrphan
  <2>2. UNCHANGED <<calls, pc, channel, result>>
    BY <1>2 DEF ServeOrphan, arguments
  <2>3. CASE Possible(w)
    <3>1. w \in Write /\ (w.kind = "PUT" => HasName(w.id, w.ir)) /\ CarryOut(w)
      BY <2>1, <2>3 DEF TypeOK, Addressed
    <3>2. log' = log \cup {<<w.client, w.call, Target(w)>>}
      BY <3>1, CarryOutEffects
    <3>3. w.client \in Deployers /\ w.call \in 1..calls[w.client]
      BY <3>1 DEF Write, OneWrite
    <3>4. \A v \in orphans' : v.client # w.client \/ v.call # w.call
      BY <2>1 DEF OneWrite
    <3>5. \A e \in Deployers : pc[e] # "idle" => e # w.client \/ calls[e] # w.call
      BY DEF OneWrite, NotLeft
    <3>6. \A e \in Deployers :
            \/ channel'[e] = channel[e] /\ (pc[e] # "idle" => e # w.client \/ calls[e] # w.call)
            \/ /\ e = w.client /\ w.call = calls[e]
               /\ channel'[e] = [kind |-> "written", id |-> Target(w)]
      BY <2>2, <3>5
    <3>7. UNCHANGED <<calls, pc, result>> /\ orphans' \subseteq orphans
      BY <2>1, <2>2
    <3>8. QED BY <3>2, <3>3, <3>4, <3>6, <3>7, DoneOneWrite
  <2>4. CASE ~ Possible(w)
    BY <1>1, <2>1, <2>2, <2>4 DEF instance
  <2>5. QED BY <2>3, <2>4
<1>3. ASSUME AddCredential \/ Remove PROVE OneWrite'
  BY <1>1, <1>3 DEF AddCredential, Remove, arguments
<1>4. QED BY <1>2, <1>3

-----------------------------------------------------------------------------
(* Bindings hold, and go on holding while credentials are added.           *)

LEMMA VaultGrows ==
  ASSUME TypeOK, AddCredential
  PROVE  /\ \A b, ir : Fulfils(b, ir) => Fulfils(b, ir)'
         /\ \A S : \A list \in Seq(S) : \A from \in Nat : Reads(list, from) => Reads(list, from)'
<1>1. /\ vault \in Seq(Ref) /\ vault' \in Seq(Ref)
      /\ Len(vault) \in Nat /\ Len(vault') = Len(vault) + 1
      /\ \A i \in 1..Len(vault) : vault'[i] = vault[i]
  <2>1. PICK c \in Ref : vault' = Append(vault, c)
    BY DEF AddCredential
  <2>2. QED BY <2>1, AppendProperties DEF TypeOK
<1>2. ASSUME NEW n, NEW id, Oldest(n, id) PROVE Oldest(n, id)'
  <2>1. /\ id \in 1..Len(vault) /\ vault[id].name = n
        /\ \A c \in 1..Len(vault) : vault[c].name = n => id <= c
    BY <1>2 DEF Oldest
  <2>2. id \in 1..Len(vault') /\ vault'[id].name = n
    BY <1>1, <2>1
  <2>3. ASSUME NEW c \in 1..Len(vault'), vault'[c].name = n PROVE id <= c
    <3>1. CASE c \in 1..Len(vault)
      BY <1>1, <2>1, <2>3, <3>1
    <3>2. CASE c \notin 1..Len(vault)
      BY <1>1, <2>1, <3>2
    <3>3. QED BY <3>1, <3>2
  <2>4. QED BY <2>2, <2>3 DEF Oldest
<1>3. ASSUME NEW b, NEW ir, Fulfils(b, ir) PROVE Fulfils(b, ir)'
  BY <1>2, <1>3 DEF Fulfils, Resolves
<1>4. ASSUME NEW S, NEW list \in Seq(S), NEW from \in Nat, Reads(list, from) PROVE Reads(list, from)'
  <2>1. Len(list) \in Nat /\ from + Len(list) <= Len(vault)
    BY <1>4 DEF Reads
  <2>2. ASSUME NEW i \in 1..Len(list) PROVE list[i] = vault'[from + i]
    <3>1. from + i \in 1..Len(vault)
      BY <1>1, <2>1
    <3>2. QED BY <1>1, <1>4, <3>1 DEF Reads
  <2>3. QED BY <1>1, <2>1, <2>2 DEF Reads
<1>5. QED BY <1>3, <1>4

LEMMA SameVault ==
  ASSUME vault' = vault
  PROVE  /\ \A b, ir : Fulfils(b, ir)' <=> Fulfils(b, ir)
         /\ \A list, from : Reads(list, from)' <=> Reads(list, from)
BY DEF Fulfils, Resolves, Oldest, Reads

LEMMA MoveBindings ==
  ASSUME TypeOK, Bindings, NEW d \in Deployers, NEW p, NEW m, NEW b, NEW r,
         Move(d, p, m, b, r),
         \A e \in Deployers \ {d} : job'[e] = job[e] /\ listing'[e] = listing[e],
         p = "list" => Reads(listing'[d], 0),
         m.kind = "list" => m.cursor = Len(listing'[d]),
         m.kind # "page",
         p = "lookup" => Fulfils(b, job'[d].ir),
         IsWrite(m) => Fulfils(m.binding, m.ir),
         \A w \in orphans' : Fulfils(w.binding, w.ir)
  PROVE  Bindings'
<1>1. vault' = vault /\ stored' = stored
  BY DEF Move, instance
<1>2. /\ \A c, ir : Fulfils(c, ir)' <=> Fulfils(c, ir)
      /\ \A list, from : Reads(list, from)' <=> Reads(list, from)
  BY <1>1, SameVault
<1>3. /\ \A e \in Deployers : pc'[e] = IF e = d THEN p ELSE pc[e]
      /\ \A e \in Deployers : channel'[e] = IF e = d THEN m ELSE channel[e]
      /\ \A e \in Deployers : bound'[e] = IF e = d THEN b ELSE bound[e]
  BY DEF Move, TypeOK
<1>4. ASSUME NEW e \in Deployers
      PROVE  /\ pc'[e] = "list" => Reads(listing[e], 0)'
             /\ channel'[e].kind = "list" => channel'[e].cursor = Len(listing'[e])
             /\ channel'[e].kind = "page" => Reads(channel[e].data, Len(listing[e]))'
             /\ pc'[e] = "lookup" => Fulfils(bound[e], job[e].ir)'
             /\ IsWrite(channel[e])' => Fulfils(channel[e].binding, channel[e].ir)'
  <2>1. CASE e = d
    BY <1>2, <1>3, <2>1 DEF IsWrite
  <2>2. CASE e # d
    BY <1>2, <1>3, <2>2 DEF Bindings, IsWrite
  <2>3. QED BY <2>1, <2>2
<1>5. QED BY <1>1, <1>2, <1>4 DEF Bindings

LEMMA OutcomeBindings ==
  ASSUME TypeOK, Bindings, NEW d \in Deployers, NEW j, NEW call, Outcome(d, j, call),
         \A e \in Deployers \ {d} : job'[e] = job[e] /\ listing'[e] = listing[e],
         job'[d] = j, orphans' = orphans
  PROVE  Bindings'
<1>0. \A w \in orphans' : Fulfils(w.binding, w.ir)
  BY DEF Bindings
<1>1. CASE Move(d, "idle", Silent, bound[d], Failed)
  BY <1>0, <1>1, MoveBindings DEF Silent, IsWrite
<1>2. ASSUME NEW b \in SUBSET (Ref \X Nat), Fulfils(b, j.ir),
             Move(d, "lookup", [kind |-> "find", name |-> NameOf[j.ir]], b, Nothing)
      PROVE  Bindings'
  BY <1>0, <1>2, MoveBindings DEF IsWrite
<1>3. ASSUME NEW b \in SUBSET (Ref \X Nat), Fulfils(b, j.ir),
             Move(d, "write", WriteRequest(d, j, call, b, "POST", 0), b, Nothing)
      PROVE  Bindings'
  <2> DEFINE m == WriteRequest(d, j, call, b, "POST", 0)
  <2>1. m.kind = "POST" /\ m.binding = b /\ m.ir = j.ir
    BY DEF WriteRequest
  <2> HIDE DEF m
  <2>2. QED BY <1>0, <1>3, <2>1, MoveBindings DEF m
<1>4. QED BY <1>1, <1>2, <1>3 DEF Outcome

LEMMA BindingsClient ==
  ASSUME TypeOK, Bindings, NEW d \in Deployers,
         (\E j \in Job : Call(d, j)) \/ Client(d)
  PROVE  Bindings'
<1>0. \A w \in orphans : Fulfils(w.binding, w.ir)
  BY DEF Bindings
<1>1. ASSUME NEW j \in Job, Call(d, j) PROVE Bindings'
  <2>1. /\ \A e \in Deployers \ {d} : job'[e] = job[e] /\ listing'[e] = listing[e]
        /\ job'[d] = j /\ listing'[d] = <<>> /\ orphans' = orphans
    BY <1>1, CallCases DEF TypeOK
  <2>2. CASE Outcome(d, j, calls[d] + 1)
    BY <2>1, <2>2, OutcomeBindings
  <2>3. CASE Move(d, "list", [kind |-> "list", cursor |-> 0], bound[d], Nothing)
    <3>1. Reads(<<>>, 0)
      BY DEF Reads, TypeOK
    <3>2. QED BY <1>0, <2>1, <2>3, <3>1, MoveBindings DEF IsWrite
  <2>4. QED BY <1>1, <2>2, <2>3, CallCases
<1>2. ASSUME ReceivePage(d) PROVE Bindings'
  <2>1. PICK seen \in Seq(Ref) :
           /\ Reads(seen, 0)
           /\ listing' = [listing EXCEPT ![d] = seen]
           /\ UNCHANGED <<orphans, arguments>>
           /\ \/ Outcome(d, job[d], calls[d])
              \/ Move(d, "list", [kind |-> "list", cursor |-> Len(seen)], bound[d], result[d])
    BY <1>2, PageCases
  <2>2. /\ \A e \in Deployers \ {d} : job'[e] = job[e] /\ listing'[e] = listing[e]
        /\ job' = job /\ listing'[d] = seen /\ orphans' = orphans
    BY <2>1 DEF TypeOK, arguments
  <2>3. CASE Outcome(d, job[d], calls[d])
    BY <2>2, <2>3, OutcomeBindings
  <2>4. CASE Move(d, "list", [kind |-> "list", cursor |-> Len(seen)], bound[d], result[d])
    BY <1>0, <2>1, <2>2, <2>4, MoveBindings DEF IsWrite
  <2>5. QED BY <2>1, <2>3, <2>4
<1>3. ASSUME ReceiveLookup(d) PROVE Bindings'
  <2> DEFINE m == WriteRequest(d, job[d], calls[d], bound[d],
                               IF channel[d].id # 0 THEN "PUT" ELSE "POST", channel[d].id)
  <2>1. Move(d, "write", m, bound[d], result[d])
    BY <1>3 DEF ReceiveLookup, Ask, Move, TypeOK
  <2>2. m.kind \in {"PUT", "POST"} /\ m.binding = bound[d] /\ m.ir = job[d].ir
    BY DEF WriteRequest
  <2>3. Fulfils(bound[d], job[d].ir)
    BY <1>3 DEF ReceiveLookup, Bindings
  <2>4. job' = job /\ orphans' = orphans /\ listing' = listing
    BY <1>3 DEF ReceiveLookup, arguments
  <2> HIDE DEF m
  <2>5. QED BY <1>0, <2>1, <2>2, <2>3, <2>4, MoveBindings
<1>4. ASSUME ReceiveWritten(d) PROVE Bindings'
  <2>1. Move(d, "idle", Silent, bound[d], channel[d].id)
    BY <1>4 DEF ReceiveWritten, EndCall, Ask, Move, TypeOK
  <2>2. QED BY <1>0, <1>4, <2>1, MoveBindings DEF ReceiveWritten, arguments, Silent, IsWrite
<1>5. ASSUME Fail(d) PROVE Bindings'
  <2>1. Move(d, "idle", Silent, bound[d], Failed)
    BY <1>5 DEF Fail, EndCall, Ask, Move, TypeOK
  <2>2. \A w \in orphans' : Fulfils(w.binding, w.ir)
    BY <1>0, <1>5 DEF Fail, Bindings, IsWrite
  <2>3. QED BY <1>5, <2>1, <2>2, MoveBindings DEF Fail, arguments, Silent, IsWrite
<1>6. QED BY <1>1, <1>2, <1>3, <1>4, <1>5 DEF Client

LEMMA CarryOutBindings ==
  ASSUME TypeOK, Bindings, NEW w \in Write, w.kind = "PUT" => HasName(w.id, w.ir), CarryOut(w),
         Fulfils(w.binding, w.ir)
  PROVE  \A i \in 1..Len(stored') : Fulfils(stored'[i].binding, stored'[i].ir)
<1>1. /\ stored'[Target(w)] = [name |-> NameOf[w.ir], ir |-> w.ir, binding |-> w.binding]
      /\ \A i \in 1..Len(stored') :
           i # Target(w) => i \in 1..Len(stored) /\ stored'[i] = stored[i]
  BY CarryOutEffects
<1>2. QED BY <1>1 DEF Bindings

LEMMA BindingsServe ==
  ASSUME TypeOK, Addressed, Bindings, NEW d \in Deployers, Serve(d)
  PROVE  Bindings'
<1>1. UNCHANGED <<orphans, job, pc, listing, bound>>
  BY DEF Serve, arguments
<1>2. vault' = vault
  BY DEF Serve, ServeList, ServeFind, ServeWrite, CarryOut, instance
<1>3. /\ \A b, ir : Fulfils(b, ir)' <=> Fulfils(b, ir)
      /\ \A list, from : Reads(list, from)' <=> Reads(list, from)
  BY <1>2, SameVault
<1>4. \A e \in Deployers : e # d => channel'[e] = channel[e]
  BY DEF Serve, ServeList, ServeFind, ServeWrite, Answer, TypeOK
<1>5. ASSUME \A i \in 1..Len(stored') : Fulfils(stored'[i].binding, stored'[i].ir),
             channel'[d].kind \in {"page", "hit", "written"},
             channel'[d].kind = "page" => Reads(channel'[d].data, Len(listing[d]))
      PROVE  Bindings'
  <2>1. ASSUME NEW e \in Deployers
        PROVE  /\ pc'[e] = "list" => Reads(listing[e], 0)'
               /\ channel'[e].kind = "list" => channel'[e].cursor = Len(listing'[e])
               /\ channel'[e].kind = "page" => Reads(channel[e].data, Len(listing[e]))'
               /\ pc'[e] = "lookup" => Fulfils(bound[e], job[e].ir)'
               /\ IsWrite(channel[e])' => Fulfils(channel[e].binding, channel[e].ir)'
    <3>1. CASE e = d
      BY <1>1, <1>3, <1>5, <3>1 DEF Bindings, IsWrite
    <3>2. CASE e # d
      BY <1>1, <1>3, <1>4, <3>2 DEF Bindings, IsWrite
    <3>3. QED BY <3>1, <3>2
  <2>2. QED BY <1>1, <1>3, <1>5, <2>1 DEF Bindings
<1>6. ASSUME ServeList(d) PROVE Bindings'
  <2> DEFINE page == Page(channel[d].cursor)
  <2>1. stored' = stored /\ channel[d].kind = "list"
    BY <1>6 DEF ServeList, instance
  <2>2. channel'[d].kind = "page" /\ channel'[d].data = page
    BY <1>6 DEF ServeList, Answer, TypeOK
  <2>3. channel[d] \in Message /\ pc[d] = "list"
    <3>1. /\ channel[d] \in Message /\ channel[d].kind \in Awaited[pc[d]]
          /\ pc[d] \in {"idle", "list", "lookup", "write"}
      BY DEF TypeOK
    <3>2. QED BY <2>1, <3>1 DEF Awaited
  <2>4. Reads(listing[d], 0) /\ channel[d].cursor = Len(listing[d]) /\ channel[d].cursor \in Nat
    BY <2>1, <2>3, Kinds DEF Bindings
  <2>5. channel[d].cursor <= Len(vault)
    BY <2>4 DEF Reads
  <2>6. Reads(page, Len(listing[d]))
    BY <2>4, <2>5, PageReads
  <2>7. QED BY <1>5, <2>1, <2>2, <2>6 DEF Bindings
<1>7. ASSUME ServeFind(d) PROVE Bindings'
  <2>1. stored' = stored /\ channel'[d].kind = "hit"
    BY <1>7 DEF ServeFind, Answer, TypeOK, instance
  <2>2. QED BY <1>5, <2>1 DEF Bindings
<1>8. ASSUME ServeWrite(d) PROVE Bindings'
  <2> DEFINE w == channel[d]
  <2>1. /\ w \in Write /\ IsWrite(w) /\ (w.kind = "PUT" => HasName(w.id, w.ir)) /\ CarryOut(w)
    BY <1>8, Kinds DEF ServeWrite, Possible, Addressed, IsWrite, TypeOK
  <2>2. Fulfils(w.binding, w.ir)
    BY <2>1 DEF Bindings
  <2>3. channel'[d].kind = "written"
    BY <1>8 DEF ServeWrite, Answer, TypeOK
  <2> HIDE DEF w
  <2>4. QED BY <1>5, <2>1, <2>2, <2>3, CarryOutBindings
<1>9. QED BY <1>6, <1>7, <1>8 DEF Serve

LEMMA BindingsElsewhere ==
  ASSUME TypeOK, Addressed, Bindings, ServeOrphan \/ AddCredential \/ Remove
  PROVE  Bindings'
<1>1. UNCHANGED <<job, pc, listing, bound, channel>> /\ orphans' \subseteq orphans
  BY DEF ServeOrphan, AddCredential, Remove, arguments
<1>2. ASSUME \A b, ir : Fulfils(b, ir) => Fulfils(b, ir)',
             \A S : \A list \in Seq(S) : \A from \in Nat : Reads(list, from) => Reads(list, from)',
             \A i \in 1..Len(stored') : Fulfils(stored[i].binding, stored[i].ir)'
      PROVE  Bindings'
  <2>1. ASSUME NEW e \in Deployers
        PROVE  /\ pc'[e] = "list" => Reads(listing[e], 0)'
               /\ channel'[e].kind = "list" => channel'[e].cursor = Len(listing'[e])
               /\ channel'[e].kind = "page" => Reads(channel[e].data, Len(listing[e]))'
               /\ pc'[e] = "lookup" => Fulfils(bound[e], job[e].ir)'
               /\ IsWrite(channel[e])' => Fulfils(channel[e].binding, channel[e].ir)'
    <3>1. listing[e] \in Seq(Ref) /\ Len(listing[e]) \in Nat /\ channel[e] \in Message
      BY DEF TypeOK
    <3>2. pc'[e] = "list" => Reads(listing[e], 0)'
      BY <1>1, <1>2, <3>1 DEF Bindings
    <3>3. channel'[e].kind = "page" => Reads(channel[e].data, Len(listing[e]))'
      BY <1>1, <1>2, <3>1, Kinds DEF Bindings
    <3>4. QED BY <1>1, <1>2, <3>2, <3>3 DEF Bindings, IsWrite
  <2>2. QED BY <1>1, <1>2, <2>1 DEF Bindings
<1>3. ASSUME ServeOrphan PROVE Bindings'
  <2>1. PICK w \in orphans :
          IF Possible(w) THEN CarryOut(w) ELSE UNCHANGED instance
    BY <1>3 DEF ServeOrphan
  <2>2. /\ w \in Write /\ (w.kind = "PUT" => HasName(w.id, w.ir))
        /\ Fulfils(w.binding, w.ir)
    BY DEF TypeOK, Addressed, Bindings
  <2>3. vault' = vault
    BY <2>1 DEF CarryOut, instance
  <2>4. \A i \in 1..Len(stored') : Fulfils(stored'[i].binding, stored'[i].ir)
    <3>1. CASE Possible(w)
      BY <2>1, <2>2, <3>1, CarryOutBindings
    <3>2. CASE ~ Possible(w)
      BY <2>1, <3>2 DEF instance, Bindings
    <3>3. QED BY <3>1, <3>2
  <2>5. /\ \A b, ir : Fulfils(b, ir)' <=> Fulfils(b, ir)
        /\ \A list, from : Reads(list, from)' <=> Reads(list, from)
    BY <2>3, SameVault
  <2>6. QED BY <1>2, <2>4, <2>5
<1>4. ASSUME AddCredential PROVE Bindings'
  <2>1. stored' = stored
    BY <1>4 DEF AddCredential
  <2>2. QED BY <1>2, <1>4, <2>1, VaultGrows DEF Bindings
<1>5. ASSUME Remove PROVE Bindings'
  <2>1. stored' = stored /\ vault' = vault
    BY <1>5 DEF Remove
  <2>2. /\ \A b, ir : Fulfils(b, ir)' <=> Fulfils(b, ir)
        /\ \A list, from : Reads(list, from)' <=> Reads(list, from)
    BY <2>1, SameVault
  <2>3. QED BY <1>2, <2>1, <2>2 DEF Bindings
<1>6. QED BY <1>3, <1>4, <1>5

-----------------------------------------------------------------------------
LEMMA InitInv == Init => IInv
<1> SUFFICES ASSUME Init PROVE IInv
  OBVIOUS
<1>1. Job # {}
  <2>1. PICK i \in IRs, mode \in Modes, map \in Maps : TRUE
    BY DeployAssumption
  <2>2. [ir |-> i, mode |-> mode, map |-> map] \in Job
    BY DEF Job
  <2>3. QED BY <2>2
<1>2. vault \in Seq(Ref)
  <2>1. PICK n \in 0..MaxCredentials : vault \in [1..n -> Ref]
    BY DEF Init
  <2>2. MaxCredentials \in Nat
    BY DeployAssumption
  <2>3. QED BY <2>1, <2>2, SeqDef
<1>3. TypeOK
  <2>1. job \in [Deployers -> Job]
    BY <1>1 DEF Init
  <2>2. channel \in [Deployers -> Message]
    BY DEF Init, Message
  <2>3. \A d \in Deployers : channel[d].kind \in Awaited[pc[d]]
    BY DEF Init, Silent, Awaited
  <2>4. stored \in Seq(Document) /\ Len(stored) = 0
    BY DEF Init
  <2>5. QED BY <1>2, <2>1, <2>2, <2>3, <2>4 DEF Init, TypeOK
<1>4. Addressed /\ OneWrite /\ Bindings
  <2>1. Len(stored) = 0
    BY DEF Init
  <2>2. QED BY <2>1 DEF Init, Silent, Addressed, OneWrite, Bindings, IsWrite
<1>5. QED BY <1>3, <1>4 DEF IInv

LEMMA StepInv == IInv /\ [Next]_vars => IInv'
<1> SUFFICES ASSUME IInv, [Next]_vars PROVE IInv'
  OBVIOUS
<1> USE DEF IInv
<1>1. ASSUME NEW d \in Deployers, (\E j \in Job : Call(d, j)) \/ Client(d) PROVE IInv'
  BY <1>1, TypeClient, AddressedClient, OneWriteClient, BindingsClient
<1>2. ASSUME NEW d \in Deployers, Serve(d) PROVE IInv'
  BY <1>2, TypeServe, AddressedServe, OneWriteServe, BindingsServe
<1>3. CASE ServeOrphan \/ AddCredential \/ Remove
  BY <1>3, TypeElsewhere, AddressedElsewhere, OneWriteElsewhere, BindingsElsewhere
<1>4. CASE UNCHANGED vars
  <2>1. UNCHANGED <<vault, stored, removed, log, orphans, calls, job, pc, listing, bound, channel, result>>
    BY <1>4 DEF vars, instance, arguments
  <2>2. TypeOK'
    BY <2>1 DEF TypeOK, Message, Ref, Job, Document, Write, Awaited, Silent
  <2>3. Addressed'
    BY <2>1 DEF Addressed, HasName
  <2>4. OneWrite'
    BY <2>1 DEF OneWrite, NotDone, NotLeft, IsWrite
  <2>5. Bindings'
    BY <2>1, SameVault DEF Bindings, IsWrite
  <2>6. QED BY <2>2, <2>3, <2>4, <2>5
<1>5. QED BY <1>1, <1>2, <1>3, <1>4 DEF Next

THEOREM Invariant == Spec => []IInv
BY InitInv, StepInv, PTL DEF Spec

(* The types hold of every deployment, whatever the instance answers: an   *)
(* id a call returns is the position of a workflow.                        *)
THEOREM DeployTypes == Spec => []TypeOK
<1>1. IInv => TypeOK
  BY DEF IInv
<1>2. QED BY <1>1, Invariant, PTL

(* What reaches the instance has every credential bound, to the id of the  *)
(* map or to the oldest credential of the name.                            *)
THEOREM BindingsAlwaysHold == Spec => []BindingsHold
<1>1. IInv => BindingsHold
  <2> SUFFICES ASSUME IInv, NEW i \in 1..Len(stored)
               PROVE  /\ {b[1] : b \in stored[i].binding} = Needs[stored[i].ir]
                      /\ \A b \in stored[i].binding :
                           \/ \E m \in Maps : b[1].name \in DOMAIN m /\ m[b[1].name] = b[2]
                           \/ /\ b[2] \in 1..Len(vault)
                              /\ b[2] = Min({c \in 1..Len(vault) : vault[c].name = b[1].name})
    BY DEF BindingsHold
  <2>1. Fulfils(stored[i].binding, stored[i].ir)
    BY DEF IInv, Bindings
  <2>2. ASSUME NEW name, NEW id, Oldest(name, id)
        PROVE  id \in 1..Len(vault) /\ id = Min({c \in 1..Len(vault) : vault[c].name = name})
    <3> DEFINE S == {c \in 1..Len(vault) : vault[c].name = name}
    <3>1. S \in SUBSET Nat /\ id \in S /\ \A c \in S : id <= c
      BY <2>2 DEF Oldest
    <3> HIDE DEF S
    <3>2. Min(S) = id
      BY <3>1, MinIs
    <3>3. QED BY <2>2, <3>2 DEF S, Oldest
  <2>3. QED BY <2>1, <2>2 DEF Fulfils, Resolves
<1>2. QED BY <1>1, Invariant, PTL

-----------------------------------------------------------------------------
(* The refinement: what the instance and the callers see are steps of the  *)
(* store.                                                                  *)
Workflows == [i \in 1..Len(stored) |-> IF i \in removed THEN Nothing ELSE stored[i].ir]

LEMMA WorkflowsSeq ==
  ASSUME TypeOK
  PROVE  /\ Workflows \in Seq(IRs \cup {Nothing}) /\ Len(Workflows) = Len(stored)
         /\ Len(stored) \in Nat
         /\ \A i \in 1..Len(stored) :
              Workflows[i] = IF i \in removed THEN Nothing ELSE stored[i].ir
<1>1. stored \in Seq(Document) /\ Len(stored) \in Nat
  BY DEF TypeOK
<1>2. \A i \in 1..Len(stored) : stored[i].ir \in IRs
  <2>1. \A i \in 1..Len(stored) : stored[i] \in Document
    BY <1>1
  <2>2. QED BY <2>1 DEF Document
<1>3. Workflows \in [1..Len(stored) -> IRs \cup {Nothing}]
  BY <1>2 DEF Workflows
<1>4. Workflows \in Seq(IRs \cup {Nothing})
  BY <1>1, <1>3, SeqDef
<1>5. Len(Workflows) = Len(stored)
  BY <1>1, <1>3, <1>4, LenProperties
<1>6. QED BY <1>1, <1>4, <1>5 DEF Workflows

LEMMA InitStore == Init => Store!WSInit
<1> SUFFICES ASSUME Init PROVE Store!WSInit
  OBVIOUS
<1>1. TypeOK /\ Len(stored) = 0
  BY InitInv DEF IInv, Init
<1>2. Workflows = <<>>
  BY <1>1, WorkflowsSeq, EmptySeq
<1>3. QED BY <1>2 DEF Store!WSInit, Init, Workflows

(* A write that is carried out is a creation or a replacement.             *)
LEMMA CarryOutStore ==
  ASSUME TypeOK, TypeOK', Addressed, NEW w \in Write, Possible(w), CarryOut(w),
         w.kind = "PUT" => HasName(w.id, w.ir),
         w.call \in 1..calls[w.client], NotDone(w.client, w.call),
         UNCHANGED <<calls, result>>
  PROVE  Store!WSNext
<1>1. /\ stored' \in Seq(Document)
      /\ stored'[Target(w)] = [name |-> NameOf[w.ir], ir |-> w.ir, binding |-> w.binding]
      /\ \A i \in 1..Len(stored') :
           i # Target(w) => i \in 1..Len(stored) /\ stored'[i] = stored[i]
      /\ log' = log \cup {<<w.client, w.call, Target(w)>>}
      /\ UNCHANGED <<vault, removed>>
  BY CarryOutEffects
<1>2. w.client \in Deployers /\ w.ir \in IRs
  BY DEF Write
<1>3. /\ Workflows \in Seq(IRs \cup {Nothing}) /\ Len(Workflows) = Len(stored)
      /\ Len(stored) \in Nat
      /\ \A i \in 1..Len(stored) :
           Workflows[i] = IF i \in removed THEN Nothing ELSE stored[i].ir
  BY WorkflowsSeq
<1>4. /\ Workflows' \in Seq(IRs \cup {Nothing}) /\ Len(Workflows') = Len(stored')
      /\ Len(stored') \in Nat
      /\ \A i \in 1..Len(stored') :
           Workflows'[i] = IF i \in removed' THEN Nothing ELSE stored'[i].ir
  <2>1. (TypeOK => /\ Workflows \in Seq(IRs \cup {Nothing}) /\ Len(Workflows) = Len(stored)
                   /\ Len(stored) \in Nat
                   /\ \A i \in 1..Len(stored) :
                        Workflows[i] = IF i \in removed THEN Nothing ELSE stored[i].ir)'
    BY WorkflowsSeq, PTL
  <2>2. QED BY <2>1
<1>5. Store!Write(w.client, w.call, Target(w))
  BY <1>1 DEF Store!Write, NotDone
<1>6. CASE w.kind = "POST"
  <2>1. Target(w) = Len(stored) + 1 /\ Target(w) \notin removed
    BY <1>3, <1>6 DEF Target, TypeOK
  <2>2. Len(stored') = Len(stored) + 1
    BY <1>6 DEF CarryOut, TypeOK
  <2>3. Workflows' = Append(Workflows, w.ir)
    <3> DEFINE A == Append(Workflows, w.ir)
    <3>1. /\ A \in Seq(IRs \cup {Nothing}) /\ Len(A) = Len(stored) + 1
          /\ \A i \in 1..Len(stored) : A[i] = Workflows[i]
          /\ A[Len(stored) + 1] = w.ir
      BY <1>2, <1>3, AppendProperties
    <3> HIDE DEF A
    <3>2. \A i \in 1..Len(Workflows') : Workflows'[i] = A[i]
      <4> SUFFICES ASSUME NEW i \in 1..Len(stored') PROVE Workflows'[i] = A[i]
        BY <1>4
      <4>1. CASE i = Target(w)
        BY <1>1, <1>4, <2>1, <3>1, <4>1
      <4>2. CASE i # Target(w)
        BY <1>1, <1>3, <1>4, <3>1, <4>2
      <4>3. QED BY <4>1, <4>2
    <3>3. Workflows' = A
      BY <1>4, <2>2, <3>1, <3>2, SeqEqual
    <3>4. QED BY <3>3 DEF A
  <2>4. Store!Create(w.client, w.call)
    BY <1>2, <1>3, <1>5, <2>1, <2>3 DEF Store!Create, Workflows
  <2>5. QED BY <1>2, <2>4 DEF Store!WSNext
<1>7. CASE w.kind = "PUT"
  <2>1. /\ Target(w) = w.id /\ w.id \in 1..Len(stored) /\ w.id \notin removed
        /\ stored[w.id].name = NameOf[w.ir]
    BY <1>7 DEF Target, HasName, Possible
  <2>2. Len(stored') = Len(stored)
    BY <1>7, <2>1, ExceptSeq DEF CarryOut, TypeOK
  <2>3. Workflows' = [Workflows EXCEPT ![w.id] = w.ir]
    <3>1. \A i \in 1..Len(stored) :
            Workflows'[i] = IF i = w.id THEN w.ir ELSE Workflows[i]
      <4> SUFFICES ASSUME NEW i \in 1..Len(stored)
                   PROVE  Workflows'[i] = IF i = w.id THEN w.ir ELSE Workflows[i]
        OBVIOUS
      <4>1. CASE i = w.id
        BY <1>1, <1>4, <2>1, <2>2, <4>1
      <4>2. CASE i # w.id
        BY <1>1, <1>3, <1>4, <2>1, <2>2, <4>2
      <4>3. QED BY <4>1, <4>2
    <3>2. DOMAIN Workflows' = 1..Len(stored) /\ DOMAIN Workflows = 1..Len(stored)
      BY <2>2 DEF Workflows
    <3>3. Workflows' = [i \in DOMAIN Workflows' |-> Workflows'[i]]
      BY DEF Workflows
    <3>4. QED BY <3>1, <3>2, <3>3
  <2>4. Workflows[w.id] # Nothing /\ NameOf[w.ir] = NameOf[Workflows[w.id]]
    <3>1. Workflows[w.id] = stored[w.id].ir /\ stored[w.id].ir \in IRs
      <4>1. stored[w.id] \in Document
        BY <2>1 DEF TypeOK
      <4>2. QED BY <1>3, <2>1, <4>1 DEF Document
    <3>2. stored[w.id].name = NameOf[stored[w.id].ir]
      BY <2>1 DEF Addressed, HasName
    <3>3. QED BY <2>1, <3>1, <3>2, DeployAssumption
  <2>5. Store!Replace(w.client, w.call, w.id)
    BY <1>2, <1>5, <2>1, <2>3, <2>4 DEF Store!Replace, Workflows
  <2>6. w.id \in 1..Len(Workflows)
    BY <1>3, <2>1
  <2>7. QED BY <1>2, <2>5, <2>6 DEF Store!WSNext, Workflows
<1>8. QED BY <1>6, <1>7 DEF Write

(* The end of a call is the one return of it; the rest of it is not seen.  *)
LEMMA OutcomeStore ==
  ASSUME TypeOK, NEW d \in Deployers, NEW j, NEW call, Outcome(d, j, call),
         result[d] = Nothing, UNCHANGED <<instance, calls>>
  PROVE  [Store!WSNext]_Store!ws_vars
<1>1. result \in [Deployers -> {Nothing, Failed} \cup (1..Len(stored))]
  BY DEF TypeOK
<1>2. UNCHANGED <<vault, stored, removed, log, calls>>
  BY DEF instance
<1>3. result' = [result EXCEPT ![d] = Failed] \/ result' = [result EXCEPT ![d] = Nothing]
  BY DEF Outcome, Move
<1>4. CASE result' = [result EXCEPT ![d] = Failed]
  <2>1. Store!Return(d)
    BY <1>2, <1>4 DEF Store!Return
  <2>2. QED BY <2>1 DEF Store!WSNext
<1>5. CASE result' = [result EXCEPT ![d] = Nothing]
  <2>1. result' = result
    BY <1>1, <1>5
  <2>2. QED BY <1>2, <2>1 DEF Store!ws_vars
<1>6. QED BY <1>3, <1>4, <1>5

LEMMA StoreClient ==
  ASSUME TypeOK, OneWrite, Bindings, NEW d \in Deployers,
         (\E j \in Job : Call(d, j)) \/ Client(d)
  PROVE  [Store!WSNext]_Store!ws_vars
<1>1. ASSUME NEW j \in Job, Call(d, j) PROVE Store!WSNext
  <2>1. UNCHANGED instance /\ calls' = [calls EXCEPT ![d] = @ + 1]
    BY <1>1 DEF Call
  <2>2. \E a \in {Nothing, Failed} : result' = [result EXCEPT ![d] = a]
    BY <1>1, CallCases DEF Outcome, Move
  <2>3. Store!Begin(d)
    BY <2>1, <2>2 DEF Store!Begin, instance
  <2>4. QED BY <2>3 DEF Store!WSNext
<1>2. ASSUME ReceivePage(d) PROVE [Store!WSNext]_Store!ws_vars
  <2>1. /\ UNCHANGED <<instance, calls>>
        /\ result[d] = Nothing
    BY <1>2 DEF ReceivePage, OneWrite, arguments
  <2>2. \/ Outcome(d, job[d], calls[d])
        \/ result' = [result EXCEPT ![d] = result[d]]
    BY <1>2, PageCases DEF Move
  <2>3. CASE Outcome(d, job[d], calls[d])
    BY <2>1, <2>3, OutcomeStore
  <2>4. CASE result' = [result EXCEPT ![d] = result[d]]
    <3>1. result' = result
      BY <2>4 DEF TypeOK
    <3>2. QED BY <2>1, <3>1 DEF Store!ws_vars, instance
  <2>5. QED BY <2>2, <2>3, <2>4
<1>3. ASSUME ReceiveLookup(d) PROVE UNCHANGED Store!ws_vars
  BY <1>3 DEF ReceiveLookup, Store!ws_vars, instance, arguments
<1>4. ASSUME ReceiveWritten(d) PROVE Store!WSNext
  <2>1. /\ result[d] = Nothing
        /\ <<d, calls[d], channel[d].id>> \in log
        /\ result' = [result EXCEPT ![d] = channel[d].id]
        /\ UNCHANGED <<instance, calls>>
    BY <1>4 DEF ReceiveWritten, EndCall, OneWrite, arguments
  <2>2. channel[d].id \in {w[3] : w \in {v \in log : v[1] = d /\ v[2] = calls[d]}}
    BY <2>1
  <2>3. Store!Return(d)
    BY <2>1, <2>2 DEF Store!Return, instance
  <2>4. QED BY <2>3 DEF Store!WSNext
<1>5. ASSUME Fail(d) PROVE Store!WSNext
  <2>1. /\ result[d] = Nothing
        /\ result' = [result EXCEPT ![d] = Failed]
        /\ UNCHANGED <<instance, calls>>
    BY <1>5 DEF Fail, EndCall, OneWrite, arguments
  <2>2. Store!Return(d)
    BY <2>1 DEF Store!Return, instance
  <2>3. QED BY <2>2 DEF Store!WSNext
<1>6. QED BY <1>1, <1>2, <1>3, <1>4, <1>5 DEF Client

LEMMA StoreServe ==
  ASSUME TypeOK, TypeOK', Addressed, OneWrite, NEW d \in Deployers, Serve(d)
  PROVE  [Store!WSNext]_Store!ws_vars
<1>1. UNCHANGED <<calls, result>>
  BY DEF Serve, arguments
<1>2. CASE ServeList(d) \/ ServeFind(d)
  BY <1>1, <1>2 DEF ServeList, ServeFind, Store!ws_vars, instance
<1>3. CASE ServeWrite(d)
  <2> DEFINE w == channel[d]
  <2>1. /\ w \in Write /\ IsWrite(w) /\ (w.kind = "PUT" => HasName(w.id, w.ir))
        /\ Possible(w) /\ CarryOut(w)
    BY <1>3, Kinds DEF ServeWrite, Possible, Addressed, IsWrite, TypeOK
  <2>2. pc[d] # "idle"
    BY <2>1 DEF TypeOK, Awaited, IsWrite
  <2>3. /\ w.client = d /\ w.call = calls[d] /\ NotDone(d, calls[d]) /\ calls[d] # 0
    BY <2>1, <2>2 DEF OneWrite, IsWrite
  <2>4. w.call \in 1..calls[w.client] /\ NotDone(w.client, w.call)
    BY <2>3 DEF TypeOK
  <2> HIDE DEF w
  <2>5. QED BY <1>1, <2>1, <2>4, CarryOutStore
<1>4. QED BY <1>2, <1>3 DEF Serve

LEMMA StoreElsewhere ==
  ASSUME TypeOK, TypeOK', Addressed, OneWrite, ServeOrphan \/ AddCredential \/ Remove
  PROVE  [Store!WSNext]_Store!ws_vars
<1>1. UNCHANGED <<calls, result>>
  BY DEF ServeOrphan, AddCredential, Remove, arguments
<1>2. CASE ServeOrphan
  <2>1. PICK w \in orphans : IF Possible(w) THEN CarryOut(w) ELSE UNCHANGED instance
    BY <1>2 DEF ServeOrphan
  <2>2. /\ w \in Write /\ (w.kind = "PUT" => HasName(w.id, w.ir))
        /\ w.call \in 1..calls[w.client] /\ NotDone(w.client, w.call)
    BY DEF TypeOK, Addressed, OneWrite
  <2>3. CASE Possible(w)
    BY <1>1, <2>1, <2>2, <2>3, CarryOutStore
  <2>4. CASE ~ Possible(w)
    BY <1>1, <2>1, <2>4 DEF instance, Store!ws_vars
  <2>5. QED BY <2>3, <2>4
<1>3. CASE AddCredential
  BY <1>1, <1>3 DEF AddCredential, Store!ws_vars
<1>4. CASE Remove
  <2>1. PICK i \in (1..Len(stored)) \ removed : removed' = removed \cup {i}
    BY <1>4 DEF Remove
  <2>2. UNCHANGED <<stored, log>>
    BY <1>4 DEF Remove
  <2>3. Len(Workflows) = Len(stored) /\ Workflows[i] = stored[i].ir
    BY <2>1, WorkflowsSeq
  <2>4. Workflows[i] # Nothing
    <3>1. stored[i] \in Document
      BY <2>1 DEF TypeOK
    <3>2. QED BY <2>3, <3>1, DeployAssumption DEF Document
  <2>5. Workflows' = [Workflows EXCEPT ![i] = Nothing]
    BY <2>1, <2>2 DEF Workflows
  <2>6. Store!Delete(i)
    BY <1>1, <2>2, <2>4, <2>5 DEF Store!Delete, Workflows
  <2>7. QED BY <2>1, <2>3, <2>6 DEF Store!WSNext, Workflows
<1>5. QED BY <1>2, <1>3, <1>4

(* Seen from outside, deploy_to_n8n is the store: every step of a caller,  *)
(* of the instance and of the editor changes the workflows at most once    *)
(* per call and within a name, or is not seen; a removed workflow stays    *)
(* away, and an id is the answer to a write that was carried out.          *)
THEOREM DeployImplementsStore == Spec => ImplementsStore
<1>1. IInv /\ IInv' /\ [Next]_vars => [Store!WSNext]_Store!ws_vars
  <2> SUFFICES ASSUME IInv, IInv', [Next]_vars PROVE [Store!WSNext]_Store!ws_vars
    OBVIOUS
  <2> USE DEF IInv
  <2>1. ASSUME NEW d \in Deployers, (\E j \in Job : Call(d, j)) \/ Client(d)
        PROVE  [Store!WSNext]_Store!ws_vars
    BY <2>1, StoreClient
  <2>2. ASSUME NEW d \in Deployers, Serve(d) PROVE [Store!WSNext]_Store!ws_vars
    BY <2>2, StoreServe
  <2>3. CASE ServeOrphan \/ AddCredential \/ Remove
    BY <2>3, StoreElsewhere
  <2>4. CASE UNCHANGED vars
    BY <2>4 DEF vars, instance, arguments, Store!ws_vars
  <2>5. QED BY <2>1, <2>2, <2>3, <2>4 DEF Next
<1>2. QED BY <1>1, Invariant, InitStore, PTL DEF Spec, ImplementsStore, Store!WSSpec
=============================================================================
