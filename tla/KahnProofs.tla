----------------------------- MODULE KahnProofs -----------------------------
(***************************************************************************)
(* Proofs about Kahn, for every set of nodes and every AST over it.        *)
(***************************************************************************)
EXTENDS Kahn, SequenceTheorems, FiniteSetTheorems, TLAPS

(* The counted sets are finite.                                            *)
LEMMA EdgesFinite ==
  ASSUME IsConnections(connections)
  PROVE  /\ IsFiniteSet(MainEdges)
         /\ \A n : IsFiniteSet(EdgesInto(n)) /\ IsFiniteSet(Waiting(n))
         /\ IsFiniteSet(members)
         /\ \A c \in MainEdges : c.from_node \in members /\ c.to_node \in members
<1>1. IsFiniteSet(connections) BY DEF IsConnections
<1>2. IsFiniteSet(MainEdges) BY <1>1, FS_Subset DEF MainEdges
<1>3. \A n : IsFiniteSet(EdgesInto(n)) /\ IsFiniteSet(Waiting(n))
  <2>1. \A n : EdgesInto(n) \subseteq MainEdges /\ Waiting(n) \subseteq MainEdges
    BY DEF EdgesInto, Waiting
  <2>2. QED BY <1>2, <2>1, FS_Subset
<1>4. IsFiniteSet(members) BY AstAssumption, FS_Subset DEF members
<1>5. QED BY <1>2, <1>3, <1>4 DEF MainEdges

(* A finite set of cardinality 0 is empty, and a non-empty one counts.     *)
LEMMA CardinalityZero ==
  ASSUME NEW S, IsFiniteSet(S)
  PROVE  /\ Cardinality(S) \in Nat
         /\ Cardinality(S) = 0 <=> S = {}
BY FS_CardinalityType, FS_EmptySet

-----------------------------------------------------------------------------
LEMMA InitInv == Init => IInv
<1> SUFFICES ASSUME Init PROVE IInv
  OBVIOUS
<1> USE DEF Init, Start
<1>1. IsConnections(connections) /\ IsConnections(ai_connections)
  OBVIOUS
<1>2. order = <<>> /\ Len(order) = 0 /\ Range(order) = {}
  BY DEF Range
<1>3. \A n : Waiting(n) = EdgesInto(n)
  BY <1>2 DEF Waiting
<1>4. \A n : Cardinality(EdgesInto(n)) \in Nat
  BY <1>1, EdgesFinite, CardinalityZero
<1>5. TypeOK
  BY <1>1, <1>2, <1>4 DEF TypeOK
<1>6. CountersExact
  BY <1>2, <1>3 DEF CountersExact
<1>7. NoNodeTwice /\ SourcesFirst
  BY <1>2 DEF NoNodeTwice, SourcesFirst
<1>8. Len(order) = Cardinality(Range(order))
  BY <1>2, FS_EmptySet
<1>9. Acyclic(MainEdges, Range(order))
  BY <1>2 DEF Acyclic
<1>10. RaisesExactlyOnCycles
  BY DEF RaisesExactlyOnCycles
<1>11. QED BY <1>2, <1>5, <1>6, <1>7, <1>8, <1>9, <1>10 DEF IInv

-----------------------------------------------------------------------------
(* Taking a node from `ready` keeps the invariant: everything that leads   *)
(* to it is placed, and it is not itself placed.                           *)
LEMMA PopInv == IInv /\ Pop => IInv'
<1> SUFFICES ASSUME IInv, Pop PROVE IInv'
  OBVIOUS
<1> USE DEF IInv
<1>1. PICK current \in ready : /\ ready' = ready \ {current}
                               /\ order' = Append(order, current)
                               /\ pending' = EdgesOutOf(current)
  BY DEF Pop
<1>2. /\ outcome = "running" /\ pending = {}
      /\ UNCHANGED <<connections, ai_connections, incoming, outcome>>
  BY DEF Pop
<1>3. /\ members' = members /\ MainEdges' = MainEdges
      /\ \A n : EdgesInto(n)' = EdgesInto(n) /\ EdgesOutOf(n)' = EdgesOutOf(n)
  BY <1>2 DEF members, MainEdges, EdgesInto, EdgesOutOf
<1>4. /\ current \in members
      /\ incoming[current] = 0
      /\ current \notin Range(order)
      /\ order \in Seq(members)
  BY DEF TypeOK, CountersExact
<1>5. /\ order' \in Seq(members)
      /\ Len(order') = Len(order) + 1
      /\ \A i \in 1..Len(order) : order'[i] = order[i]
      /\ order'[Len(order) + 1] = current
      /\ Range(order') = Range(order) \cup {current}
      /\ Len(order) \in Nat
  <2>1. /\ Append(order, current) \in Seq(members)
        /\ Len(Append(order, current)) = Len(order) + 1
        /\ \A i \in 1..Len(order) : Append(order, current)[i] = order[i]
        /\ Append(order, current)[Len(order) + 1] = current
    BY <1>4, AppendProperties
  <2>2. Append(order, current) = order \o <<current>> /\ <<current>> \in Seq(members)
    BY <1>4, AppendIsConcat
  <2>3. Range(<<current>>) = {current}
    BY DEF Range
  <2>4. Range(Append(order, current)) = Range(order) \cup {current}
    <3>1. order \in Seq(members)
      BY <1>4
    <3>2. Range(order \o <<current>>) = Range(order) \cup Range(<<current>>)
      BY <2>2, <3>1, RangeConcatenation
    <3>3. QED BY <2>2, <2>3, <3>2
  <2>5. QED BY <1>1, <1>4, <2>1, <2>4, LenProperties
<1>6. IsConnections(connections)
  BY DEF TypeOK
<1>7. \A c \in EdgesInto(current) : c.from_node \in Range(order)
  <2>1. Waiting(current) = {}
    BY <1>4, <1>6, EdgesFinite, CardinalityZero DEF CountersExact
  <2>2. QED BY <2>1 DEF Waiting
<1>8. TypeOK'
  BY <1>1, <1>2, <1>3, <1>5 DEF TypeOK, EdgesOutOf
<1>9. \A n : Waiting(n)' = Waiting(n)
  <2>1. ASSUME NEW n, NEW c \in EdgesInto(n)
        PROVE  (c.from_node \notin Range(order) \/ c \in pending) <=>
               (c.from_node \notin Range(order') \/ c \in pending')
    BY <1>1, <1>2, <1>4, <1>5, <2>1 DEF EdgesInto, EdgesOutOf
  <2>2. QED BY <2>1, <1>3 DEF Waiting
<1>10. CountersExact'
  <2> SUFFICES ASSUME NEW n \in members
               PROVE  /\ incoming'[n] = Cardinality(Waiting(n)')
                      /\ n \in ready' <=> (incoming'[n] = 0 /\ n \notin Range(order'))
    BY <1>3 DEF CountersExact
  <2>1. incoming'[n] = Cardinality(Waiting(n)')
    BY <1>2, <1>9 DEF CountersExact
  <2>2. n \in ready' <=> (incoming'[n] = 0 /\ n \notin Range(order'))
    BY <1>1, <1>2, <1>4, <1>5 DEF CountersExact
  <2>3. QED BY <2>1, <2>2
<1>11. (\A n \in Range(order) : incoming[n] = 0)'
  BY <1>2, <1>4, <1>5
<1>12. (\A c \in pending : c.from_node \in Range(order))'
  BY <1>1, <1>5 DEF EdgesOutOf
<1>13. NoNodeTwice'
  <2>1. \A i \in 1..Len(order) : order[i] # current
    BY <1>4, RangeOfSeq, RangeEquality
  <2>2. QED BY <1>5, <2>1 DEF NoNodeTwice
<1>14. (Len(order) = Cardinality(Range(order)))'
  <2>1. IsFiniteSet(Range(order))
    BY <1>4, <1>6, EdgesFinite, RangeOfSeq, RangeEquality, FS_Subset
  <2>2. Cardinality(Range(order) \cup {current}) = Cardinality(Range(order)) + 1
    BY <1>4, <2>1, FS_AddElement
  <2>3. Cardinality(Range(order')) = Cardinality(Range(order)) + 1
    BY <1>5, <2>2
  <2>4. QED BY <1>5, <2>3
<1>15. SourcesFirst'
  <2> SUFFICES ASSUME NEW c \in MainEdges, NEW j \in 1..(Len(order) + 1),
                      order'[j] = c.to_node
               PROVE  \E i \in 1..(j - 1) : order'[i] = c.from_node
    BY <1>3, <1>5 DEF SourcesFirst
  <2>1. CASE j \in 1..Len(order)
    <3>1. PICK i \in 1..(j - 1) : order[i] = c.from_node
      BY <1>5, <2>1 DEF SourcesFirst
    <3>2. i \in 1..Len(order)
      BY <2>1, <1>5
    <3>3. QED BY <1>5, <3>1, <3>2
  <2>2. CASE j = Len(order) + 1
    <3>1. c \in EdgesInto(current)
      BY <1>5, <2>2 DEF EdgesInto
    <3>2. PICK i \in 1..Len(order) : order[i] = c.from_node
      BY <1>4, <1>7, <3>1, RangeOfSeq, RangeEquality
    <3>3. QED BY <1>5, <2>2, <3>2
  <2>3. QED BY <1>5, <2>1, <2>2
<1>16. Acyclic(MainEdges, Range(order))'
  <2> DEFINE P(n) == predecessors(MainEdges, n)
  <2>1. P(current) \subseteq Range(order)
    BY <1>7 DEF predecessors, EdgesInto
  <2>2. \A n \in Range(order) : current \notin P(n)
    <3> SUFFICES ASSUME NEW n \in Range(order), NEW c \in EdgesInto(n),
                        c.from_node = current
                 PROVE  FALSE
      BY DEF predecessors, EdgesInto
    <3>1. n \in members /\ Waiting(n) = {}
      BY <1>4, <1>6, RangeOfSeq, RangeEquality, EdgesFinite, CardinalityZero DEF CountersExact
    <3>2. QED BY <1>4, <3>1 DEF Waiting
  <2>3. ASSUME NEW S \in SUBSET Range(order'), S # {}
        PROVE  \E n \in S : P(n) \cap S = {}
    <3>1. CASE S \ {current} = {}
      BY <1>4, <2>1, <2>3, <3>1
    <3>2. CASE S \ {current} # {}
      <4>1. S \ {current} \in SUBSET Range(order)
        BY <1>5
      <4>2. PICK n \in S \ {current} : P(n) \cap (S \ {current}) = {}
        BY <3>2, <4>1 DEF Acyclic
      <4>3. QED BY <2>2, <4>1, <4>2
    <3>3. QED BY <3>1, <3>2
  <2>4. QED BY <1>3, <2>3 DEF Acyclic
<1>17. outcome' = "running"
  BY <1>2
<1>18. RaisesExactlyOnCycles'
  BY <1>17 DEF RaisesExactlyOnCycles
<1>19. QED
  BY <1>8, <1>10, <1>11, <1>12, <1>13, <1>14, <1>15, <1>16, <1>17, <1>18

-----------------------------------------------------------------------------
(* Lowering one counter keeps the invariant: the connection was counted,   *)
(* so its target is not placed, and reaches `ready` with its last one.     *)
LEMMA RelaxInv == IInv /\ Relax => IInv'
<1> SUFFICES ASSUME IInv, Relax PROVE IInv'
  OBVIOUS
<1> USE DEF IInv
<1>1. PICK c \in pending :
        /\ incoming' = [incoming EXCEPT ![c.to_node] = @ - 1]
        /\ ready' = IF incoming[c.to_node] = 1 THEN ready \cup {c.to_node} ELSE ready
        /\ pending' = pending \ {c}
  BY DEF Relax
<1>2. UNCHANGED <<connections, ai_connections, order, outcome>>
  BY DEF Relax
<1>3. /\ members' = members /\ MainEdges' = MainEdges
      /\ \A n : EdgesInto(n)' = EdgesInto(n)
  BY <1>2 DEF members, MainEdges, EdgesInto
<1>4. IsConnections(connections)
  BY DEF TypeOK
<1>5. /\ c \in MainEdges /\ c.to_node \in members
      /\ c \in Waiting(c.to_node)
      /\ c.from_node \in Range(order)
  BY <1>4, EdgesFinite DEF TypeOK, Waiting, EdgesInto
<1>6. incoming[c.to_node] \in Nat \ {0}
  BY <1>4, <1>5, EdgesFinite, CardinalityZero DEF CountersExact
<1>7. c.to_node \notin Range(order)
  BY <1>6
<1>8. /\ Waiting(c.to_node)' = Waiting(c.to_node) \ {c}
      /\ \A n : n # c.to_node => Waiting(n)' = Waiting(n)
  BY <1>1, <1>2, <1>3, <1>5 DEF Waiting, EdgesInto
<1>9. Cardinality(Waiting(c.to_node) \ {c}) = incoming[c.to_node] - 1
  <2>1. IsFiniteSet(Waiting(c.to_node))
    BY <1>4, EdgesFinite
  <2>2. Cardinality(Waiting(c.to_node) \ {c}) = Cardinality(Waiting(c.to_node)) - 1
    BY <1>5, <2>1, FS_RemoveElement
  <2>3. QED BY <1>5, <2>2 DEF CountersExact
<1>10. /\ incoming' \in [members -> Nat]
       /\ incoming'[c.to_node] = incoming[c.to_node] - 1
       /\ \A n \in members : n # c.to_node => incoming'[n] = incoming[n]
  BY <1>1, <1>5, <1>6 DEF TypeOK
<1>11. TypeOK'
  BY <1>1, <1>2, <1>3, <1>5, <1>10 DEF TypeOK
<1>12. CountersExact'
  <2> SUFFICES ASSUME NEW n \in members
               PROVE  /\ incoming'[n] = Cardinality(Waiting(n)')
                      /\ n \in ready' <=> (incoming'[n] = 0 /\ n \notin Range(order'))
    BY <1>3 DEF CountersExact
  <2>1. CASE n = c.to_node
    <3>1. incoming'[n] = Cardinality(Waiting(n)')
      BY <1>8, <1>9, <1>10, <2>1
    <3>2. n \in ready' <=> (incoming'[n] = 0 /\ n \notin Range(order'))
      BY <1>1, <1>2, <1>6, <1>7, <1>10, <2>1 DEF CountersExact
    <3>3. QED BY <3>1, <3>2
  <2>2. CASE n # c.to_node
    <3>1. incoming'[n] = Cardinality(Waiting(n)')
      BY <1>8, <1>10, <2>2 DEF CountersExact
    <3>2. n \in ready' <=> (incoming'[n] = 0 /\ n \notin Range(order'))
      BY <1>1, <1>2, <1>10, <2>2 DEF CountersExact
    <3>3. QED BY <3>1, <3>2
  <2>3. QED BY <2>1, <2>2
<1>13. (\A n \in Range(order) : incoming[n] = 0)'
  <2>1. Range(order) \subseteq members
    BY RangeOfSeq, RangeEquality DEF TypeOK
  <2>2. QED BY <1>2, <1>7, <1>10, <2>1
<1>14. (\A d \in pending : d.from_node \in Range(order))'
  BY <1>1, <1>2
<1>15. (NoNodeTwice /\ Len(order) = Cardinality(Range(order)))'
  BY <1>2 DEF NoNodeTwice
<1>16. SourcesFirst'
  BY <1>2, <1>3 DEF SourcesFirst
<1>17. Acyclic(MainEdges, Range(order))'
  BY <1>2, <1>3 DEF Acyclic, predecessors
<1>18. outcome' = "running"
  BY <1>1, <1>2 DEF TypeOK
<1>19. RaisesExactlyOnCycles'
  BY <1>18 DEF RaisesExactlyOnCycles
<1>20. QED
  BY <1>11, <1>12, <1>13, <1>14, <1>15, <1>16, <1>17, <1>18, <1>19

-----------------------------------------------------------------------------
(* When `ready` runs dry the length test tells the two cases apart: a full *)
(* order, or a rest in which every node has a predecessor in the rest.     *)
LEMMA FinishInv == IInv /\ Finish => IInv'
<1> SUFFICES ASSUME IInv, Finish PROVE IInv'
  OBVIOUS
<1> USE DEF IInv
<1>1. /\ pending = {} /\ ready = {}
      /\ outcome' = IF Len(order) # Cardinality(members) THEN "cycle" ELSE "ordered"
      /\ UNCHANGED <<connections, ai_connections, incoming, ready, pending, order>>
  BY DEF Finish
<1>2. /\ members' = members /\ MainEdges' = MainEdges
      /\ \A n : EdgesInto(n)' = EdgesInto(n)
  BY <1>1 DEF members, MainEdges, EdgesInto
<1>3. /\ IsConnections(connections)
      /\ Range(order) \subseteq members
      /\ IsFiniteSet(members)
  BY EdgesFinite, RangeOfSeq, RangeEquality DEF TypeOK
<1>4. \A n : Waiting(n)' = Waiting(n)
  BY <1>1, <1>2 DEF Waiting
<1>5. TypeOK' /\ CountersExact' /\ NoNodeTwice' /\ SourcesFirst'
  BY <1>1, <1>2, <1>4 DEF TypeOK, CountersExact, NoNodeTwice, SourcesFirst
<1>6. /\ (\A n \in Range(order) : incoming[n] = 0)'
      /\ (\A c \in pending : c.from_node \in Range(order))'
      /\ (Len(order) = Cardinality(Range(order)))'
      /\ (outcome # "running" => ready = {} /\ pending = {})'
  BY <1>1
<1>7. Acyclic(MainEdges, Range(order))'
  BY <1>1, <1>2 DEF Acyclic, predecessors
<1>8. ASSUME Range(order) = members
      PROVE  outcome' = "ordered" /\ Acyclic(MainEdges, members)
  BY <1>1, <1>8
<1>9. ASSUME Range(order) # members
      PROVE  outcome' = "cycle" /\ ~ Acyclic(MainEdges, members)
  <2>1. outcome' = "cycle"
    <3>1. Cardinality(Range(order)) # Cardinality(members)
      BY <1>3, <1>9, FS_Subset
    <3>2. QED BY <1>1, <3>1
  <2> DEFINE rest == members \ Range(order)
  <2>2. rest # {} /\ rest \in SUBSET members
    BY <1>3, <1>9
  <2>3. ASSUME NEW n \in rest
        PROVE  predecessors(MainEdges, n) \cap rest # {}
    <3>1. Cardinality(Waiting(n)) # 0
      BY <1>1 DEF CountersExact
    <3>2. PICK c \in EdgesInto(n) : c.from_node \notin Range(order)
      BY <1>1, <1>3, <3>1, EdgesFinite, CardinalityZero DEF Waiting
    <3>3. c \in MainEdges /\ c.to_node = n /\ c.from_node \in rest
      BY <1>3, <3>2, EdgesFinite DEF EdgesInto
    <3>4. QED BY <3>3 DEF predecessors
  <2>4. QED BY <2>1, <2>2, <2>3 DEF Acyclic
<1>10. RaisesExactlyOnCycles'
  <2>1. Acyclic(MainEdges, members)' <=> Acyclic(MainEdges, members)
    BY <1>2 DEF Acyclic, predecessors
  <2>2. QED BY <1>1, <1>2, <1>8, <1>9, <2>1 DEF RaisesExactlyOnCycles
<1>11. QED BY <1>5, <1>6, <1>7, <1>10

(* A step that changes nothing keeps the invariant.                        *)
LEMMA StutterInv == IInv /\ UNCHANGED vars => IInv'
<1> SUFFICES ASSUME IInv, UNCHANGED vars PROVE IInv'
  OBVIOUS
<1>1. /\ UNCHANGED <<connections, ai_connections, incoming, ready, pending>>
      /\ UNCHANGED <<order, outcome>>
  BY DEF vars
<1>2. /\ members' = members /\ MainEdges' = MainEdges
      /\ \A n : EdgesInto(n)' = EdgesInto(n)
  BY <1>1 DEF members, MainEdges, EdgesInto
<1>3. \A n : Waiting(n)' = Waiting(n)
  BY <1>1, <1>2 DEF Waiting
<1>4. TypeOK' /\ CountersExact'
  BY <1>1, <1>2, <1>3 DEF IInv, TypeOK, CountersExact
<1>5. NoNodeTwice' /\ SourcesFirst'
  BY <1>1, <1>2 DEF IInv, NoNodeTwice, SourcesFirst
<1>6. Acyclic(MainEdges, Range(order))' /\ RaisesExactlyOnCycles'
  BY <1>1, <1>2 DEF IInv, Acyclic, predecessors, RaisesExactlyOnCycles
<1>7. QED BY <1>1, <1>4, <1>5, <1>6 DEF IInv

(* IInv holds in every reachable state.                                    *)
THEOREM Invariance == Spec => []IInv
<1>1. IInv /\ [Next]_vars => IInv'
  BY PopInv, RelaxInv, FinishInv, StutterInv DEF Next
<1>2. QED BY InitInv, <1>1, PTL DEF Spec

(* The variables keep their types: no counter ever becomes negative.       *)
THEOREM TypeCorrect == Spec => []TypeOK
<1>1. IInv => TypeOK BY DEF IInv
<1>2. QED BY Invariance, <1>1, PTL

(* In every execution order the compiler emits, a node comes after the     *)
(* source of each of its main connections, and no node comes twice.        *)
THEOREM OrderIsTopological == Spec => [](SourcesFirst /\ NoNodeTwice)
<1>1. IInv => SourcesFirst /\ NoNodeTwice BY DEF IInv
<1>2. QED BY Invariance, <1>1, PTL

(* The compiler raises "workflow contains a cycle" only for a main topology*)
(* that has one, and otherwise returns an order of all its nodes.          *)
THEOREM RaiseIsExact == Spec => []RaisesExactlyOnCycles
<1>1. IInv => RaisesExactlyOnCycles BY DEF IInv
<1>2. QED BY Invariance, <1>1, PTL

-----------------------------------------------------------------------------
(* The two modules mean the same by the words they share.                  *)
LEMMA SameWords ==
  /\ Abstract!members = members
  /\ \A s : Abstract!Range(s) = Range(s)
  /\ \A C : Abstract!IsConnections(C) <=> IsConnections(C)
  /\ \A C, n : Abstract!predecessors(C, n) = predecessors(C, n)
<1>1. Abstract!members = members
  BY DEF Abstract!members, members, Abstract!ai_only_subnodes, ai_only_subnodes,
         Abstract!Endpoints, Endpoints
<1>2. \A s : Abstract!Range(s) = Range(s)
  BY DEF Abstract!Range, Range
<1>3. \A C : Abstract!IsConnections(C) <=> IsConnections(C)
  BY DEF Abstract!IsConnections, IsConnections, Abstract!Connection, Connection,
         Abstract!IsFiniteSet, IsFiniteSet
<1>4. \A C, n : Abstract!predecessors(C, n) = predecessors(C, n)
  BY DEF Abstract!predecessors, predecessors
<1>5. QED BY <1>1, <1>2, <1>3, <1>4

(* Between two turns of the while loop, `ready` is the set of nodes the    *)
(* abstract specification may place.                                       *)
LEMMA ReadyIsPlaceable ==
  IInv /\ pending = {} => ready = Abstract!Placeable
<1> SUFFICES ASSUME IInv, pending = {} PROVE ready = Abstract!Placeable
  OBVIOUS
<1> USE DEF IInv
<1>1. /\ Abstract!members = members
      /\ Abstract!Range(order) = Range(order)
      /\ \A n : Abstract!Before(n) = predecessors(connections, n) \cap members
  BY SameWords DEF Abstract!Before
<1>2. ASSUME NEW n \in members
      PROVE  Waiting(n) = {} <=> Abstract!Before(n) \subseteq Range(order)
  <2>1. Waiting(n) = {c \in MainEdges : c.to_node = n /\ c.from_node \notin Range(order)}
    BY DEF Waiting, EdgesInto
  <2>2. Waiting(n) = {c \in connections : /\ c.from_node \in members \ Range(order)
                                          /\ c.to_node = n}
    BY <2>1, <1>2 DEF MainEdges
  <2>3. Abstract!Before(n) = {c.from_node : c \in {d \in connections : d.to_node = n}} \cap members
    BY <1>1 DEF predecessors
  <2>4. QED BY <2>2, <2>3
<1>3. ASSUME NEW n \in members
      PROVE  incoming[n] = 0 <=> Waiting(n) = {}
  BY EdgesFinite, CardinalityZero DEF CountersExact, TypeOK
<1>4. ready \subseteq members
  BY DEF TypeOK
<1>5. QED BY <1>1, <1>2, <1>3, <1>4 DEF CountersExact, Abstract!Placeable

(* Kahn's algorithm computes the order TopoSort describes, step by step:   *)
(* taking a node from `ready` places it, the inner loop is invisible, and  *)
(* the loop ends as the abstract specification does.                       *)
THEOREM KahnImplementsTopoSort == Spec => Abstract!TSSafety
<1>1. Init => Abstract!TSInit
  BY SameWords DEF Init, Start, Abstract!TSInit
<1>2. IInv /\ [Next]_vars => [Abstract!TSNext]_Abstract!ts_vars
  <2> SUFFICES ASSUME IInv, [Next]_vars
               PROVE  [Abstract!TSNext]_Abstract!ts_vars
    OBVIOUS
  <2> USE DEF Abstract!TSNext, Abstract!ts_vars
  <2>1. CASE Pop
    <3>1. /\ outcome = "running" /\ pending = {}
          /\ UNCHANGED <<connections, ai_connections, outcome>>
      BY <2>1 DEF Pop
    <3>2. PICK n \in ready : (\A m \in ready : n <= m) /\ order' = Append(order, n)
      BY <2>1 DEF Pop
    <3>3. Abstract!Place
      BY <3>1, <3>2, ReadyIsPlaceable DEF Abstract!Place
    <3>4. QED BY <3>3
  <2>2. CASE Relax
    BY <2>2 DEF Relax
  <2>3. CASE Finish
    <3>1. /\ outcome = "running" /\ pending = {} /\ ready = {}
          /\ UNCHANGED <<connections, ai_connections, order>>
          /\ outcome' = IF Len(order) # Cardinality(members) THEN "cycle" ELSE "ordered"
      BY <2>3 DEF Finish
    <3>2. Abstract!Placeable = {}
      BY <3>1, ReadyIsPlaceable
    <3>3. Range(order) \subseteq members /\ IsFiniteSet(members)
      BY EdgesFinite, RangeOfSeq, RangeEquality DEF IInv, TypeOK
    <3>4. Len(order) = Cardinality(members) <=> Range(order) = members
      BY <3>3, FS_Subset DEF IInv
    <3>5. Abstract!Stop
      BY <3>1, <3>2, <3>4, SameWords DEF Abstract!Stop
    <3>6. QED BY <3>5
  <2>4. CASE UNCHANGED vars
    BY <2>4 DEF vars
  <2>5. QED BY <2>1, <2>2, <2>3, <2>4 DEF Next
<1>3. QED BY Invariance, <1>1, <1>2, PTL DEF Spec, Abstract!TSSafety
=============================================================================
