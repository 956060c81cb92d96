------------------------- MODULE DetectCyclesProofs -------------------------
(***************************************************************************)
(* Proofs about DetectCycles, for every graph and every recursion limit.   *)
(***************************************************************************)
EXTENDS DetectCycles, SequenceTheorems, FiniteSetTheorems, FunctionTheorems,
  WellFoundedInduction, TLAPS

(* The upstream closure of a node is itself closed upstream.               *)
LEMMA AncestorsClosed ==
  ASSUME NEW conns, IsConnections(conns), NEW n \in Nodes
  PROVE  /\ predecessors(conns, n) \subseteq Ancestors(conns, n)
         /\ \A a \in Ancestors(conns, n) : predecessors(conns, a) \subseteq Ancestors(conns, n)
<1>1. \A m : predecessors(conns, m) \subseteq Nodes
  BY DEF IsConnections, Connection, predecessors
<1>2. predecessors(conns, n) \subseteq Ancestors(conns, n)
  BY <1>1 DEF Ancestors, IsUpstreamClosed
<1>3. ASSUME NEW a \in Ancestors(conns, n), NEW m \in predecessors(conns, a)
      PROVE  m \in Ancestors(conns, n)
  <2>1. \A S \in SUBSET Nodes : IsUpstreamClosed(conns, n, S) => m \in S
    BY <1>3 DEF Ancestors, IsUpstreamClosed
  <2>2. QED BY <1>1, <1>3, <2>1 DEF Ancestors
<1>4. QED BY <1>2, <1>3

(* A connection joins two nodes.                                           *)
LEMMA EdgeEnds ==
  ASSUME TypeOK
  PROVE  \A c \in connections : c.from_node \in Nodes /\ c.to_node \in Nodes
BY DEF TypeOK, IsConnections, Connection

LEMMA InitInv == Init => IInv
<1> SUFFICES ASSUME Init PROVE IInv
  OBVIOUS
<1> USE DEF Init, Start
<1>1. stack = <<>> /\ Len(stack) = 0 /\ Range(stack) = {} /\ Left = {}
  BY DEF Range, Left
<1>2. TypeOK
  BY <1>1 DEF TypeOK
<1>3. StackIsPath
  BY <1>1 DEF StackIsPath
<1>4. LookedAt
  <2>1. \A c \in connections : color[c.from_node] # 2
    BY <1>2, EdgeEnds
  <2>2. \A i \in 1..Len(stack) : FALSE
    BY <1>1
  <2>3. QED BY <1>1, <2>1, <2>2 DEF LookedAt, Acyclic
<1>5. IssuesAreOnCycles /\ OverflowIsDeep
  BY DEF IssuesAreOnCycles, OverflowIsDeep
<1>6. QED BY <1>1, <1>2, <1>3, <1>4, <1>5 DEF IInv

(* What TypeOK and StackIsPath say of a stack that is not empty.           *)
LEMMA TopFacts ==
  ASSUME IInv, stack # <<>>
  PROVE  /\ Len(stack) \in Nat \ {0}
         /\ Top \in Nodes
         /\ color[Top] = 1
         /\ \A i \in 1..Len(stack) : stack[i] \in Nodes /\ color[stack[i]] = 1
         /\ todo[Top] \subseteq connections
         /\ \A c \in todo[Top] : c.from_node = Top
<1>1. stack \in Seq(Nodes) /\ Len(stack) \in Nat \ {0}
  BY EmptySeq DEF IInv, TypeOK
<1>2. \A i \in 1..Len(stack) : stack[i] \in Nodes /\ stack[i] \in Range(stack)
  BY <1>1 DEF Range
<1>3. Top \in Nodes /\ Top \in Range(stack)
  BY <1>1, <1>2 DEF Top
<1>4. QED BY <1>1, <1>2, <1>3 DEF IInv, TypeOK, StackIsPath, EdgesOutOf

(* Pushing a node that was not seen, below which the search continues.     *)
LEMMA EnterKeepsPath ==
  ASSUME IInv, NEW n \in Nodes, color[n] = 0, Enter(n),
         UNCHANGED connections,
         stack # <<>> => n \in successors(connections, Top)
  PROVE  /\ StackIsPath'
         /\ stack' \in Seq(Nodes)
         /\ Len(stack') = Len(stack) + 1
         /\ \A i \in 1..Len(stack) : stack'[i] = stack[i]
         /\ stack'[Len(stack) + 1] = n
         /\ color' \in [Nodes -> 0..2]
         /\ color'[n] = 1
         /\ \A m \in Nodes \ {n} : color'[m] = color[m]
         /\ Left' = Left
<1> USE DEF IInv, TypeOK
<1>1. /\ stack' = Append(stack, n)
      /\ color' = [color EXCEPT ![n] = 1]
  BY DEF Enter
<1>2. /\ stack' \in Seq(Nodes)
      /\ Len(stack') = Len(stack) + 1
      /\ \A i \in 1..Len(stack) : stack'[i] = stack[i]
      /\ stack'[Len(stack) + 1] = n
      /\ Len(stack) \in Nat
  BY <1>1
<1>3. /\ color' \in [Nodes -> 0..2]
      /\ color'[n] = 1
      /\ \A m \in Nodes \ {n} : color'[m] = color[m]
  BY <1>1
<1>4. /\ Range(stack') = Range(stack) \cup {n}
      /\ \A i \in 1..Len(stack) : stack[i] \in Range(stack)
      /\ n \notin Range(stack)
  <2>1. DOMAIN stack = 1..Len(stack) /\ DOMAIN stack' = 1..(Len(stack) + 1)
    BY <1>2
  <2>2. \A i \in 1..Len(stack) : stack[i] \in Range(stack)
    BY <2>1 DEF Range
  <2>3. n \notin Range(stack)
    BY DEF StackIsPath
  <2>4. Range(stack') \subseteq Range(stack) \cup {n}
    BY <1>2, <2>1 DEF Range
  <2>5. Range(stack) \cup {n} \subseteq Range(stack')
    BY <1>2, <2>1 DEF Range
  <2>6. QED BY <2>2, <2>3, <2>4, <2>5
<1>5. \A m \in Nodes : color'[m] = 1 <=> m \in Range(stack')
  BY <1>3, <1>4 DEF StackIsPath
<1>6. \A i, j \in 1..Len(stack') : stack'[i] = stack'[j] => i = j
  BY <1>2, <1>4 DEF StackIsPath
<1>7. \A i \in 1..(Len(stack') - 1) : stack'[i + 1] \in successors(connections', stack'[i])
  <2> SUFFICES ASSUME NEW i \in 1..Len(stack)
               PROVE  stack'[i + 1] \in successors(connections, stack'[i])
    BY <1>2
  <2>1. CASE i < Len(stack)
    BY <1>2, <2>1 DEF StackIsPath
  <2>2. CASE i = Len(stack)
    <3>1. stack # <<>>
      BY <2>2
    <3>2. QED BY <1>2, <2>2, <3>1 DEF Top
  <2>3. QED BY <1>2, <2>1, <2>2
<1>8. Left' = Left
  BY <1>3 DEF Left
<1>9. QED BY <1>2, <1>3, <1>5, <1>6, <1>7, <1>8 DEF StackIsPath

LEMMA RootInv == IInv /\ Root => IInv'
<1> SUFFICES ASSUME IInv, Root PROVE IInv'
  OBVIOUS
<1> USE DEF IInv
<1>1. PICK n \in Nodes : /\ color[n] = 0
                         /\ Enter(n)
                         /\ todo' = [todo EXCEPT ![n] = EdgesOutOf(n)]
  BY DEF Root
<1>2. /\ outcome = "running" /\ stack = <<>>
      /\ UNCHANGED <<connections, issues, outcome>>
  BY DEF Root
<1>3. /\ StackIsPath'
      /\ stack' \in Seq(Nodes)
      /\ Len(stack') = 1
      /\ stack'[1] = n
      /\ color' \in [Nodes -> 0..2]
      /\ color'[n] = 1
      /\ \A m \in Nodes \ {n} : color'[m] = color[m]
      /\ Left' = Left
  <2>1. Len(stack) = 0
    BY <1>2
  <2>2. QED BY <1>1, <1>2, <2>1, EnterKeepsPath
<1>4. /\ todo' \in [Nodes -> SUBSET connections]
      /\ todo'[n] = EdgesOutOf(n)
      /\ \A m \in Nodes : todo'[m] \subseteq EdgesOutOf(m)'
  BY <1>1, <1>2 DEF TypeOK, EdgesOutOf
<1>5. TypeOK'
  BY <1>2, <1>3, <1>4 DEF TypeOK
<1>6. LookedAt'
  <2>1. \A c \in connections : c.from_node \notin Reported /\ color'[c.from_node] = 2
                                => color'[c.to_node] = 2
    BY <1>1, <1>3, EdgeEnds DEF LookedAt
  <2>2. \A m : EdgesOutOf(m)' = EdgesOutOf(m)
    BY <1>2 DEF EdgesOutOf
  <2>3. \A i \in 1..Len(stack') : EdgesOutOf(stack'[i]) \ todo'[stack'[i]] = {}
    <3>1. \A i \in 1..Len(stack') : stack'[i] = n
      BY <1>3
    <3>2. QED BY <1>4, <3>1
  <2>4. Reported' = Reported
    BY <1>2 DEF Reported
  <2>5. Acyclic(connections', (Left \ Reported)')
    BY <1>2, <1>3, <2>4 DEF LookedAt
  <2>6. QED BY <1>2, <2>1, <2>2, <2>3, <2>4, <2>5 DEF LookedAt
<1>7. IssuesAreOnCycles' /\ OverflowIsDeep'
  BY <1>2 DEF IssuesAreOnCycles, OverflowIsDeep
<1>8. QED BY <1>2, <1>3, <1>4, <1>5, <1>6, <1>7

LEMMA DescendInv == IInv /\ Descend => IInv'
<1> SUFFICES ASSUME IInv, Descend PROVE IInv'
  OBVIOUS
<1> USE DEF IInv
<1>1. PICK c \in todo[Top] :
        /\ color[c.to_node] = 0
        /\ Enter(c.to_node)
        /\ todo' = [todo EXCEPT ![Top] = @ \ {c},
                                ![c.to_node] = EdgesOutOf(c.to_node)]
  BY DEF Descend
<1> DEFINE n == c.to_node
<1>2. /\ outcome = "running" /\ stack # <<>>
      /\ UNCHANGED <<connections, issues, outcome>>
  BY DEF Descend
<1>3. /\ Len(stack) \in Nat \ {0} /\ Top \in Nodes /\ color[Top] = 1
      /\ c \in connections /\ c.from_node = Top
      /\ todo[Top] \subseteq connections
      /\ \A i \in 1..Len(stack) : stack[i] \in Nodes /\ color[stack[i]] = 1
  BY <1>1, <1>2, TopFacts
<1>4. n \in Nodes /\ n # Top /\ n \in successors(connections, Top)
  BY <1>1, <1>3, EdgeEnds DEF successors
<1>5. /\ StackIsPath'
      /\ stack' \in Seq(Nodes)
      /\ Len(stack') = Len(stack) + 1
      /\ \A i \in 1..Len(stack) : stack'[i] = stack[i]
      /\ stack'[Len(stack) + 1] = n
      /\ color' \in [Nodes -> 0..2]
      /\ color'[n] = 1
      /\ \A m \in Nodes \ {n} : color'[m] = color[m]
      /\ Left' = Left
  BY <1>1, <1>2, <1>4, EnterKeepsPath
<1>6. \A m : EdgesOutOf(m)' = EdgesOutOf(m)
  BY <1>2 DEF EdgesOutOf
<1>7. /\ todo' \in [Nodes -> SUBSET connections]
      /\ todo'[n] = EdgesOutOf(n)
      /\ todo'[Top] = todo[Top] \ {c}
      /\ \A m \in Nodes \ {n, Top} : todo'[m] = todo[m]
  BY <1>1, <1>3, <1>4 DEF TypeOK, EdgesOutOf
<1>8. TypeOK'
  BY <1>2, <1>5, <1>7 DEF TypeOK
<1>9. (\A m \in Nodes : todo[m] \subseteq EdgesOutOf(m))'
  BY <1>3, <1>6, <1>7
<1>10. LookedAt'
  <2>1. \A d \in connections : d.from_node \notin Reported /\ color'[d.from_node] = 2
                                => color'[d.to_node] = 2
    BY <1>1, <1>4, <1>5, EdgeEnds DEF LookedAt
  <2>2. ASSUME NEW i \in 1..Len(stack'),
               NEW d \in EdgesOutOf(stack'[i]) \ todo'[stack'[i]],
               d.from_node \notin Reported
        PROVE  \/ color'[d.to_node] = 2
               \/ i < Len(stack') /\ d.to_node = stack'[i + 1]
    <3>1. CASE i = Len(stack')
      BY <1>5, <1>7, <2>2, <3>1
    <3>2. CASE i = Len(stack)
      <4>1. stack'[i] = Top
        BY <1>3, <1>5, <3>2 DEF Top
      <4>2. CASE d = c
        BY <1>3, <1>5, <3>2, <4>2
      <4>3. CASE d # c
        <5>1. d \in EdgesOutOf(Top) \ todo[Top]
          BY <1>7, <2>2, <4>1, <4>3
        <5>2. color[d.to_node] = 2
          BY <1>3, <2>2, <3>2, <5>1 DEF LookedAt, Top
        <5>3. d.to_node \in Nodes
          BY <5>1, EdgeEnds DEF EdgesOutOf
        <5>4. QED BY <1>1, <1>5, <5>2, <5>3
      <4>4. QED BY <4>2, <4>3
    <3>3. CASE i \in 1..(Len(stack) - 1)
      <4>1. stack'[i] = stack[i] /\ stack'[i + 1] = stack[i + 1]
        BY <1>3, <1>5, <3>3
      <4>2. stack[i] \in Nodes \ {n, Top}
        BY <1>1, <1>3, <3>3 DEF StackIsPath, Top
      <4>3. d \in EdgesOutOf(stack[i]) \ todo[stack[i]]
        BY <1>7, <2>2, <4>1, <4>2
      <4>4. color[d.to_node] = 2 \/ d.to_node = stack[i + 1]
        BY <2>2, <3>3, <4>3 DEF LookedAt
      <4>5. d.to_node \in Nodes
        BY <4>3, EdgeEnds DEF EdgesOutOf
      <4>6. QED BY <1>1, <1>3, <1>5, <3>3, <4>1, <4>4, <4>5
    <3>4. QED BY <1>3, <1>5, <3>1, <3>2, <3>3
  <2>3. Reported' = Reported
    BY <1>2 DEF Reported
  <2>4. Acyclic(connections', (Left \ Reported)')
    BY <1>2, <1>5, <2>3 DEF LookedAt
  <2>5. QED BY <1>2, <1>6, <2>1, <2>2, <2>3, <2>4 DEF LookedAt
<1>11. IssuesAreOnCycles' /\ OverflowIsDeep'
  BY <1>2 DEF IssuesAreOnCycles, OverflowIsDeep
<1>12. QED BY <1>2, <1>5, <1>8, <1>9, <1>10, <1>11

-----------------------------------------------------------------------------
(* Going up a path leads from a node into every set that is closed         *)
(* upstream and holds the node: the first node below one outside the set   *)
(* would be in it, and the set not closed.                                 *)
LEMMA PathIsUpstream ==
  ASSUME NEW conns, NEW path, NEW m \in Nat, NEW n \in Nat, NEW S,
         \A i \in m..n : i # n => path[i] \in predecessors(conns, path[i + 1]),
         \A x \in S : predecessors(conns, x) \subseteq S,
         path[n] \in S
  PROVE  \A i \in m..n : path[i] \in S
<1> DEFINE R == OpToRel(<, Nat)
           D == {j \in Nat : n - j \in m..n /\ path[n - j] \notin S}
<1>1. \A x, y \in Nat : <<x, y>> \in R <=> x < y
  BY DEF OpToRel
<1>2. IsWellFoundedOn(R, Nat)
  BY NatLessThanWellFounded
<1> HIDE DEF R
<1>3. SUFFICES ASSUME D # {} PROVE FALSE
  <2> SUFFICES ASSUME NEW i \in m..n, path[i] \notin S PROVE D # {}
    BY <1>3
  <2>1. n - i \in Nat /\ n - (n - i) = i
    OBVIOUS
  <2>2. n - i \in D
    BY <2>1
  <2>3. QED BY <2>2
<1>4. D \in SUBSET Nat
  OBVIOUS
<1> HIDE DEF D
<1>5. PICK d \in D : \A y \in D : <<y, d>> \notin R
  BY <1>2, <1>3, <1>4, WFMin
<1>6. d \in Nat /\ n - d \in m..n /\ path[n - d] \notin S
  BY DEF D
<1>7. d # 0
  BY <1>6
<1>8. d - 1 \in Nat /\ n - (d - 1) = (n - d) + 1 /\ (n - d) + 1 \in m..n /\ n - d # n
  BY <1>6, <1>7
<1>9. d - 1 \notin D
  <2>1. <<d - 1, d>> \in R
    BY <1>1, <1>6, <1>8
  <2>2. QED BY <1>5, <2>1
<1>10. path[(n - d) + 1] \in S
  BY <1>8, <1>9 DEF D
<1>11. path[n - d] \in predecessors(conns, path[(n - d) + 1])
  BY <1>6, <1>8
<1>12. QED BY <1>6, <1>10, <1>11

(* A pair is a connection whose end leads back to its start.               *)
OnCycle(p) ==
  /\ p[2] \in successors(connections, p[1])
  /\ p[1] = p[2] \/ p[2] \in Ancestors(connections, p[1])

(* The connections between a node on the stack and its top, and the one    *)
(* that leads back to it, are a cycle.                                     *)
LEMMA PairsOnCycle ==
  ASSUME IInv, stack # <<>>, NEW c \in todo[Top], NEW start \in 1..Len(stack),
         stack[start] = c.to_node
  PROVE  \A p \in CyclePairs(start) : OnCycle(p)
<1> DEFINE k == Len(stack)
<1>1. /\ k \in Nat \ {0} /\ Top = stack[k] /\ Top \in Nodes
      /\ \A i \in 1..k : stack[i] \in Nodes
      /\ c \in connections /\ c.from_node = Top
  BY TopFacts DEF Top
<1>2. stack[k] \in predecessors(connections, stack[start])
  BY <1>1 DEF predecessors
<1>3. \A i \in 1..(k - 1) : stack[i + 1] \in successors(connections, stack[i])
  BY DEF IInv, StackIsPath
<1>4. \A i \in 1..(k - 1) : stack[i] \in predecessors(connections, stack[i + 1])
  BY <1>3 DEF successors, predecessors
<1> HIDE DEF k
<1>5. ASSUME NEW m \in 1..k, NEW n \in m..k, NEW S \in SUBSET Nodes,
             \A x \in S : predecessors(connections, x) \subseteq S, stack[n] \in S
      PROVE  stack[m] \in S
  <2>1. m \in Nat /\ n \in Nat /\ m \in m..n
    BY <1>1
  <2>2. \A i \in m..n : i # n => stack[i] \in predecessors(connections, stack[i + 1])
    BY <1>1, <1>4, <2>1
  <2>3. QED BY <1>5, <2>1, <2>2, PathIsUpstream
<1>6. ASSUME NEW i \in start..(k - 1) PROVE OnCycle(<<stack[i], stack[i + 1]>>)
  <2>1. i \in 1..(k - 1) /\ i \in 1..k /\ i + 1 \in 1..k /\ start \in 1..k /\ k \in (i + 1)..k
    BY <1>1 DEF k
  <2>2. ASSUME NEW S \in SUBSET Nodes, IsUpstreamClosed(connections, stack[i], S)
        PROVE  stack[i + 1] \in S
    <3>1. predecessors(connections, stack[i]) \subseteq S /\ \A x \in S : predecessors(connections, x) \subseteq S
      BY <2>2 DEF IsUpstreamClosed
    <3>2. stack[k] \in S
      <4>1. CASE i = start
        BY <1>2, <3>1, <4>1
      <4>2. CASE i # start
        <5>1. i - 1 \in 1..(k - 1) /\ i - 1 \in start..k /\ (i - 1) + 1 = i
          BY <1>1, <2>1, <4>2
        <5>2. stack[i - 1] \in S
          BY <1>4, <3>1, <5>1
        <5>3. stack[start] \in S
          BY <1>5, <2>1, <3>1, <5>1, <5>2
        <5>4. QED BY <1>2, <3>1, <5>3
      <4>3. QED BY <4>1, <4>2
    <3>3. QED BY <1>5, <2>1, <3>1, <3>2
  <2>3. stack[i + 1] \in Ancestors(connections, stack[i])
    BY <1>1, <2>1, <2>2 DEF Ancestors
  <2>4. QED BY <1>3, <2>1, <2>3 DEF OnCycle
<1>7. OnCycle(<<Top, stack[start]>>)
  <2>1. stack[start] \in successors(connections, Top)
    BY <1>1 DEF successors
  <2>2. ASSUME start # k, NEW S \in SUBSET Nodes, IsUpstreamClosed(connections, Top, S)
        PROVE  stack[start] \in S
    <3>1. start \in 1..k /\ k - 1 \in 1..(k - 1) /\ k - 1 \in start..k /\ (k - 1) + 1 = k
      BY <1>1, <2>2 DEF k
    <3>2. predecessors(connections, Top) \subseteq S /\ \A x \in S : predecessors(connections, x) \subseteq S
      BY <2>2 DEF IsUpstreamClosed
    <3>3. stack[k - 1] \in S
      BY <1>1, <1>4, <3>1, <3>2
    <3>4. QED BY <1>5, <3>1, <3>2, <3>3
  <2>3. start # k => stack[start] \in Ancestors(connections, Top)
    BY <1>1, <2>2 DEF Ancestors, k
  <2>4. QED BY <1>1, <2>1, <2>3 DEF OnCycle
<1>8. QED BY <1>6, <1>7 DEF CyclePairs, k

LEMMA BackEdgeInv == IInv /\ BackEdge => IInv'
<1> SUFFICES ASSUME IInv, BackEdge PROVE IInv'
  OBVIOUS
<1> USE DEF IInv
<1>1. PICK c \in todo[Top], start \in 1..Len(stack) :
        /\ stack[start] = c.to_node
        /\ issues' = issues \cup CyclePairs(start)
        /\ todo' = [todo EXCEPT ![Top] = @ \ {c}]
  BY DEF BackEdge
<1>2. /\ outcome = "running" /\ stack # <<>>
      /\ UNCHANGED <<connections, color, stack, outcome>>
  BY DEF BackEdge
<1>3. /\ Len(stack) \in Nat \ {0} /\ Top \in Nodes
      /\ c \in connections /\ c.from_node = Top
      /\ todo[Top] \subseteq connections
      /\ \A i \in 1..Len(stack) : stack[i] \in Nodes
  BY <1>1, <1>2, TopFacts
<1>4. \A m : EdgesOutOf(m)' = EdgesOutOf(m)
  BY <1>2 DEF EdgesOutOf
<1>5. /\ todo' \in [Nodes -> SUBSET connections]
      /\ \A m \in Nodes : todo'[m] \subseteq todo[m]
  BY <1>1, <1>3 DEF TypeOK
<1>6. issues' # {} /\ issues' \subseteq Nodes \X Nodes
  <2>1. <<Top, stack[start]>> \in CyclePairs(start)
    BY DEF CyclePairs
  <2>2. \A i \in start..(Len(stack) - 1) : i \in 1..Len(stack) /\ i + 1 \in 1..Len(stack)
    BY <1>3
  <2>3. \A i \in start..(Len(stack) - 1) : <<stack[i], stack[i + 1]>> \in Nodes \X Nodes
    BY <1>3, <2>2
  <2>4. <<Top, stack[start]>> \in Nodes \X Nodes
    BY <1>3
  <2>5. CyclePairs(start) \subseteq Nodes \X Nodes
    BY <2>3, <2>4 DEF CyclePairs
  <2>6. QED BY <1>1, <2>1, <2>5 DEF TypeOK
<1>7. TypeOK'
  BY <1>2, <1>5, <1>6 DEF TypeOK
<1>8. StackIsPath'
  BY <1>2 DEF StackIsPath
<1>9. \A m : m \in Reported \/ m = Top => m \in Reported'
  <2>1. <<Top, stack[start]>> \in issues'
    BY <1>1 DEF CyclePairs
  <2>2. issues \subseteq issues'
    BY <1>1
  <2>3. QED BY <2>1, <2>2 DEF Reported
<1>10. LookedAt'
  <2>1. ASSUME NEW i \in 1..Len(stack),
               NEW d \in EdgesOutOf(stack[i]) \ todo'[stack[i]], d.from_node \notin Reported'
        PROVE  \/ color[d.to_node] = 2
               \/ i < Len(stack) /\ d.to_node = stack[i + 1]
    <3>1. d # c /\ d.from_node \notin Reported
      BY <1>3, <1>9, <2>1
    <3>2. d \in EdgesOutOf(stack[i]) \ todo[stack[i]]
      BY <1>1, <1>3, <2>1, <3>1 DEF TypeOK
    <3>3. QED BY <3>1, <3>2 DEF LookedAt
  <2>2. \A d \in connections : d.from_node \notin Reported' /\ color[d.from_node] = 2
                                => color[d.to_node] = 2
    BY <1>9 DEF LookedAt
  <2>3. (Left \ Reported)' \subseteq Left \ Reported
    BY <1>2, <1>9 DEF Left
  <2>4. Acyclic(connections, (Left \ Reported)')
    BY <2>3 DEF LookedAt, Acyclic
  <2>5. QED BY <1>2, <1>4, <2>1, <2>2, <2>4 DEF LookedAt
<1>11. IssuesAreOnCycles' /\ OverflowIsDeep'
  <2>1. \A p \in CyclePairs(start) : OnCycle(p)
    BY <1>1, <1>2, PairsOnCycle
  <2>2. \A p \in issues : OnCycle(p)
    BY DEF IssuesAreOnCycles, OnCycle
  <2>3. \A p \in issues' : OnCycle(p)
    BY <1>1, <2>1, <2>2
  <2>4. QED BY <1>2, <2>3 DEF IssuesAreOnCycles, OnCycle, OverflowIsDeep
<1>12. (\A m \in Nodes : todo[m] \subseteq EdgesOutOf(m))'
  BY <1>4, <1>5
<1>13. QED BY <1>2, <1>7, <1>8, <1>10, <1>11, <1>12

LEMMA SkipInv == IInv /\ Skip => IInv'
<1> SUFFICES ASSUME IInv, Skip PROVE IInv'
  OBVIOUS
<1> USE DEF IInv
<1>1. PICK c \in todo[Top] : /\ color[c.to_node] = 2
                             /\ todo' = [todo EXCEPT ![Top] = @ \ {c}]
  BY DEF Skip
<1>2. /\ outcome = "running" /\ stack # <<>>
      /\ UNCHANGED <<connections, color, stack, issues, outcome>>
  BY DEF Skip
<1>3. Top \in Nodes /\ \A i \in 1..Len(stack) : stack[i] \in Nodes
  BY <1>2, TopFacts
<1>4. \A m : EdgesOutOf(m)' = EdgesOutOf(m)
  BY <1>2 DEF EdgesOutOf
<1>5. /\ todo' \in [Nodes -> SUBSET connections]
      /\ \A m \in Nodes : todo'[m] \subseteq todo[m] /\ todo[m] \subseteq todo'[m] \cup {c}
  BY <1>1, <1>3 DEF TypeOK
<1>6. TypeOK'
  BY <1>2, <1>5 DEF TypeOK
<1>7. StackIsPath'
  BY <1>2 DEF StackIsPath
<1>8. LookedAt'
  <2>1. ASSUME NEW i \in 1..Len(stack),
               NEW d \in EdgesOutOf(stack[i]) \ todo'[stack[i]], d.from_node \notin Reported
        PROVE  \/ color[d.to_node] = 2
               \/ i < Len(stack) /\ d.to_node = stack[i + 1]
    <3>1. CASE d = c
      BY <1>1, <3>1
    <3>2. CASE d # c
      <4>1. d \in EdgesOutOf(stack[i]) \ todo[stack[i]]
        BY <1>3, <1>5, <2>1, <3>2
      <4>2. QED BY <2>1, <4>1 DEF LookedAt
    <3>3. QED BY <3>1, <3>2
  <2>2. Left' = Left /\ Reported' = Reported
    BY <1>2 DEF Left, Reported
  <2>3. QED BY <1>2, <1>4, <2>1, <2>2 DEF LookedAt
<1>9. (\A m \in Nodes : todo[m] \subseteq EdgesOutOf(m))'
  BY <1>4, <1>5
<1>10. IssuesAreOnCycles' /\ OverflowIsDeep'
  BY <1>2 DEF IssuesAreOnCycles, OverflowIsDeep
<1>11. QED BY <1>2, <1>6, <1>7, <1>8, <1>9, <1>10

(* Leaving a node of which nothing is reported adds it below everything it *)
(* leads to, so the nodes that were left stay free of cycles.              *)
LEMMA LeaveInv == IInv /\ Leave => IInv'
<1> SUFFICES ASSUME IInv, Leave PROVE IInv'
  OBVIOUS
<1> USE DEF IInv
<1> DEFINE t == Top
           k == Len(stack)
<1>1. /\ outcome = "running" /\ stack # <<>>
      /\ todo[t] = {}
      /\ color' = [color EXCEPT ![t] = 2]
      /\ stack' = SubSeq(stack, 1, k - 1)
      /\ UNCHANGED <<connections, todo, issues, outcome>>
  BY DEF Leave
<1>2. /\ k \in Nat \ {0} /\ t \in Nodes /\ color[t] = 1 /\ t = stack[k]
      /\ stack \in Seq(Nodes)
      /\ \A i \in 1..k : stack[i] \in Nodes /\ color[stack[i]] = 1
  BY <1>1, TopFacts DEF TypeOK, Top
<1>3. /\ stack' \in Seq(Nodes)
      /\ Len(stack') = k - 1
      /\ \A i \in 1..(k - 1) : stack'[i] = stack[i]
  <2>1. 1 \in Int /\ k - 1 \in Int /\ \A i \in 1..(k - 1) : stack[i] \in Nodes
    BY <1>2
  <2> DEFINE sub == SubSeq(stack, 1, k - 1)
  <2>2. /\ sub \in Seq(Nodes)
        /\ Len(sub) = IF 1 <= k - 1 THEN (k - 1) - 1 + 1 ELSE 0
        /\ \A i \in 1..((k - 1) - 1 + 1) : sub[i] = stack[1 + i - 1]
    BY <2>1, SubSeqProperties
  <2>3. stack' = sub
    BY <1>1
  <2> HIDE DEF sub
  <2>4. Len(sub) = k - 1
    <3>1. k \in Nat \ {0} /\ Len(sub) = IF 1 <= k - 1 THEN (k - 1) - 1 + 1 ELSE 0
      BY <1>2, <2>2
    <3> HIDE DEF k
    <3>2. CASE k = 1
      BY <3>1, <3>2
    <3>3. CASE k # 1
      <4>1. 1 <= k - 1 /\ (k - 1) - 1 + 1 = k - 1
        BY <3>1, <3>3
      <4>2. QED BY <3>1, <4>1
    <3>4. QED BY <3>2, <3>3
  <2>5. \A i \in 1..(k - 1) : sub[i] = stack[i]
    <3> SUFFICES ASSUME NEW i \in 1..(k - 1) PROVE sub[i] = stack[i]
      OBVIOUS
    <3>1. k \in Nat
      BY <1>2
    <3> HIDE DEF k
    <3>2. i \in 1..((k - 1) - 1 + 1) /\ 1 + i - 1 = i
      BY <3>1
    <3>3. sub[i] = stack[1 + i - 1]
      BY <2>2, <3>2
    <3>4. QED BY <3>2, <3>3
  <2>6. QED BY <2>2, <2>3, <2>4, <2>5
<1>4. /\ color' \in [Nodes -> 0..2]
      /\ color'[t] = 2
      /\ \A m \in Nodes \ {t} : color'[m] = color[m]
  BY <1>1, <1>2 DEF TypeOK
<1>5. \A m : EdgesOutOf(m)' = EdgesOutOf(m)
  BY <1>1 DEF EdgesOutOf
<1>6. TypeOK'
  BY <1>1, <1>3, <1>4 DEF TypeOK
<1>7. \A i \in 1..(k - 1) : stack[i] # t
  BY <1>2 DEF StackIsPath
<1>8. StackIsPath'
  <2>1. /\ DOMAIN stack = 1..k /\ DOMAIN stack' = 1..(k - 1)
    BY <1>2, <1>3
  <2>2. Range(stack') = Range(stack) \ {t}
    <3>1. Range(stack') \subseteq Range(stack) \ {t}
      BY <1>2, <1>3, <1>7, <2>1 DEF Range
    <3>2. ASSUME NEW m \in Range(stack) \ {t} PROVE m \in Range(stack')
      <4>1. PICK i \in 1..k : stack[i] = m
        BY <2>1, <3>2 DEF Range
      <4>2. i \in 1..(k - 1)
        BY <1>2, <3>2, <4>1
      <4>3. QED BY <1>3, <2>1, <4>1, <4>2 DEF Range
    <3>3. QED BY <3>1, <3>2
  <2>3. \A m \in Nodes : color'[m] = 1 <=> m \in Range(stack')
    BY <1>4, <2>2 DEF StackIsPath
  <2>4. \A i, j \in 1..Len(stack') : stack'[i] = stack'[j] => i = j
    BY <1>2, <1>3 DEF StackIsPath
  <2>5. \A i \in 1..(Len(stack') - 1) : stack'[i + 1] \in successors(connections', stack'[i])
    <3>1. \A i \in 1..(k - 2) : stack'[i] = stack[i] /\ stack'[i + 1] = stack[i + 1]
      BY <1>2, <1>3
    <3>2. \A i \in 1..(k - 2) : stack[i + 1] \in successors(connections, stack[i])
      BY <1>2 DEF StackIsPath
    <3>3. QED BY <1>1, <1>2, <1>3, <3>1, <3>2
  <2>6. QED BY <2>3, <2>4, <2>5 DEF StackIsPath
<1>9. LookedAt'
  <2>1. Reported' = Reported /\ t \in Nodes
    BY <1>1, <1>2 DEF Reported
  <2>2. \A c \in connections : c.to_node \in Nodes /\ c.from_node \in Nodes
    BY EdgeEnds
  <2>3. t \notin Reported => \A c \in EdgesOutOf(t) : color[c.to_node] = 2
    <3>1. \A c \in EdgesOutOf(stack[k]) \ todo[stack[k]] :
            c.from_node \in Reported \/ color[c.to_node] = 2 \/ k < k
      BY <1>2 DEF LookedAt
    <3>2. \A c \in EdgesOutOf(t) : c.from_node = t
      BY DEF EdgesOutOf
    <3>3. QED BY <1>1, <1>2, <3>1, <3>2
  <2>4. \A c \in connections : c.from_node \notin Reported /\ color'[c.from_node] = 2
                                => color'[c.to_node] = 2
    <3>1. \A c \in connections : c.from_node = t /\ t \notin Reported => color[c.to_node] = 2
      BY <2>3 DEF EdgesOutOf
    <3>2. \A c \in connections : c.from_node \notin Reported /\ color[c.from_node] = 2
                                  => color[c.to_node] = 2
      BY DEF LookedAt
    <3>3. QED BY <1>4, <2>2, <3>1, <3>2
  <2>5. ASSUME NEW i \in 1..(k - 1),
               NEW c \in EdgesOutOf(stack[i]) \ todo[stack[i]], c.from_node \notin Reported
        PROVE  \/ color'[c.to_node] = 2
               \/ i < k - 1 /\ c.to_node = stack'[i + 1]
    <3>1. \/ color[c.to_node] = 2
          \/ i < k /\ c.to_node = stack[i + 1]
      BY <1>2, <2>5 DEF LookedAt
    <3>2. c.to_node \in Nodes
      BY <2>2 DEF EdgesOutOf
    <3>3. CASE color[c.to_node] = 2
      BY <1>4, <3>2, <3>3
    <3>4. CASE c.to_node = stack[i + 1] /\ i = k - 1
      <4>1. stack[i + 1] = t
        BY <1>2, <3>4
      <4>2. QED BY <1>4, <3>4, <4>1
    <3>5. CASE c.to_node = stack[i + 1] /\ i # k - 1
      <4>1. i < k - 1 /\ stack'[i + 1] = stack[i + 1]
        BY <1>2, <1>3, <3>5
      <4>2. QED BY <3>5, <4>1
    <3>6. QED BY <3>1, <3>3, <3>4, <3>5
  <2>6. \A i \in 1..Len(stack') : \A c \in EdgesOutOf(stack'[i]) \ todo'[stack'[i]] :
          \/ c.from_node \in Reported
          \/ color'[c.to_node] = 2
          \/ i < Len(stack') /\ c.to_node = stack'[i + 1]
    BY <1>1, <1>2, <1>3, <2>5
  <2>7. Left' = Left \cup {t}
    BY <1>2, <1>4 DEF Left
  <2>8. ASSUME NEW S \in SUBSET ((Left \cup {t}) \ Reported), S # {}
        PROVE  \E n \in S : predecessors(connections, n) \cap S = {}
    <3>1. CASE t \in S
      <4>1. t \notin Reported
        BY <2>8, <3>1
      <4>2. t \notin predecessors(connections, t)
        BY <1>2, <2>3, <4>1 DEF predecessors, EdgesOutOf
      <4>3. ASSUME NEW n \in S, n # t, n \in predecessors(connections, t) PROVE FALSE
        <5>1. PICK c \in connections : c.from_node = n /\ c.to_node = t
          BY <4>3 DEF predecessors
        <5>2. n \notin Reported /\ color[n] = 2
          BY <2>8, <4>3 DEF Left
        <5>3. color[t] = 2
          BY <5>1, <5>2 DEF LookedAt
        <5>4. QED BY <1>2, <5>3
      <4>4. predecessors(connections, t) \cap S = {}
        BY <4>2, <4>3
      <4>5. QED BY <3>1, <4>4
    <3>2. CASE t \notin S
      <4>1. S \in SUBSET (Left \ Reported)
        BY <2>8, <3>2
      <4>2. QED BY <2>8, <4>1 DEF LookedAt, Acyclic
    <3>3. QED BY <3>1, <3>2
  <2>9. Acyclic(connections, (Left \cup {t}) \ Reported)
    BY <2>8 DEF Acyclic
  <2>10. Acyclic(connections', (Left \ Reported)')
    BY <1>1, <2>1, <2>7, <2>9
  <2>11. QED BY <1>1, <1>5, <2>1, <2>4, <2>6, <2>10 DEF LookedAt
<1>10. (\A n \in Nodes : todo[n] \subseteq EdgesOutOf(n))'
  BY <1>1, <1>5
<1>11. IssuesAreOnCycles' /\ OverflowIsDeep'
  BY <1>1 DEF IssuesAreOnCycles, OverflowIsDeep
<1>12. QED BY <1>1, <1>6, <1>8, <1>9, <1>10, <1>11

(* Where the graph, the colours and the stack stay, most of it stays.      *)
LEMMA SameSearch ==
  ASSUME IInv, UNCHANGED <<connections, color, stack, todo, issues>>,
         outcome' \in {"running", "done", "recursion_error"}
  PROVE  /\ TypeOK' /\ StackIsPath' /\ LookedAt' /\ IssuesAreOnCycles'
         /\ (\A n \in Nodes : todo[n] \subseteq EdgesOutOf(n))'
         /\ Left' = Left /\ Top' = Top
<1>1. \A m : EdgesOutOf(m)' = EdgesOutOf(m)
  BY DEF EdgesOutOf
<1>2. Left' = Left /\ Reported' = Reported /\ Top' = Top
  BY DEF Left, Reported, Top
<1>3. TypeOK' /\ StackIsPath' /\ IssuesAreOnCycles'
  BY DEF IInv, TypeOK, StackIsPath, IssuesAreOnCycles
<1>4. LookedAt'
  BY <1>1, <1>2 DEF IInv, LookedAt
<1>5. QED BY <1>1, <1>2, <1>3, <1>4 DEF IInv

LEMMA OverflowInv == IInv /\ Overflow => IInv'
<1> SUFFICES ASSUME IInv, Overflow PROVE IInv'
  OBVIOUS
<1>1. /\ outcome' = "recursion_error" /\ stack # <<>> /\ Len(stack) = MaxDepth
      /\ UNCHANGED <<connections, color, stack, todo, issues>>
  BY DEF Overflow
<1>2. \E c \in connections : c.from_node = Top /\ color[c.to_node] = 0
  BY <1>1, TopFacts DEF Overflow
<1>3. /\ TypeOK' /\ StackIsPath' /\ LookedAt' /\ IssuesAreOnCycles'
      /\ (\A n \in Nodes : todo[n] \subseteq EdgesOutOf(n))'
      /\ Left' = Left /\ Top' = Top
  BY <1>1, SameSearch
<1>4. OverflowIsDeep'
  BY <1>1, <1>2, <1>3 DEF OverflowIsDeep
<1>5. QED BY <1>1, <1>3, <1>4 DEF IInv

LEMMA ReturnInv == IInv /\ Return => IInv'
<1> SUFFICES ASSUME IInv, Return PROVE IInv'
  OBVIOUS
<1>1. /\ stack = <<>>
      /\ \A n \in Nodes : color[n] # 0
      /\ outcome' = "done"
      /\ UNCHANGED <<connections, color, stack, todo, issues>>
  BY DEF Return
<1>2. /\ TypeOK' /\ StackIsPath' /\ LookedAt' /\ IssuesAreOnCycles'
      /\ (\A n \in Nodes : todo[n] \subseteq EdgesOutOf(n))'
      /\ Left' = Left /\ Top' = Top
  BY <1>1, SameSearch
<1>3. Left = Nodes
  <2>1. Range(stack) = {}
    BY <1>1 DEF Range
  <2>2. \A n \in Nodes : color[n] \in 0..2 /\ color[n] # 0 /\ color[n] # 1
    BY <1>1, <2>1 DEF IInv, TypeOK, StackIsPath
  <2>3. QED BY <2>2 DEF Left
<1>4. QED BY <1>1, <1>2, <1>3 DEF IInv, OverflowIsDeep

LEMMA StutterInv == IInv /\ UNCHANGED vars => IInv'
<1> SUFFICES ASSUME IInv, UNCHANGED vars PROVE IInv'
  OBVIOUS
<1>1. UNCHANGED <<connections, color, stack, todo, issues, outcome>>
  BY DEF vars
<1>2. outcome' \in {"running", "done", "recursion_error"}
  BY <1>1 DEF IInv, TypeOK
<1>3. /\ TypeOK' /\ StackIsPath' /\ LookedAt' /\ IssuesAreOnCycles'
      /\ (\A n \in Nodes : todo[n] \subseteq EdgesOutOf(n))'
      /\ Left' = Left /\ Top' = Top
  BY <1>1, <1>2, SameSearch
<1>4. OverflowIsDeep'
  BY <1>1, <1>3 DEF IInv, OverflowIsDeep
<1>5. QED BY <1>1, <1>3, <1>4 DEF IInv

(* The inductive invariant holds in every reachable state of the search,   *)
(* for every graph, self loops and knots of cycles included.               *)
THEOREM Invariance == Spec => []IInv
<1>1. Init => IInv
  BY InitInv
<1>2. IInv /\ [Next]_vars => IInv'
  <2> SUFFICES ASSUME IInv, [Next]_vars PROVE IInv'
    OBVIOUS
  <2>1. CASE Root
    BY <2>1, RootInv
  <2>2. CASE Descend
    BY <2>2, DescendInv
  <2>3. CASE Overflow
    BY <2>3, OverflowInv
  <2>4. CASE BackEdge
    BY <2>4, BackEdgeInv
  <2>5. CASE Skip
    BY <2>5, SkipInv
  <2>6. CASE Leave
    BY <2>6, LeaveInv
  <2>7. CASE Return
    BY <2>7, ReturnInv
  <2>8. CASE UNCHANGED vars
    BY <2>8, StutterInv
  <2>9. QED BY <2>1, <2>2, <2>3, <2>4, <2>5, <2>6, <2>7, <2>8 DEF Next
<1>3. QED BY <1>1, <1>2, PTL DEF Spec

(* The variables keep their types.                                         *)
THEOREM TypeCorrect == Spec => []TypeOK
<1>1. IInv => TypeOK
  BY DEF IInv
<1>2. QED BY <1>1, Invariance, PTL

(* What leads to a node leads to it through one of its predecessors.       *)
LEMMA LastStep ==
  ASSUME IsConnections(connections), NEW n \in Nodes, NEW a \in Ancestors(connections, n)
  PROVE  \/ a \in predecessors(connections, n)
         \/ \E q \in predecessors(connections, n) : a \in Ancestors(connections, q)
<1> DEFINE P == predecessors(connections, n)
           S == P \cup UNION {Ancestors(connections, q) : q \in P}
<1>1. P \subseteq Nodes
  BY DEF IsConnections, Connection, predecessors
<1>2. \A q \in P : /\ predecessors(connections, q) \subseteq Ancestors(connections, q)
                   /\ \A x \in Ancestors(connections, q) :
                        predecessors(connections, x) \subseteq Ancestors(connections, q)
  BY <1>1, AncestorsClosed
<1>3. S \in SUBSET Nodes
  BY <1>1 DEF Ancestors
<1>4. IsUpstreamClosed(connections, n, S)
  BY <1>2 DEF IsUpstreamClosed
<1>5. Ancestors(connections, n) \subseteq S
  BY <1>3, <1>4 DEF Ancestors
<1>6. QED BY <1>5

(* A node that leads to itself is in a knot: everything on a cycle with it *)
(* has a predecessor that is on a cycle with it too.                       *)
LEMMA KnotHasNoFirst ==
  ASSUME IsConnections(connections), NEW n \in Nodes, n \in Ancestors(connections, n)
  PROVE  ~ Acyclic(connections, {m \in Nodes : OnOneCycle(n, m)})
<1> DEFINE K == {m \in Nodes : OnOneCycle(n, m)}
<1>1. n \in K
  BY DEF OnOneCycle
<1>2. ASSUME NEW m \in K PROVE predecessors(connections, m) \cap K # {}
  <2>1. m \in Nodes /\ n \in Ancestors(connections, m) /\ m \in Ancestors(connections, n)
    BY DEF OnOneCycle
  <2>2. \A q \in predecessors(connections, m) : q \in Nodes /\ q \in Ancestors(connections, n)
    BY <2>1, AncestorsClosed DEF IsConnections, Connection, predecessors
  <2>3. CASE n \in predecessors(connections, m)
    BY <1>1, <2>3
  <2>4. CASE \E q \in predecessors(connections, m) : n \in Ancestors(connections, q)
    BY <2>2, <2>4 DEF OnOneCycle
  <2>5. QED BY <2>1, <2>3, <2>4, LastStep
<1>3. QED BY <1>1, <1>2 DEF Acyclic

(* The start of a reported connection leads to itself.                     *)
LEMMA ReportedIsKnotted ==
  ASSUME IInv, NEW p \in issues
  PROVE  p[1] \in Nodes /\ p[1] \in Ancestors(connections, p[1])
<1>1. IsConnections(connections) /\ p[1] \in Nodes /\ p[2] \in Nodes
  BY DEF IInv, TypeOK
<1>2. p[1] \in predecessors(connections, p[2]) /\ (p[1] = p[2] \/ p[2] \in Ancestors(connections, p[1]))
  BY DEF IInv, IssuesAreOnCycles, successors, predecessors
<1>3. /\ predecessors(connections, p[1]) \subseteq Ancestors(connections, p[1])
      /\ \A a \in Ancestors(connections, p[1]) :
           predecessors(connections, a) \subseteq Ancestors(connections, p[1])
  BY <1>1, AncestorsClosed
<1>4. QED BY <1>1, <1>2, <1>3

(* Every reported pair is a connection on a cycle, for every graph.        *)
THEOREM IssuesAreAlwaysOnCycles == Spec => []IssuesAreOnCycles
<1>1. IInv => IssuesAreOnCycles
  BY DEF IInv
<1>2. QED BY <1>1, Invariance, PTL

(* A search that ends has reported a connection of each knot of cycles,    *)
(* whatever order it took the nodes and connections in.                    *)
THEOREM NoKnotIsMissed == Spec => []EveryKnotReported
<1>1. IInv => EveryKnotReported
  <2> SUFFICES ASSUME IInv, outcome = "done", NEW n \in Nodes, n \in Ancestors(connections, n),
                      ~ \E p \in issues : OnOneCycle(n, p[1])
               PROVE  FALSE
    BY DEF EveryKnotReported
  <2> DEFINE K == {m \in Nodes : OnOneCycle(n, m)}
  <2>1. Left = Nodes /\ Acyclic(connections, Left \ Reported) /\ IsConnections(connections)
    BY DEF IInv, LookedAt, TypeOK
  <2>2. K \subseteq Left \ Reported
    BY <2>1 DEF Reported
  <2>3. Acyclic(connections, K)
    BY <2>1, <2>2 DEF Acyclic
  <2>4. QED BY <2>1, <2>3, KnotHasNoFirst
<1>2. QED BY <1>1, Invariance, PTL

(* A search that returns no issue has shown the graph to be acyclic, and   *)
(* one that returns an issue has found a cycle.                            *)
THEOREM CleanIsAcyclic == Spec => []CleanMeansAcyclic
<1>1. IInv => CleanMeansAcyclic
  <2> SUFFICES ASSUME IInv, outcome = "done"
               PROVE  issues = {} <=> Acyclic(connections, Nodes)
    BY DEF CleanMeansAcyclic
  <2>1. Left = Nodes /\ Acyclic(connections, Left \ Reported) /\ IsConnections(connections)
    BY DEF IInv, LookedAt, TypeOK
  <2>2. ASSUME issues = {} PROVE Acyclic(connections, Nodes)
    <3>1. Left \ Reported = Nodes
      BY <2>1, <2>2 DEF Reported
    <3>2. QED BY <2>1, <3>1
  <2>3. ASSUME issues # {} PROVE ~ Acyclic(connections, Nodes)
    <3>1. PICK p \in issues : TRUE
      BY <2>3
    <3> DEFINE K == {m \in Nodes : OnOneCycle(p[1], m)}
    <3>2. ~ Acyclic(connections, K)
      BY <2>1, ReportedIsKnotted, KnotHasNoFirst
    <3>3. K \subseteq Nodes
      OBVIOUS
    <3> HIDE DEF K
    <3>4. QED BY <3>2, <3>3 DEF Acyclic
  <2>4. QED BY <2>2, <2>3
<1>2. QED BY <1>1, Invariance, PTL

(* RecursionError means a path of MaxDepth + 1 different nodes.            *)
THEOREM OverflowIsAlwaysDeep == Spec => []OverflowMeansDeepPath
<1>1. IInv => OverflowMeansDeepPath
  <2> SUFFICES ASSUME IInv, outcome = "recursion_error"
               PROVE  \E n \in Nodes :
                        /\ Cardinality(Range(Append(stack, n))) = MaxDepth + 1
                        /\ \A i \in 1..MaxDepth :
                             Append(stack, n)[i + 1] \in successors(connections, Append(stack, n)[i])
    BY DEF OverflowMeansDeepPath
  <2>1. PICK c \in connections : c.from_node = Top /\ color[c.to_node] = 0
    BY DEF IInv, OverflowIsDeep
  <2> DEFINE n == c.to_node
             path == Append(stack, n)
  <2>2. /\ n \in Nodes /\ stack \in Seq(Nodes) /\ Len(stack) = MaxDepth
        /\ MaxDepth \in Nat \ {0} /\ Top = stack[MaxDepth]
    BY EdgeEnds, DepthAssumption DEF IInv, TypeOK, OverflowIsDeep, Top
  <2>3. n \in successors(connections, Top) /\ n \notin Range(stack)
    BY <2>1, <2>2 DEF successors, IInv, StackIsPath
  <2> HIDE DEF n
  <2>4. /\ path \in Seq(Nodes) /\ Len(path) = MaxDepth + 1
        /\ \A i \in 1..MaxDepth : path[i] = stack[i] /\ stack[i] \in Range(stack)
        /\ path[MaxDepth + 1] = n
    BY <2>2, AppendProperties, RangeEquality
  <2> HIDE DEF path
  <2>5. \A i \in 1..MaxDepth : path[i + 1] \in successors(connections, path[i])
    <3> SUFFICES ASSUME NEW i \in 1..MaxDepth
                 PROVE  path[i + 1] \in successors(connections, path[i])
      OBVIOUS
    <3>1. CASE i = MaxDepth
      BY <2>2, <2>3, <2>4, <3>1
    <3>2. CASE i # MaxDepth
      <4>1. i \in 1..(MaxDepth - 1) /\ i + 1 \in 1..MaxDepth
        BY <2>2, <3>2
      <4>2. stack[i + 1] \in successors(connections, stack[i])
        BY <2>2, <4>1 DEF IInv, StackIsPath
      <4>3. QED BY <2>4, <4>1, <4>2
    <3>3. QED BY <3>1, <3>2
  <2>6. \A i, j \in 1..(MaxDepth + 1) : path[i] = path[j] => i = j
    <3>1. \A i, j \in 1..MaxDepth : stack[i] = stack[j] => i = j
      BY <2>2 DEF IInv, StackIsPath
    <3>2. \A i \in 1..(MaxDepth + 1) : i = MaxDepth + 1 \/ i \in 1..MaxDepth
      BY <2>2
    <3>3. QED BY <2>3, <2>4, <3>1, <3>2
  <2>7. Cardinality(Range(path)) = MaxDepth + 1
    <3>1. DOMAIN path = 1..(MaxDepth + 1)
      BY <2>2, <2>4
    <3>2. path \in [1..(MaxDepth + 1) -> Range(path)]
      BY <2>4, <3>1 DEF Range
    <3>3. path \in Injection(1..(MaxDepth + 1), Range(path))
      BY <2>6, <3>2, Fun_IsInj
    <3>4. \A x \in Range(path) : \E i \in 1..(MaxDepth + 1) : path[i] = x
      BY <3>1 DEF Range
    <3>5. path \in Surjection(1..(MaxDepth + 1), Range(path))
      BY <3>2, <3>4, Fun_IsSurj
    <3>6. IsFiniteSet(1..(MaxDepth + 1)) /\ Cardinality(1..(MaxDepth + 1)) = MaxDepth + 1
      BY <2>2, FS_Interval
    <3>7. QED BY <3>3, <3>5, <3>6, FS_Surjection
  <2>8. QED BY <2>2, <2>5, <2>7 DEF path
<1>2. QED BY <1>1, Invariance, PTL
=============================================================================
