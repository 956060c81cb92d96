------------------------- MODULE CanReferenceProofs -------------------------
(***************************************************************************)
(* Proofs about CanReference, for every graph, cyclic ones included.       *)
(***************************************************************************)
EXTENDS CanReference, FiniteSetTheorems, TLAPS

(* The upstream closure of a node is itself closed upstream.               *)
LEMMA AncestorsClosed ==
  ASSUME NEW conns, IsConnections(conns), NEW n \in Nodes
  PROVE  /\ predecessors(conns, n) \subseteq Ancestors(conns, n)
         /\ \A a \in Ancestors(conns, n) : predecessors(conns, a) \subseteq Ancestors(conns, n)
<1>1. \A m : predecessors(conns, m) \subseteq Nodes
  BY DEF IsConnections, Connection, predecessors
<1>2. predecessors(conns, n) \subseteq Ancestors(conns, n)
  BY <1>1 DEF Ancestors, IsUpstreamClosed
<1>3. ASSUME NEW a \in Ancestors(conns, n), NEW m \in predecessors(conns, a)
      PROVE  m \in Ancestors(conns, n)
  <2>1. \A S \in SUBSET Nodes : IsUpstreamClosed(conns, n, S) => m \in S
    BY <1>3 DEF Ancestors, IsUpstreamClosed
  <2>2. QED BY <1>1, <1>3, <2>1 DEF Ancestors
<1>4. QED BY <1>2, <1>3

(* It is the least set closed upstream.                                    *)
LEMMA AncestorsLeast ==
  ASSUME NEW conns, NEW n, NEW S \in SUBSET Nodes, IsUpstreamClosed(conns, n, S)
  PROVE  Ancestors(conns, n) \subseteq S
BY DEF Ancestors

(* What TypeOK gives the lemmas about Ancestors.                           *)
LEMMA UpstreamTypes ==
  ASSUME TypeOK
  PROVE  /\ target \in Nodes
         /\ source \in Nodes
         /\ IsConnections(UpstreamEdges)
         /\ Suppliers \subseteq Nodes
         /\ \A n : upstream(n) \subseteq Suppliers
<1>1. target \in Nodes /\ source \in Nodes
  BY DEF TypeOK
<1>2. UpstreamEdges \subseteq connections
  BY DEF UpstreamEdges
<1>3. IsConnections(UpstreamEdges)
  BY <1>2, FS_Subset DEF TypeOK, IsConnections
<1>4. Suppliers \subseteq Nodes
  BY <1>3 DEF IsConnections, Connection, Suppliers
<1>5. \A n : upstream(n) \subseteq Suppliers
  BY DEF Suppliers, upstream, predecessors
<1>6. QED BY <1>1, <1>3, <1>4, <1>5

LEMMA InitInv == Init => IInv
BY DEF Init, Start, IInv, TypeOK, AnswerIsAncestry, Answered

(* The closure does not change, for the arguments do not.                  *)
LEMMA SameGraph ==
  ASSUME UNCHANGED arguments
  PROVE  /\ Ancestors(UpstreamEdges, target)' = Ancestors(UpstreamEdges, target)
         /\ Suppliers' = Suppliers
         /\ \A n : upstream(n)' = upstream(n)
BY DEF arguments, UpstreamEdges, Suppliers, upstream, Ancestors, IsUpstreamClosed, predecessors

LEMMA RefuseInv == IInv /\ Refuse => IInv'
<1> SUFFICES ASSUME IInv, Refuse PROVE IInv'
  OBVIOUS
<1>1. TypeOK'
  BY SameGraph DEF IInv, TypeOK, Refuse, arguments
<1>2. UNCHANGED arguments /\ outcome' = "unreachable"
  BY DEF Refuse
<1>3. source = target \/ source \notin Ancestors(UpstreamEdges, target)
  <2>1. CASE source = target
    BY <2>1
  <2>2. CASE upstream(target) = {}
    <3>1. IsUpstreamClosed(UpstreamEdges, target, {})
      BY <2>2 DEF IsUpstreamClosed, upstream
    <3>2. QED BY <3>1, AncestorsLeast
  <2>3. QED BY <2>1, <2>2 DEF Refuse
<1>4. AnswerIsAncestry'
  BY <1>2, <1>3, SameGraph DEF AnswerIsAncestry, arguments
<1>5. QED BY <1>1, <1>2, <1>4 DEF IInv

LEMMA BeginInv == IInv /\ Begin => IInv'
<1> SUFFICES ASSUME IInv, Begin PROVE IInv'
  OBVIOUS
<1>1. /\ UNCHANGED <<arguments, visited>>
      /\ outcome = "called" /\ outcome' = "searching"
      /\ source # target /\ stack' = upstream(target)
  BY DEF Begin
<1>2. TypeOK'
  BY <1>1, UpstreamTypes, SameGraph DEF IInv, TypeOK, arguments
<1>3. visited = {}
  BY <1>1 DEF IInv
<1>4. AnswerIsAncestry'
  BY <1>1 DEF AnswerIsAncestry, Answered
<1>5. /\ Met' = upstream(target)
      /\ upstream(target) \subseteq Ancestors(UpstreamEdges, target)
  BY <1>1, <1>3, UpstreamTypes, AncestorsClosed DEF Met, IInv, upstream
<1>6. QED BY <1>1, <1>2, <1>3, <1>4, <1>5, SameGraph DEF IInv, arguments

LEMMA FoundInv == IInv /\ Found => IInv'
<1> SUFFICES ASSUME IInv, Found PROVE IInv'
  OBVIOUS
<1>1. /\ UNCHANGED <<arguments, visited>>
      /\ outcome = "searching" /\ outcome' = "reachable"
      /\ source \in stack /\ stack' = stack \ {source}
  BY DEF Found
<1>2. TypeOK'
  BY <1>1, SameGraph DEF IInv, TypeOK, arguments
<1>3. source # target /\ source \in Ancestors(UpstreamEdges, target)
  BY <1>1 DEF IInv, Met
<1>4. AnswerIsAncestry'
  BY <1>1, <1>3, SameGraph DEF AnswerIsAncestry, arguments
<1>5. QED BY <1>1, <1>2, <1>4 DEF IInv

LEMMA DiscardInv == IInv /\ Discard => IInv'
<1> SUFFICES ASSUME IInv, Discard PROVE IInv'
  OBVIOUS
<1>1. /\ UNCHANGED <<arguments, visited, outcome>>
      /\ outcome = "searching"
      /\ \E node \in stack \cap visited : stack' = stack \ {node}
  BY DEF Discard
<1>2. TypeOK'
  BY <1>1, SameGraph DEF IInv, TypeOK, arguments
<1>3. Met' = Met
  BY <1>1 DEF Met
<1>4. AnswerIsAncestry'
  BY <1>1 DEF AnswerIsAncestry, Answered
<1>5. QED BY <1>1, <1>2, <1>3, <1>4, SameGraph DEF IInv, arguments

LEMMA ExpandInv == IInv /\ Expand => IInv'
<1> SUFFICES ASSUME IInv, Expand PROVE IInv'
  OBVIOUS
<1>1. PICK node \in stack \ visited :
        /\ node # source
        /\ visited' = visited \cup {node}
        /\ stack' = (stack \ {node}) \cup upstream(node)
  BY DEF Expand
<1>2. UNCHANGED <<arguments, outcome>> /\ outcome = "searching"
  BY DEF Expand
<1>3. TypeOK'
  BY <1>1, <1>2, UpstreamTypes, SameGraph DEF IInv, TypeOK, arguments
<1>4. Met' = Met \cup upstream(node)
  BY <1>1 DEF Met
<1>5. upstream(node) \subseteq Ancestors(UpstreamEdges, target)
  <2>1. node \in Ancestors(UpstreamEdges, target)
    BY <1>2 DEF IInv, Met
  <2>2. QED BY <2>1, UpstreamTypes, AncestorsClosed DEF IInv, upstream
<1>6. AnswerIsAncestry'
  BY <1>2 DEF AnswerIsAncestry, Answered
<1>7. Met' \subseteq Ancestors(UpstreamEdges, target) /\ upstream(target) \subseteq Met'
  BY <1>2, <1>4, <1>5 DEF IInv
<1>8. \A n \in visited' : upstream(n) \subseteq Met'
  BY <1>1, <1>2, <1>4 DEF IInv
<1>9. source # target /\ source \notin visited'
  BY <1>1, <1>2 DEF IInv
<1>10. QED BY <1>2, <1>3, <1>6, <1>7, <1>8, <1>9, SameGraph DEF IInv, arguments

(* Once the stack is empty the visited nodes are closed upstream, so they  *)
(* hold the whole closure, and source is not among them.                   *)
LEMMA ExhaustedInv == IInv /\ Exhausted => IInv'
<1> SUFFICES ASSUME IInv, Exhausted PROVE IInv'
  OBVIOUS
<1>1. /\ UNCHANGED <<arguments, stack, visited>>
      /\ outcome = "searching" /\ stack = {} /\ outcome' = "unreachable"
  BY DEF Exhausted
<1>2. TypeOK'
  BY <1>1, SameGraph DEF IInv, TypeOK, arguments
<1>3. IsUpstreamClosed(UpstreamEdges, target, visited)
  BY <1>1 DEF IInv, Met, IsUpstreamClosed, upstream
<1>4. source \notin Ancestors(UpstreamEdges, target)
  BY <1>1, <1>3, AncestorsLeast, UpstreamTypes DEF IInv, TypeOK
<1>5. AnswerIsAncestry'
  BY <1>1, <1>4, SameGraph DEF AnswerIsAncestry, arguments
<1>6. QED BY <1>1, <1>2, <1>5 DEF IInv

LEMMA StutterInv == IInv /\ UNCHANGED vars => IInv'
BY SameGraph DEF vars, arguments, IInv, TypeOK, AnswerIsAncestry, Answered, Met

(* The inductive invariant holds in every reachable state of the search.   *)
THEOREM Invariance == Spec => []IInv
<1>1. Init => IInv
  BY InitInv
<1>2. IInv /\ [Next]_vars => IInv'
  BY RefuseInv, BeginInv, FoundInv, DiscardInv, ExpandInv, ExhaustedInv, StutterInv
     DEF Next
<1>3. QED BY <1>1, <1>2, PTL DEF Spec

(* The variables keep their types.                                         *)
THEOREM TypeCorrect == Spec => []TypeOK
<1>1. IInv => TypeOK
  BY DEF IInv
<1>2. QED BY <1>1, Invariance, PTL

(* can_reference answers exactly whether source is another node of the     *)
(* upstream closure of target.                                             *)
THEOREM AnswerIsExact == Spec => []AnswerIsAncestry
<1>1. IInv => AnswerIsAncestry
  BY DEF IInv
<1>2. QED BY <1>1, Invariance, PTL
=============================================================================
