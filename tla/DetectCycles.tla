---------------------------- MODULE DetectCycles ----------------------------
(***************************************************************************)
(* detect_cycles (checker/validator.py): the recursive depth-first search  *)
(* in three colours over the main connections, unrolled: `stack` is the    *)
(* program's list, which mirrors its recursion, and todo[n] is what the    *)
(* frame of n still has to look at of adjacency[n].                        *)
(*                                                                         *)
(* The search takes nodes and connections in dict and list order; here any *)
(* order is possible, so what holds does not depend on it.                 *)
(***************************************************************************)
EXTENDS Ast, Sequences, Functions

CONSTANT MaxDepth   \* frames dfs may nest before Python raises RecursionError

ASSUME DepthAssumption == MaxDepth \in Nat \ {0}

VARIABLES
  connections,   \* ast.connections
  color,         \* `state`: 0 not seen, 1 on the stack, 2 left
  stack,         \* the path from the root of the search
  todo,          \* connections the frame of each node has not looked at
  issues,        \* pairs (start_node, end_node) reported as cycle_detected
  outcome        \* "running", "done" or "recursion_error"

vars == <<connections, color, stack, todo, issues, outcome>>

Top == stack[Len(stack)]

EdgesOutOf(n) == {c \in connections : c.from_node = n}

Start ==
  /\ color = [n \in Nodes |-> 0]
  /\ stack = <<>>
  /\ todo = [n \in Nodes |-> {}]
  /\ issues = {}
  /\ outcome = "running"

Init == IsConnections(connections) /\ Start

(* The head of dfs(n).                                                     *)
Enter(n) ==
  /\ color' = [color EXCEPT ![n] = 1]
  /\ stack' = Append(stack, n)

(* `for node in ast.nodes: if state[node] == 0: dfs(node)`                 *)
Root ==
  /\ outcome = "running"
  /\ stack = <<>>
  /\ \E n \in Nodes :
       /\ color[n] = 0
       /\ Enter(n)
       /\ todo' = [todo EXCEPT ![n] = EdgesOutOf(n)]
  /\ UNCHANGED <<connections, issues, outcome>>

(* The next successor has not been seen: recurse into it.                  *)
Descend ==
  /\ outcome = "running"
  /\ stack # <<>>
  /\ Len(stack) < MaxDepth
  /\ \E c \in todo[Top] :
       /\ color[c.to_node] = 0
       /\ Enter(c.to_node)
       /\ todo' = [todo EXCEPT ![Top] = @ \ {c},
                               ![c.to_node] = EdgesOutOf(c.to_node)]
  /\ UNCHANGED <<connections, issues, outcome>>

(* The recursive call comes before the test of the colour.                 *)
OverflowUntested ==
  /\ outcome = "running"
  /\ stack # <<>>
  /\ Len(stack) = MaxDepth
  /\ todo[Top] # {}
  /\ outcome' = "recursion_error"
  /\ UNCHANGED <<connections, color, stack, todo, issues>>

(* Recursing would exceed the interpreter's limit: the exception leaves    *)
(* detect_cycles and compile_ast.                                          *)
Overflow ==
  /\ outcome = "running"
  /\ stack # <<>>
  /\ Len(stack) = MaxDepth
  /\ \E c \in todo[Top] : color[c.to_node] = 0
  /\ outcome' = "recursion_error"
  /\ UNCHANGED <<connections, color, stack, todo, issues>>

(* The way to the cycle is reported with it.                               *)
CyclePairsOfStack(start) ==
  {<<stack[i], stack[i + 1]>> : i \in 1..(Len(stack) - 1)} \cup {<<Top, stack[start]>>}

(* The pairs of neighbours on stack[start:] + [stack[start]].              *)
CyclePairs(start) ==
  {<<stack[i], stack[i + 1]>> : i \in start..(Len(stack) - 1)} \cup {<<Top, stack[start]>>}

(* Only the first cycle is reported.                                       *)
BackEdgeOnce ==
  /\ outcome = "running"
  /\ stack # <<>>
  /\ \E c \in todo[Top] : \E start \in 1..Len(stack) :
       /\ stack[start] = c.to_node
       /\ issues' = IF issues = {} THEN CyclePairs(start) ELSE issues
       /\ todo' = [todo EXCEPT ![Top] = @ \ {c}]
  /\ UNCHANGED <<connections, color, stack, outcome>>

(* The next successor is on the stack: every connection of the cycle that  *)
(* closes is reported.                                                     *)
BackEdge ==
  /\ outcome = "running"
  /\ stack # <<>>
  /\ \E c \in todo[Top] : \E start \in 1..Len(stack) :
       /\ stack[start] = c.to_node
       /\ issues' = issues \cup CyclePairs(start)
       /\ todo' = [todo EXCEPT ![Top] = @ \ {c}]
  /\ UNCHANGED <<connections, color, stack, outcome>>

(* Two colours: whatever has been seen is skipped.                         *)
SkipSeen ==
  /\ outcome = "running"
  /\ stack # <<>>
  /\ \E c \in todo[Top] :
       /\ color[c.to_node] # 0
       /\ todo' = [todo EXCEPT ![Top] = @ \ {c}]
  /\ UNCHANGED <<connections, color, stack, issues, outcome>>

(* The next successor has been left already.                               *)
Skip ==
  /\ outcome = "running"
  /\ stack # <<>>
  /\ \E c \in todo[Top] :
       /\ color[c.to_node] = 2
       /\ todo' = [todo EXCEPT ![Top] = @ \ {c}]
  /\ UNCHANGED <<connections, color, stack, issues, outcome>>

(* The loop over the successors ends: stack.pop(), state[node] = 2.        *)
Leave ==
  /\ outcome = "running"
  /\ stack # <<>>
  /\ todo[Top] = {}
  /\ color' = [color EXCEPT ![Top] = 2]
  /\ stack' = SubSeq(stack, 1, Len(stack) - 1)
  /\ UNCHANGED <<connections, todo, issues, outcome>>

Return ==
  /\ outcome = "running"
  /\ stack = <<>>
  /\ \A n \in Nodes : color[n] # 0
  /\ outcome' = "done"
  /\ UNCHANGED <<connections, color, stack, todo, issues>>

Next == Root \/ Descend \/ Overflow \/ BackEdge \/ Skip \/ Leave \/ Return

(* One thread runs the search.                                             *)
Spec == Init /\ [][Next]_vars /\ WF_vars(Next)

-----------------------------------------------------------------------------
TypeOK ==
  /\ IsConnections(connections)
  /\ color \in [Nodes -> 0..2]
  /\ stack \in Seq(Nodes)
  /\ todo \in [Nodes -> SUBSET connections]
  /\ issues \subseteq Nodes \X Nodes
  /\ outcome \in {"running", "done", "recursion_error"}

(* No issue is reported exactly when the main connections have no cycle:   *)
(* what follows validation may rely on it (compiler/workflow.py does).     *)
CleanMeansAcyclic ==
  outcome = "done" => (issues = {} <=> Acyclic(connections, Nodes))

(* Every reported pair is a connection that lies on a cycle.               *)
IssuesAreOnCycles ==
  \A p \in issues :
    /\ p[2] \in successors(connections, p[1])
    /\ p[1] = p[2] \/ p[2] \in Ancestors(connections, p[1])

(* Two nodes that lead to each other.                                      *)
OnOneCycle(m, n) ==
  m \in Ancestors(connections, n) /\ n \in Ancestors(connections, m)

(* Each knot of cycles has an issue of its own, so no cycle has to wait to *)
(* be reported until another one is repaired.                              *)
EveryKnotReported ==
  outcome = "done" =>
    \A n \in Nodes : n \in Ancestors(connections, n) =>
      \E p \in issues : OnOneCycle(n, p[1])

(* RecursionError is raised only for a workflow with a chain of more than  *)
(* MaxDepth different nodes, which may well be acyclic.                    *)
OverflowMeansDeepPath ==
  outcome = "recursion_error" =>
    \E n \in Nodes : LET path == Append(stack, n) IN
      /\ Cardinality(Range(path)) = MaxDepth + 1
      /\ \A i \in 1..MaxDepth : path[i + 1] \in successors(connections, path[i])

-----------------------------------------------------------------------------
(***************************************************************************)
(* The inductive invariant.                                                *)
(***************************************************************************)
Left == {n \in Nodes : color[n] = 2}

(* The stack is a path of different nodes, exactly those of colour 1.      *)
StackIsPath ==
  /\ \A n \in Nodes : color[n] = 1 <=> n \in Range(stack)
  /\ \A i, j \in 1..Len(stack) : stack[i] = stack[j] => i = j
  /\ \A i \in 1..(Len(stack) - 1) : stack[i + 1] \in successors(connections, stack[i])

(* Nodes of which a connection is reported.                                *)
Reported == {p[1] : p \in issues}

(* A connection that was looked at leads to a node that was left, or to    *)
(* the next node on the stack, unless its start is reported.               *)
LookedAt ==
  /\ \A c \in connections :
       c.from_node \notin Reported /\ color[c.from_node] = 2 => color[c.to_node] = 2
  /\ \A i \in 1..Len(stack) : \A c \in EdgesOutOf(stack[i]) \ todo[stack[i]] :
       \/ c.from_node \in Reported
       \/ color[c.to_node] = 2
       \/ i < Len(stack) /\ c.to_node = stack[i + 1]
  /\ Acyclic(connections, Left \ Reported)

(* At an overflow the next node would be the first above the limit.        *)
OverflowIsDeep ==
  outcome = "recursion_error" =>
    /\ Len(stack) = MaxDepth
    /\ \E c \in connections : c.from_node = Top /\ color[c.to_node] = 0

IInv ==
  /\ TypeOK
  /\ \A n \in Nodes : todo[n] \subseteq EdgesOutOf(n)
  /\ StackIsPath
  /\ LookedAt
  /\ IssuesAreOnCycles
  /\ OverflowIsDeep
  /\ outcome = "done" => Left = Nodes
=============================================================================
