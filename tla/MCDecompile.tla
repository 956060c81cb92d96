---------------------------- MODULE MCDecompile ----------------------------
(***************************************************************************)
(* Every workflow over an IF node, two more nodes and a sub-node, whose    *)
(* keys come in any order: up to three sources, ports with no, one or two  *)
(* targets, gaps before, between and behind them.                          *)
(***************************************************************************)
EXTENDS Decompile, FiniteSets

\* 1 is an IF node that may also feed 4, 2 a plain node, 3 and 4 ends.
Edge(n, i) == [node |-> n, index |-> i]

Ports(X) == {<<x, y>> : x \in X, y \in X \ {<<>>}} \cup {<<x>> : x \in X \ {<<>>}}
            \cup {<<x, <<>>>> : x \in X \ {<<>>}}

MainOf1 == Ports({<<>>, <<Edge(2, 0)>>, <<Edge(3, 1), Edge(2, 0)>>})
MainOf2 == {<<<<Edge(3, 0)>>>>, <<<<Edge(3, 0), Edge(3, 0)>>>>, <<<<>>, <<Edge(3, 1)>>>>}
AiOf2 == {<<<<Edge(4, 0)>>>>, <<<<>>, <<Edge(4, 0), Edge(3, 1)>>>>}
AiOf4 == {<<<<Edge(3, 0), Edge(2, 0)>>>>}

E(n, t, P) == {<<>>} \cup {<<[from |-> n, type |-> t, ports |-> p]>> : p \in P}

Groups == {<<a, b, c>> : a \in E(1, "main", MainOf1),
                         b \in {x \o y : x \in E(2, "main", MainOf2), y \in E(2, "ai_tool", AiOf2)}
                           \cup {y \o x : x \in E(2, "main", MainOf2), y \in E(2, "ai_tool", AiOf2)},
                         c \in E(4, "ai_tool", AiOf4)}

Orders == {<<1, 2, 3>>, <<3, 2, 1>>, <<2, 3, 1>>}

NodePolicies == {[onError |-> None, retry |-> FALSE, tries |-> 5],
             [onError |-> "bogus", retry |-> TRUE, tries |-> None],
             [onError |-> "continue", retry |-> FALSE, tries |-> None],
             [onError |-> "stop", retry |-> TRUE, tries |-> 3]}

Workflow(g, o, p, s) ==
  [names |-> <<4, 2, 3, 1>>, entries |-> g[o[1]] \o g[o[2]] \o g[o[3]], policy |-> p, settings |-> s]

Plain == [onError |-> None, retry |-> FALSE, tries |-> None]

(* Every order of sources; every policy and settings with one of them.     *)
MCWorkflows ==
  {Workflow(g, o, Plain, None) : g \in Groups, o \in Orders} \cup
  {Workflow(g, <<1, 2, 3>>, p, s) : g \in {h \in Groups : h[1] = <<>> /\ h[3] # <<>>},
                                    p \in NodePolicies, s \in {None, "{}", "v2"}}
=============================================================================
