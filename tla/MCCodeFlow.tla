----------------------------- MODULE MCCodeFlow -----------------------------
(***************************************************************************)
(* Two Code nodes: up to two returns of the first, up to two accesses of   *)
(* the second, in every order, of the forms js_ast.py tells apart.         *)
(***************************************************************************)
EXTENDS CodeFlow

CONSTANTS a, b, Ghost

Key(f) == [kind |-> "key", name |-> f]
Index == [kind |-> "index", name |-> json]
Dynamic == [kind |-> "dynamic", name |-> json]
Call == [kind |-> "call", name |-> json]
Chain(r, arg, steps) == [root |-> r, arg |-> arg, steps |-> steps]
ByName(n, steps) == Chain("$", n, steps)
Of(r, steps) == Chain(r, NoField, steps)

MCChains == {
  Of("items", <<Index, Key(json), Key(a)>>),        \* items[0].json.a
  Of("items", <<Index, Key(json), Dynamic>>),       \* items[0].json[k]
  Of("items", <<Key(a), Call>>),                    \* items.map(f)
  Of("items", <<Key(a)>>),                          \* items.length
  Of("items", <<Index>>),                           \* items[0]
  Of("items", <<Key(json), Key(a)>>),               \* items.json.a
  Of("item", <<Key(b), Key(a)>>),                   \* item.binary.a
  Of("item", <<Key(json), Key(b)>>),                \* item.json.b
  Of("item", <<Key(json), Key(json)>>),             \* item.json.json
  Of("$json", <<Key(a), Key(b)>>),                  \* $json.a.b
  Of("$json", <<Key(b)>>),                          \* $json.b
  Of("$json", <<Key(main_port)>>),                       \* $json.main
  Of("item", <<Key(json), Key(main_port), Key(a)>>),     \* item.json.main.a
  Of("$input", <<Key(a), Call, Key(json), Key(b)>>),\* $input.first().json.b
  Of("$input", <<Key(a), Key(json), Key(b)>>),      \* $input.item.json.b
  Of("$node", <<Key(Up), Key(json), Key(a)>>),      \* $node["Up"].json.a
  Of("$node", <<>>),
  ByName(Ghost, <<Key(a), Call, Key(json)>>),          \* $("Ghost").first().json
  ByName(Up, <<Key(json), Key(a)>>),                   \* $("Up").json.a
  ByName(Down, <<>>),
  Of("axios", <<Call>>),
  Of("fetch", <<Call, Key(json), Call>>),
  Of("fs", <<Key(a), Call>>),
  Of("Math", <<Key(a), Call>>)}

Member(form, f) == [form |-> form, name |-> f, type |-> "any"]
Literal(members) == [kind |-> "object", members |-> members]
WithNames(F) == Literal(SetToSeq({Member("name", f) : f \in F}))
Value(k) == [kind |-> k, members |-> <<>>]
Return(s, v) == [scope |-> s, value |-> v]

MCReturns ==
  {Return("program", v) :
     v \in {WithNames({a}), WithNames({a, json}), WithNames({main_port}),
            Literal(<<Member("spread", a)>>),                       \* {...x}
            Literal(<<Member("literal", b), Member("spread", a)>>), \* {"b": 1, ...x}
            Literal(<<Member("computed", b), Member("name", a)>>),  \* {[b]: 1, a: 2}
            Literal(<<Member("other", b), Member("name", a)>>)}     \* {[f()]: 1, a: 2}
           \cup {Value(k) : k \in {"none", "items", "name", "await"}}}
  \cup {Return(s, WithNames({a})) : s \in {"declaration", "closure"}}
  \cup {Return("closure", Value("itemscall"))}

Upto2(S) == {<<>>} \cup {<<x>> : x \in S} \cup {<<x, y>> : x \in S, y \in S}

Script(accesses, returns, modules) ==
  [accesses |-> accesses, returns |-> returns, modules |-> modules]

(* Two returns and one access, or one return and two accesses.             *)
Pair(r, c, m) ==
  [n \in {Up, Down} |-> IF n = Up THEN Script(<<>>, r, {}) ELSE Script(c, <<>>, m)]

MCPrograms ==
  {Pair(r, <<c>>, {}) : r \in Upto2(MCReturns), c \in MCChains} \cup
  {Pair(<<r>>, c, {}) : r \in MCReturns, c \in Upto2(MCChains)} \cup
  {Pair(<<>>, <<c>>, {"import"}) : c \in MCChains}
=============================================================================
