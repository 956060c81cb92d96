------------------------------ MODULE MCDeploy ------------------------------
(***************************************************************************)
(* Two documents of different names, one of which refers to two            *)
(* credentials, and one that was tampered with.                            *)
(***************************************************************************)
EXTENDS Deploy, TLC

Key(name, type) == [name |-> name, type |-> type]

MCNameOf == (1 :> "a") @@ (2 :> "b") @@ (3 :> "a")

MCNeeds == (1 :> {}) @@ (2 :> {Key("db", "sql"), Key("mail", "smtp")}) @@ (3 :> {})

(* No map, a complete one, one that lacks a name.                          *)
MCMaps == {<<>>, ("db" :> 7) @@ ("mail" :> 8), ("db" :> 7)}

NoMaps == {<<>>}
=============================================================================
