------------------------------- MODULE MCCli -------------------------------
(* Inputs with up to two faults, with scripts and without.                 *)
EXTENDS Cli

MCInputs == {H \in {F \cup G : F \in {{f, g} : f, g \in Faults} \cup {{}}, G \in {{}, {"code"}}} :
               "deep script" \in H => "code" \in H}
=============================================================================
