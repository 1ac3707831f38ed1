------------------------------ MODULE MCMutator ------------------------------
(* TLC instances of Mutator. *)
EXTENDS Mutator

MCFiles == {"index.php", "admin.php"}
MCVars == {"u"}
MCDefault == [file |-> "index.php", vars |-> {}]
NoForms == {}
MCForms == {{"admin.php"}}
=============================================================================
