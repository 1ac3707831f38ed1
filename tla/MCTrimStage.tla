----------------------------- MODULE MCTrimStage -----------------------------
(* TLC instance of TrimStage. *)
EXTENDS TrimStage

MCFiles == {"index.php", "admin.php"}
MCVars == {"u"}
MCDefault == [file |-> "index.php", vars |-> {}]
=============================================================================
