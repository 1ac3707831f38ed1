------------------------------- MODULE MCAgent -------------------------------
(* TLC instances of Agent. *)
EXTENDS Agent

MCFiles == {"index.php", "lib.php"}
=============================================================================
