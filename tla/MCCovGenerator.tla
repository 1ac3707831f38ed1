--------------------------- MODULE MCCovGenerator ---------------------------
(* TLC instances of CovGenerator. *)
EXTENDS CovGenerator

OneLine == {<<"index.php", 1>>}
=============================================================================
