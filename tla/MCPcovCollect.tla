---------------------------- MODULE MCPcovCollect ----------------------------
(* TLC instances of PcovCollect. *)
EXTENDS PcovCollect

MCDiscoverable == [f \in Files |-> IF f = "a.php" THEN {1, 2} ELSE {1}]
=============================================================================
