--------------------------- MODULE MCRedqueenFile ---------------------------
(* RedqueenFile for TLC: bytes of six values, so that lengths up to 35 can  *)
(* be written and up to 17 read; contents of at most seven bytes.           *)
EXTENDS RedqueenFile

(* Empty, one byte that is no type, the longest one dumped, one too long,  *)
(* and one whose length would be read as negative.                         *)
MCStrings ==
    {<<>>, <<5>>} \cup {[i \in 1 .. n |-> IF i % 2 = 0 THEN 1 ELSE 5] : n \in {7, 8, 18}}
=============================================================================
