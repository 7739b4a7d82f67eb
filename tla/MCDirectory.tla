---------------------------- MODULE MCDirectory -----------------------------
(* Hashes of four bits: two names with the same one, two that differ in    *)
(* the last bit only, and records of one to three units.                   *)
EXTENDS Directory

MCNames == {".", "..", "a", "b", "c", "d", "e"}
MCHash == [n \in MCNames |->
    CASE n = "." -> 1 [] n = ".." -> 14 [] n = "a" -> 9 [] n = "b" -> 8 [] n = "c" -> 9 [] n = "d" -> 12 [] n = "e" -> 8]
MCRoom == {4, 7, 15}
MCSize == [n \in MCNames |-> IF n = "d" THEN 3 ELSE IF n \in {"c", "e"} THEN 2 ELSE 1]
=============================================================================
