---------------------------- MODULE MCHashTable -----------------------------
EXTENDS HashTable

MCNames == {".", "..", "a", "b", "c", "d", "e", "f", "g", "h", "long"}
MCHash == [n \in MCNames |->
    CASE n = "." -> 1 [] n = ".." -> 14 [] n = "a" -> 9 [] n = "b" -> 8 [] n = "c" -> 11 [] n = "d" -> 12 [] n = "e" -> 6
      [] n = "long" -> 4 [] n = "f" -> 7 [] n \in {"g", "h"} -> 6]
MCSize == [n \in MCNames |-> IF n = "long" THEN 2 ELSE 1]
MCHistories == {
    <<"a", "b", "c", "d", "e">>, <<"a", "d", "long", "e">>,
    <<"e", "f", "g", "c", "a", "b", "d">>, <<"e", "f", "g", "h", "b">> }
=============================================================================
