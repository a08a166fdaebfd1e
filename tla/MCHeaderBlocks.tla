--------------------------- MODULE MCHeaderBlocks ---------------------------
(* A static name "s" and two names "a", "b" that share its bucket, with a   *)
(* bucket of its own for "a"; sizes 4 to 7 in tables of up to 12 bytes.     *)
EXTENDS HeaderBlocks, TLC

F(n, v) == [name |-> n, value |-> v]
MCFields == {F("s", "u"), F("s", "v"), F("a", "u"), F("b", "u"), F("b", "v")}
MCStaticTable == <<F("s", "u")>>
MCTextLength == ("s" :> 1) @@ ("a" :> 1) @@ ("b" :> 4) @@ ("u" :> 1) @@ ("v" :> 3)
MCWireLength == ("s" :> 1) @@ ("a" :> 1) @@ ("b" :> 3) @@ ("u" :> 1) @@ ("v" :> 2)
MCBucket == ("s" :> 0) @@ ("a" :> 1) @@ ("b" :> 0)
=============================================================================
