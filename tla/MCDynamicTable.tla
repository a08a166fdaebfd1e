--------------------------- MODULE MCDynamicTable ---------------------------
(* Three fields of different sizes, capacities that give 0 to 8 slots.     *)
EXTENDS DynamicTable, TLC

MCFields == {"a", "b", "c"}
MCFieldSize == ("a" :> 3) @@ ("b" :> 4) @@ ("c" :> 7)
MCCapacities == {0, 3, 8, 11, 16}
=============================================================================
