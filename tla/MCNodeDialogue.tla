--------------------------- MODULE MCNodeDialogue ---------------------------
(* Small dialogues.                                                        *)
EXTENDS NodeDialogue
LongAndShort == ("A" :> 2) @@ ("B" :> 1)
=============================================================================
