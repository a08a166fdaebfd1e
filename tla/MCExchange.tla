----------------------------- MODULE MCExchange -----------------------------
(* Small conversations for the request and response path.                  *)
EXTENDS Exchange, TLC

F(type, length) == [type |-> type, length |-> length, endHeaders |-> TRUE, endStream |-> FALSE]
EndOf(frame) == [frame EXCEPT !.endStream = TRUE]

\* Request a has no body, nor has its response; request b and its response
\* have one, and a RST_STREAM follows, as a server sends one that does not
\* need the rest of a request.
Both == {"a", "b"}
BothRequests == ("a" :> <<EndOf(F("Headers", 1))>>)
                @@ ("b" :> <<F("Headers", 1), EndOf(F("Data", 1))>>)
BothResponses == ("a" :> <<EndOf(F("Headers", 1))>>)
                 @@ ("b" :> <<F("Headers", 1), EndOf(F("Data", 2)), F("RstStream", 4)>>)
=============================================================================
