---------------------------- MODULE MCNodePeers ----------------------------
(* Small plans for two connections.                                        *)
EXTENDS NodePeers

Body == <<"headers", "data", "end">>
NoBody == <<"headers", "end">>
Each(a, b) == ("A" :> a) @@ ("B" :> b)
Nobody == Each(<<>>, <<>>)

\* What A does on its two streams, and B on them and on the one it promises.
Script(a1, a2, onA1, onA2, b1) ==
  Each((<<"A", 1>> :> a1) @@ (<<"A", 2>> :> a2) @@ (<<"B", 1>> :> <<>>),
       (<<"A", 1>> :> onA1) @@ (<<"A", 2>> :> onA2) @@ (<<"B", 1>> :> b1))

Plan(creates, scripts) ==
  [creates |-> Each(creates, 0), scripts |-> scripts, settings |-> Nobody, pingers |-> {}, closers |-> {}]

TwoBodies == Plan(2, Script(Body, <<"headers", "data">>, <<>>, <<>>, <<>>))
Answered == Plan(1, Script(Body, <<>>, NoBody, <<>>, <<>>))
Promised == Plan(1, Script(NoBody, <<>>, <<"promise">> \o NoBody, <<>>, NoBody))
LowWindow ==
  [Plan(1, Script(<<"headers", "data">>, <<>>, <<>>, <<>>, <<>>)) EXCEPT
     !.settings["B"] = <<Setting("INITIAL_WINDOW_SIZE", 0), Setting("INITIAL_WINDOW_SIZE", 1)>>]
ServerCloses ==
  [Plan(1, Script(<<"headers", "data">>, <<>>, <<>>, <<>>, <<>>)) EXCEPT
     !.pingers = {"A"}, !.closers = {"B"}]
BothClose ==
  [Plan(1, Script(<<"headers">>, <<>>, <<>>, <<>>, <<>>)) EXCEPT
     !.closers = {"A", "B"}]

SmallPlans == {TwoBodies, Answered, Promised, LowWindow, ServerCloses, BothClose}

\* B allows one stream at a time, and A wants two.
LimitPlans ==
  {[Plan(2, Script(<<"headers">>, <<"headers">>, <<>>, <<>>, <<>>)) EXCEPT
      !.settings["B"] = <<Setting("MAX_CONCURRENT_STREAMS", 1)>>]}
=============================================================================
