---------------------------- MODULE MCNodeBlocks ----------------------------
(* Names with one letter and texts with one, two or twenty: pairs of 34, 35 *)
(* and more bytes.  The static table is as long as that of the code, so that *)
(* the indices of the other pairs take one byte or more.                    *)
EXTENDS NodeBlocks

MCPlain ==
  (":p" :> <<58>>) @@ ("x" :> <<120>>) @@ ("cookie" :> <<99>>) @@ ("constructor" :> <<107>>)
    @@ ("f" :> <<102>>) @@ ("" :> <<>>) @@ ("/" :> <<47>>) @@ ("u" :> <<1>>) @@ ("v" :> <<2, 2>>)
    @@ ("long" :> [i \in 1..20 |-> 7])
MCHuffman == (<<"long">> :> <<8, 8>>) @@ (<<"u", "v">> :> <<9>>)
MCTexts == {<<piece>> : piece \in DOMAIN MCPlain} \cup {<<"u", "v">>}
MCLower == [piece \in DOMAIN MCPlain |-> piece] @@ ("X" :> "x")
MCStaticTable ==
  [i \in 1..61 |-> CASE i = 4 -> <<":p", <<"/">>>>
                     [] i = 32 -> <<"cookie", <<"">>>>
                     [] OTHER -> <<"f", <<"">>>>]

H(name, values) == [name |-> name, values |-> values]
Item(type, headers) == [type |-> type, headers |-> headers]
MCHeaderSets ==
  { Item("HEADERS", <<H("x", <<<<"u">>, <<"v">>>>), H(":p", <<<<"/">>>>)>>),
    Item("PUSH_PROMISE", <<H("X", <<<<"v">>>>), H(":p", <<<<"u">>>>), H("cookie", <<<<"long">>>>)>>),
    Item("HEADERS", <<H("cookie", <<<<"u", "v">>, <<"">>>>), H("constructor", <<<<"u">>>>),
                      H("x", <<>>)>>) }
=============================================================================
