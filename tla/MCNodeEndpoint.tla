--------------------------- MODULE MCNodeEndpoint ---------------------------
(* Frames of every type, and bytes that are no frame.                      *)
EXTENDS NodeEndpoint

Prelude == <<80, 82>>

Frame(type, flags, stream) == [type |-> type, flags |-> flags, stream |-> stream]

Frames ==
  { Frame("DATA", {"END_STREAM"}, 1) @@ [data |-> <<7>>],
    Frame("DATA", {}, 2147483646) @@ [data |-> <<>>],
    Frame("HEADERS", {"END_HEADERS", "PRIORITY"}, 3)
      @@ [priorityDependency |-> 16909060, exclusiveDependency |-> TRUE, priorityWeight |-> 255, data |-> <<1>>],
    Frame("HEADERS", {"END_STREAM"}, 258) @@ [data |-> <<1, 2>>],
    Frame("PRIORITY", {}, 5)
      @@ [priorityDependency |-> 2147483647, exclusiveDependency |-> FALSE, priorityWeight |-> 0],
    Frame("RST_STREAM", {}, 1) @@ [error |-> "HTTP_1_1_REQUIRED"],
    Frame("SETTINGS", {}, 0)
      @@ [settings |-> ("MAX_FRAME_SIZE" :> 16777215) @@ ("ENABLE_PUSH" :> 0)],
    Frame("SETTINGS", {"ACK"}, 0) @@ [settings |-> <<>>],
    Frame("PUSH_PROMISE", {"END_PUSH_PROMISE"}, 1) @@ [promised_stream |-> 2147483647, data |-> <<9>>],
    Frame("PING", {"ACK"}, 0) @@ [data |-> <<1, 2, 3, 4, 5, 6, 7, 8>>],
    Frame("GOAWAY", {}, 0) @@ [last_stream |-> 2147483647, error |-> "NO_ERROR"],
    Frame("WINDOW_UPDATE", {}, 7) @@ [window_size |-> 2147483647],
    Frame("CONTINUATION", {"END_HEADERS"}, 1) @@ [data |-> <<3>>],
    Frame("BLOCKED", {}, 1) }

ASSUME FramesCanBeSent == \A frame \in Frames : CanSerialize(frame)

Proper == {[bytes |-> Serialize(frame), frame |-> <<frame>>, stops |-> FALSE] : frame \in Frames}

\* Bytes with the header of a frame of this type and flags.
Raw(type, flags, payload) == <<0>> \o WriteUInt(Len(payload), 2) \o <<type, flags>> \o WriteUInt(1, 4) \o payload

Foreign ==
  { [bytes |-> Raw(0, 8, <<2, 5, 6, 0, 0>>), stops |-> FALSE,
     frame |-> <<Frame("DATA", {"PADDED"}, 1) @@ [data |-> <<5, 6>>]>>],
    [bytes |-> Raw(4, 0, <<0, 9, 0, 0, 0, 1, 0, 3, 0, 0, 0, 1, 0, 3, 0, 0, 0, 2>>), stops |-> FALSE,
     frame |-> <<Frame("SETTINGS", {}, 1) @@ [settings |-> ("MAX_CONCURRENT_STREAMS" :> 2)]>>],
    [bytes |-> Raw(99, 255, <<1>>), frame |-> <<>>, stops |-> FALSE],
    [bytes |-> Raw(6, 0, <<1>>), frame |-> <<>>, stops |-> FALSE],
    [bytes |-> Raw(8, 0, <<0, 0, 0, 0>>), frame |-> <<>>, stops |-> FALSE],
    [bytes |-> Raw(4, 1, <<0>>), frame |-> <<>>, stops |-> FALSE],
    [bytes |-> Raw(3, 0, <<0>>), frame |-> <<>>, stops |-> TRUE],
    [bytes |-> <<1>> \o Tail(Raw(0, 0, <<1>>)), frame |-> <<>>, stops |-> TRUE] }

AllItems == Proper \cup Foreign
=============================================================================
