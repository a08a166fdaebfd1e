------------------------------- MODULE Frames -------------------------------
(***************************************************************************)
(* The frames of HttpTwo/Frames, reduced to what the send and receive      *)
(* paths look at: the type, the stream, the END_STREAM and END_HEADERS     *)
(* flags, and the payload length.  Payload bytes are left out.             *)
(***************************************************************************)
EXTENDS Integers

FrameTypes == {"Data", "Headers", "Priority", "RstStream", "Settings",
               "PushPromise", "Ping", "GoAway", "WindowUpdate", "Continuation"}

\* Only the flag bit 0x1 of DATA and HEADERS means END_STREAM: the same bit
\* of SETTINGS and PING is their ACK flag.
IsEndStream(frame) == frame.type \in {"Data", "Headers"} /\ frame.endStream

\* The priority lists of the queue: 1 is the most urgent.
PRIORITIES == {1, 10, 100, 1000}

GetPriority(type) ==
  CASE type \in {"Ping", "Settings"}                     -> 1
    [] type \in {"WindowUpdate", "RstStream", "GoAway"}  -> 10
    [] type \in {"PushPromise", "Headers"}               -> 100
    [] type \in {"Data", "Continuation", "Priority"}     -> 1000
=============================================================================
