---------------------------- MODULE MCFrameQueue ----------------------------
(* Small scripts for the send path.                                        *)
EXTENDS FrameQueue

F(type, stream, length) ==
  [type |-> type, stream |-> stream, length |-> length,
   endHeaders |-> TRUE, endStream |-> FALSE]
Ends(frame) == [frame EXCEPT !.endStream = TRUE]
HeadersOnly(stream) == [F("Headers", stream, 1) EXCEPT !.endHeaders = FALSE]

\* An upload with a header block of two frames whose second DATA frame is
\* smaller than the first, and an acknowledgement of the Read task.
UploadScript ==
  ("r1" :> <<HeadersOnly(1), F("Continuation", 1, 1), F("Data", 1, 5), Ends(F("Data", 1, 1))>>)
  @@ ("ack" :> <<F("Settings", 0, 0)>>)
UploadTasks == {"r1", "ack"}

\* One upload larger than its window.
OneUpload == ("r1" :> <<F("Headers", 1, 1), F("Data", 1, 3), Ends(F("Data", 1, 2))>>)
OneTask == {"r1"}

\* The same in two frames, the second of which does not fit in its window.
ShortUpload == ("r1" :> <<F("Headers", 1, 1), Ends(F("Data", 1, 5))>>)

TwoUpdates == <<[stream |-> 1, increment |-> 2], [stream |-> 0, increment |-> 2]>>
NoUpdates == <<>>
=============================================================================
