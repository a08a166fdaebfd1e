---------------------------- MODULE Http2Stream ----------------------------
(***************************************************************************)
(* The state of a stream: what Http2Stream makes of State when a frame was *)
(* received and when one was sent.  The code reads State in the switch and *)
(* writes it back in a branch, with no lock; callers take those as steps.  *)
(***************************************************************************)
EXTENDS Frames

StreamStates == {"Idle", "ReservedLocal", "ReservedRemote", "Open",
                 "HalfClosedLocal", "HalfClosedRemote", "Closed"}

ReceivedState(state, frame) ==
  CASE state = "Idle" /\ frame.type = "Headers"            -> "Open"
    [] state = "Idle" /\ frame.type = "PushPromise"        -> "ReservedRemote"
    [] state \notin {"Idle", "Closed"} /\ frame.type = "RstStream" -> "Closed"
    [] state = "ReservedRemote" /\ frame.type = "Headers"  -> "HalfClosedLocal"
    [] state = "Open" /\ IsEndStream(frame)                -> "HalfClosedRemote"
    [] state = "HalfClosedLocal" /\ IsEndStream(frame)     -> "Closed"
    [] OTHER                                               -> state

\* Mutant of SentState: the end of the request closes the server's half.
SentStateWrongHalf(state, frame) ==
  IF state = "Open" /\ IsEndStream(frame) THEN "HalfClosedRemote"
  ELSE IF state = "Idle" /\ frame.type = "Headers" THEN "Open" ELSE state

SentState(state, frame) ==
  CASE state = "Idle" /\ frame.type = "Headers"            -> "Open"
    [] state = "Idle" /\ frame.type = "PushPromise"        -> "ReservedLocal"
    [] state \notin {"Idle", "Closed"} /\ frame.type = "RstStream" -> "Closed"
    [] state = "ReservedLocal" /\ frame.type = "Headers"   -> "HalfClosedRemote"
    [] state = "Open" /\ IsEndStream(frame)                -> "HalfClosedLocal"
    [] state = "HalfClosedRemote" /\ IsEndStream(frame)    -> "Closed"
    [] OTHER                                               -> state

\* Mutant of EndOfStream: any half that is closed.
EndOfStreamEitherHalf(state) == state \in {"HalfClosedLocal", "HalfClosedRemote", "Closed"}

\* The states in which the caller of Send is released.
EndOfStream(state) == state \in {"HalfClosedRemote", "Closed"}
=============================================================================
