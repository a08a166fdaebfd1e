----------------------------- MODULE NodeStream -----------------------------
(***************************************************************************)
(* stream.js of the node server: the state machine of a stream, and the    *)
(* stream between its user (bytes) and its connection (frames).            *)
(*                                                                         *)
(*   state, initiated, closedByUs, closedWithRst, resetSent,               *)
(*   processedHeaders, ended       as in the code                          *)
(*   upstream                      its Flow                                *)
(*   input, busy                   frames written to the upstream and not  *)
(*                                 yet received; one is being received,    *)
(*                                 with the bytes of its DATA (_receiveMore)*)
(*   user                          the bytes the user has not read yet     *)
(*   writing                       a write of the user is pending          *)
(*                                 (_sendMore)                             *)
(*   errors                        the error events emitted                *)
(*   thrown                        an operation of the user threw          *)
(***************************************************************************)
EXTENDS NodeFlow

CONSTANT UserHighWaterMark    \* of the Duplex the user reads from

ASSUME StreamAssumption == UserHighWaterMark \in Nat \ {0}

NewStream ==
  [state |-> "IDLE", initiated |-> "unknown", closedByUs |-> FALSE, closedWithRst |-> FALSE,
   resetSent |-> FALSE, processedHeaders |-> FALSE, ended |-> FALSE, upstream |-> NewFlow,
   input |-> <<>>, busy |-> <<>>, user |-> <<>>, writing |-> FALSE,
   errors |-> {}, thrown |-> FALSE]

Active == {"OPEN", "HALF_CLOSED_LOCAL", "HALF_CLOSED_REMOTE"}
activeState(state) == IF state \in Active THEN 1 ELSE 0

-----------------------------------------------------------------------------
(* The state machine.                                                      *)

\* Mutant of Target: a received END_STREAM closes an open stream.
TargetClosesOnEnd(state, sending, frame) ==
  CASE frame.type = "RST_STREAM" \/ (frame.end /\ state = "OPEN" /\ ~sending) -> "CLOSED"
    [] frame.end /\ state \in {"IDLE", "OPEN"} ->
         IF sending THEN "HALF_CLOSED_LOCAL" ELSE "HALF_CLOSED_REMOTE"
    [] frame.end /\ state = (IF sending THEN "HALF_CLOSED_REMOTE" ELSE "HALF_CLOSED_LOCAL") -> "CLOSED"
    [] frame.type = "HEADERS" /\ state = "IDLE" -> "OPEN"
    [] OTHER -> state

\* The state that a frame leads to when it is legal.
Target(state, sending, frame) ==
  LET halfClosed == IF sending THEN "HALF_CLOSED_LOCAL" ELSE "HALF_CLOSED_REMOTE"
      rst == frame.type = "RST_STREAM"
      headers == frame.type = "HEADERS"
  IN  CASE state = "IDLE" /\ headers -> IF frame.end THEN halfClosed ELSE "OPEN"
        [] state = "IDLE" /\ sending /\ rst -> "CLOSED"
        [] state = "RESERVED_LOCAL" /\ sending /\ headers -> "HALF_CLOSED_REMOTE"
        [] state = "RESERVED_REMOTE" /\ ~sending /\ headers -> "HALF_CLOSED_LOCAL"
        [] state = "OPEN" /\ frame.end -> halfClosed
        [] state = "HALF_CLOSED_LOCAL" /\ ~sending /\ frame.end -> "CLOSED"
        [] state = "HALF_CLOSED_REMOTE" /\ sending /\ frame.end -> "CLOSED"
        [] state # "IDLE" /\ rst -> "CLOSED"
        [] OTHER -> state

\* Mutant of LegalWhenClosed: nothing is received after the end.
NothingWhenClosed(s, sending, frame) ==
  frame.type = "PRIORITY" \/ (sending /\ frame.type = "RST_STREAM")

LegalWhenClosed(s, sending, frame) ==
  \/ frame.type = "PRIORITY"
  \/ sending /\ frame.type = "RST_STREAM"
  \/ /\ ~sending /\ s.closedByUs
     /\ s.closedWithRst \/ frame.type \in {"WINDOW_UPDATE", "RST_STREAM", "ALTSVC"}

\* The frames _transition lets pass in the state of a stream.
Legal(s, sending, frame) ==
  LET Type(types) == frame.type \in types
  IN  CASE s.state = "IDLE" -> Type({"HEADERS", "PRIORITY"}) \/ (sending /\ Type({"RST_STREAM"}))
        [] s.state = "RESERVED_LOCAL" ->
             Type({"RST_STREAM", "PRIORITY"}) \/ (sending /\ Type({"HEADERS"}))
        [] s.state = "RESERVED_REMOTE" ->
             Type({"RST_STREAM", "PRIORITY", "BLOCKED"}) \/ (~sending /\ Type({"HEADERS"}))
        [] s.state = "OPEN" -> TRUE
        [] s.state = "HALF_CLOSED_LOCAL" ->
             ~sending \/ Type({"RST_STREAM", "PRIORITY", "BLOCKED", "ALTSVC", "WINDOW_UPDATE"})
        [] s.state = "HALF_CLOSED_REMOTE" ->
             sending \/ Type({"RST_STREAM", "PRIORITY", "BLOCKED", "ALTSVC", "WINDOW_UPDATE"})
        [] s.state = "CLOSED" -> LegalWhenClosed(s, sending, frame)

\* What an illegal frame is: in the closed state a stream error.
ErrorOf(s) == IF s.state = "CLOSED" THEN "STREAM_CLOSED" ELSE "PROTOCOL_ERROR"

\* reset(error), on a stream that is closed already.
ResetClosed(s) ==
  IF s.resetSent THEN s
  ELSE [s EXCEPT !.resetSent = TRUE, !.upstream = Push(@, F("RST_STREAM"))]

\* _transition but for the promised stream and the count of active streams.
Transition(s, sending, frame) ==
  LET to == Target(s.state, sending, frame)
      moved == [s EXCEPT
        !.state = to,
        !.initiated = IF s.state = "IDLE" /\ frame.type = "HEADERS"
                      THEN IF sending THEN "us" ELSE "peer" ELSE @,
        !.closedByUs = IF to = "CLOSED" /\ s.state # "CLOSED" THEN sending ELSE @,
        !.closedWithRst = IF to = "CLOSED" /\ s.state # "CLOSED"
                          THEN frame.type = "RST_STREAM" ELSE @]
  IN  IF Legal(s, sending, frame) THEN moved
      ELSE IF sending THEN [s EXCEPT !.thrown = TRUE]
      ELSE IF s.state = "CLOSED"
           THEN [ResetClosed(s) EXCEPT !.errors = @ \cup {ErrorOf(s)}]
           ELSE [s EXCEPT !.errors = @ \cup {ErrorOf(s)}]

-----------------------------------------------------------------------------
(* From the user to the connection.                                        *)

\* What a frame changes in the number of active streams that we initiated.
CountChange(before, after) ==
  IF after.initiated = "us" THEN activeState(after.state) - activeState(before.state) ELSE 0

\* _pushUpstream: the frame is in the queue even if _transition throws.
PushUpstream(s, frame) ==
  LET after == Transition(s, TRUE, frame)
  IN  [after EXCEPT !.upstream = Push(@, [frame EXCEPT !.count = CountChange(s, after)])]

Headers(s) == PushUpstream(s, F("HEADERS"))

\* _write: _pushUpstream returns nothing, so the write always waits for _send.
Waiting(s) == IF s.thrown THEN s ELSE [s EXCEPT !.writing = TRUE]
Write(s, bytes) == Waiting(PushUpstream(s, Data(bytes)))

\* _send: the pending write is done.
Send(s) ==
  IF s.upstream.asked THEN [s EXCEPT !.upstream.asked = FALSE, !.writing = FALSE] ELSE s

\* _finishing, on the event 'finish'.
Finishing(s) ==
  LET endFrame == [Data(<<>>) EXCEPT !.end = TRUE]
      queued == LastQueued(s.upstream)
  IN  IF queued # <<>> /\ Last(queued).type \in {"DATA", "HEADERS"}
      THEN Transition([s EXCEPT !.upstream = MarkLast(@)], TRUE, endFrame)
      ELSE PushUpstream(s, endFrame)

\* reset(error) by the user.
Reset(s) ==
  IF s.resetSent THEN s
  ELSE PushUpstream([s EXCEPT !.resetSent = TRUE], F("RST_STREAM"))

-----------------------------------------------------------------------------
(* From the connection to the user.                                        *)

\* Flow._write with Stream._receive: a frame reaches the stream.
Receive(s, frame) ==
  LET ends == frame.end \/ frame.type = "RST_STREAM"
      user == IF frame.type = "DATA" /\ ~s.ended THEN s.user \o frame.data ELSE s.user
      full == frame.type = "DATA" /\ ~s.ended /\ Len(user) >= UserHighWaterMark
      taken == IF full THEN s.upstream ELSE Received(s.upstream, Len(frame.data))
      flow == [taken EXCEPT !.ended = @ \/ ends]
  IN  Send([s EXCEPT
        !.user = user, !.ended = @ \/ ends, !.busy = IF full THEN <<frame.data>> ELSE <<>>,
        !.upstream = IF frame.type = "WINDOW_UPDATE" THEN IncreaseWindow(flow, frame.inc) ELSE flow,
        !.errors = IF frame.type = "WINDOW_UPDATE" /\ TooLarge(flow, frame.inc)
                   THEN @ \cup {"FLOW_CONTROL_ERROR"} ELSE @])

\* write of the upstream: while a frame is being received the others wait.
WriteUpstream(s, frame) ==
  IF s.busy # <<>> THEN [s EXCEPT !.input = Append(@, frame)] ELSE Receive(s, frame)

\* The handlers of control frames, of which only the one of HEADERS has an
\* effect that the properties see.
Handle(s, frame) ==
  IF frame.type # "HEADERS" THEN s
  ELSE [s EXCEPT !.processedHeaders = TRUE,
                 !.errors = IF s.processedHeaders /\ ~frame.end THEN @ \cup {"PROTOCOL_ERROR"} ELSE @]

\* _writeUpstream: the connection forwards a frame of the peer.  Process is what
\* it does after the write.
Process(s, frame) == Handle(Transition(s, FALSE, frame), frame)
Arrive(s, frame) == Process(WriteUpstream(s, frame), frame)

\* Receiving does not reach the state machine.
WithReceived(s, r) ==
  [s EXCEPT !.busy = r.busy, !.input = r.input, !.user = r.user, !.ended = r.ended,
            !.writing = r.writing, !.errors = r.errors, !.upstream = r.upstream]

\* Stream._read: the frame that waited is received, and the input goes on.
ReceiveMore(s) ==
  WithReceived(s, FoldLeft(WriteUpstream,
                           [s EXCEPT !.busy = <<>>, !.input = <<>>,
                                     !.upstream = Received(@, Len(s.busy[1]))],
                           s.input))

\* The Duplex calls _read while its buffer is low, but never after the end.
CanReceiveMore(s) == s.busy # <<>> /\ ~s.ended

\* Mutant of Readied: the user reads without _read being called.
ReadiedAlready(s) == s

\* read() of the user calls _read first, then takes the whole buffer; the user
\* reads until it finds nothing.
Readied(s) == IF CanReceiveMore(s) THEN ReceiveMore(s) ELSE s
UserRead(s) == Readied([Readied(s) EXCEPT !.user = <<>>])

\* The upstream at the end of a turn.
EndTurn(s) == Send([s EXCEPT !.upstream = EndOfTurn(@)])
=============================================================================
