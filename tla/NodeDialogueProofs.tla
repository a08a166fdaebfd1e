------------------------- MODULE NodeDialogueProofs -------------------------
(***************************************************************************)
(* What the users of a stream of the node server may rely on, for any      *)
(* windows, limits, chunks and resetters: an operation throws only on a    *)
(* stream that was reset, the body is read whole and in order, no credit   *)
(* is lost, both ends come to agree on the state of the stream, the        *)
(* assertions of flow.js hold, and an error is only for a frame that came  *)
(* late.                                                                   *)
(***************************************************************************)
EXTENDS NodeStreamProofs

\* The fields of a stream.
StreamFields ==
  {"state", "initiated", "closedByUs", "closedWithRst", "resetSent", "processedHeaders",
   "ended", "upstream", "input", "busy", "user", "writing", "errors", "thrown"}

\* A stream in a state that a dialogue reaches: no stream of it is promised.
IsStream(s) ==
  /\ s = [f \in StreamFields |-> s[f]]
  /\ s.state \in {"IDLE", "OPEN", "HALF_CLOSED_LOCAL", "HALF_CLOSED_REMOTE", "CLOSED"}
  /\ s.closedWithRst => s.state = "CLOSED"
  /\ s.thrown => s.closedWithRst

\* What an operation that leaves the state machine alone keeps.
SameControl(s, t) ==
  /\ t = [f \in StreamFields |-> t[f]]
  /\ t.state = s.state /\ t.closedWithRst = s.closedWithRst /\ t.thrown = s.thrown

\* The user may still send DATA, or finds that the stream was reset.
MaySend(s) ==
  \/ s.state \in {"IDLE", "OPEN", "HALF_CLOSED_REMOTE"}
  \/ s.state = "CLOSED" /\ s.closedWithRst

\* What the user may send, and what sending makes of the stream.
Sendable(s, frame) ==
  /\ IsStream(s)
  /\ frame.type \in {"HEADERS", "DATA", "RST_STREAM"} /\ frame.end \in BOOLEAN
  /\ MaySend(s) \/ frame.type = "RST_STREAM"
  /\ frame.type # "HEADERS" => s.state # "IDLE"

Sent(s, frame, t) ==
  /\ IsStream(t)
  /\ MaySend(s) /\ ~frame.end => MaySend(t)
  /\ t.state # "IDLE"

EndInv(e) ==
  /\ IsStream(stream[e]) /\ said[e] \in BOOLEAN
  /\ user[e] # "ended" => MaySend(stream[e])
  /\ ~said[e] => user[e] = "open"
  /\ said[e] => stream[e].state # "IDLE"

\* The user is the only one who ends its side of the stream, once, and it does
\* so after its headers.
DialogueInv ==
  /\ stream = [e \in Ends |-> stream[e]]
  /\ said = [e \in Ends |-> said[e]]
  /\ user = [e \in Ends |-> user[e]]
  /\ \A e \in Ends : EndInv(e)

-----------------------------------------------------------------------------
(* Operations that leave the state machine alone.                          *)

LEMMA SameIsStream ==
  ASSUME NEW s, IsStream(s), NEW t, SameControl(s, t)
  PROVE  IsStream(t)
BY DEF IsStream, SameControl

LEMMA SameTransitive ==
  ASSUME NEW s, NEW t, NEW u, SameControl(s, t), SameControl(t, u)
  PROVE  SameControl(s, u)
BY DEF SameControl

\* A change of the upstream is one of those.
LEMMA UpstreamSame ==
  ASSUME NEW s, IsStream(s), NEW f
  PROVE  SameControl(s, [s EXCEPT !.upstream = f])
BY DEF SameControl, IsStream, StreamFields

LEMMA SendSame ==
  ASSUME NEW s, IsStream(s)
  PROVE  SameControl(s, Send(s))
BY DEF SameControl, IsStream, StreamFields, Send

LEMMA EndTurnSame ==
  ASSUME NEW s, IsStream(s)
  PROVE  SameControl(s, EndTurn(s))
<1> DEFINE t == [s EXCEPT !.upstream = EndOfTurn(@)]
<1>1. SameControl(s, t)
  BY UpstreamSame
<1>2. SameControl(t, Send(t))
  BY <1>1, SameIsStream, SendSame
<1> QED
  BY <1>1, <1>2, SameTransitive DEF EndTurn

LEMMA ReceiveMoreSame ==
  ASSUME NEW s, IsStream(s)
  PROVE  SameControl(s, ReceiveMore(s))
<1> DEFINE r == FoldLeft(WriteUpstream,
                         [s EXCEPT !.busy = <<>>, !.input = <<>>,
                                   !.upstream = Received(@, Len(s.busy[1]))],
                         s.input)
<1>1. ReceiveMore(s) =
        [s EXCEPT !.busy = r.busy, !.input = r.input, !.user = r.user, !.ended = r.ended,
                  !.writing = r.writing, !.errors = r.errors, !.upstream = r.upstream]
  BY DEF ReceiveMore, WithReceived
<1> HIDE DEF r
<1> QED
  BY <1>1 DEF SameControl, IsStream, StreamFields

LEMMA UserReadSame ==
  ASSUME NEW s, IsStream(s)
  PROVE  SameControl(s, UserRead(s))
<1>1. ASSUME NEW t, IsStream(t)
      PROVE  SameControl(t, Readied(t))
  BY <1>1, ReceiveMoreSame DEF Readied, SameControl, IsStream
<1> DEFINE t == Readied(s)
           u == [t EXCEPT !.user = <<>>]
<1>2. IsStream(t) /\ SameControl(s, t)
  BY <1>1, SameIsStream
<1>3. SameControl(t, u)
  BY <1>2 DEF SameControl, IsStream, StreamFields
<1>4. SameControl(u, Readied(u))
  BY <1>1, <1>2, <1>3, SameIsStream
<1> QED
  BY <1>2, <1>3, <1>4, SameTransitive DEF UserRead

LEMMA WriteUpstreamSame ==
  ASSUME NEW s, IsStream(s), NEW frame
  PROVE  SameControl(s, WriteUpstream(s, frame))
<1>1. SameControl(s, [s EXCEPT !.input = Append(@, frame)])
  BY DEF SameControl, IsStream, StreamFields
<1>2. ASSUME NEW bytes, NEW ended, NEW busy, NEW upstream, NEW errors
      PROVE  LET t == [s EXCEPT !.user = bytes, !.ended = ended, !.busy = busy,
                                !.upstream = upstream, !.errors = errors]
             IN  SameControl(s, t)
  BY DEF SameControl, IsStream, StreamFields
<1>3. SameControl(s, Receive(s, frame))
  <2> DEFINE ends == frame.end \/ frame.type = "RST_STREAM"
             read == IF frame.type = "DATA" /\ ~s.ended THEN s.user \o frame.data ELSE s.user
             full == frame.type = "DATA" /\ ~s.ended /\ Len(read) >= UserHighWaterMark
             taken == IF full THEN s.upstream ELSE Received(s.upstream, Len(frame.data))
             flow == [taken EXCEPT !.ended = @ \/ ends]
             ended == s.ended \/ ends
             busy == IF full THEN <<frame.data>> ELSE <<>>
             upstream == IF frame.type = "WINDOW_UPDATE" THEN IncreaseWindow(flow, frame.inc)
                         ELSE flow
             errors == IF frame.type = "WINDOW_UPDATE" /\ TooLarge(flow, frame.inc)
                       THEN s.errors \cup {"FLOW_CONTROL_ERROR"} ELSE s.errors
             t == [s EXCEPT !.user = read, !.ended = ended, !.busy = busy,
                            !.upstream = upstream, !.errors = errors]
  <2>1. Receive(s, frame) = Send(t)
    BY DEF Receive, IsStream, StreamFields
  <2> HIDE DEF ends, read, full, taken, flow, ended, busy, upstream, errors
  <2>2. SameControl(s, t)
    BY <1>2
  <2>3. SameControl(t, Send(t))
    BY <2>2, SendSame, SameIsStream
  <2> QED
    BY <2>1, <2>2, <2>3, SameTransitive
<1> QED
  BY <1>1, <1>3 DEF WriteUpstream

LEMMA HandleSame ==
  ASSUME NEW s, IsStream(s), NEW frame
  PROVE  SameControl(s, Handle(s, frame))
BY DEF SameControl, IsStream, StreamFields, Handle

-----------------------------------------------------------------------------
(* The state machine.                                                      *)

\* Where _transition leads, for a frame of the peer and for one of the user.
LEMMA TransitionReceives ==
  ASSUME NEW s, IsStream(s), NEW frame
  PROVE  LET t == Transition(s, FALSE, frame)
         IN  /\ IsStream(t)
             /\ MaySend(s) => MaySend(t)
             /\ s.state # "IDLE" => t.state # "IDLE"
<1> DEFINE to == Target(s.state, FALSE, frame)
<1>1. CASE Legal(s, FALSE, frame)
  <2> DEFINE initiated == IF s.state = "IDLE" /\ frame.type = "HEADERS"
                          THEN "peer" ELSE s.initiated
             closedByUs == IF to = "CLOSED" /\ s.state # "CLOSED" THEN FALSE ELSE s.closedByUs
             closedWithRst == IF to = "CLOSED" /\ s.state # "CLOSED"
                              THEN frame.type = "RST_STREAM" ELSE s.closedWithRst
             t == [s EXCEPT !.state = to, !.initiated = initiated,
                            !.closedByUs = closedByUs, !.closedWithRst = closedWithRst]
  <2>0. Transition(s, FALSE, frame) = t
    BY <1>1 DEF Transition, IsStream, StreamFields
  <2> HIDE DEF to, initiated, closedByUs, closedWithRst
  <2>1. /\ t = [f \in StreamFields |-> t[f]]
        /\ t.state = to /\ t.closedWithRst = closedWithRst /\ t.thrown = s.thrown
    BY DEF IsStream, StreamFields
  <2>2. /\ to \in {"IDLE", "OPEN", "HALF_CLOSED_LOCAL", "HALF_CLOSED_REMOTE", "CLOSED"}
        /\ s.state = "CLOSED" => to = "CLOSED"
        /\ s.state # "IDLE" => to # "IDLE"
        /\ MaySend(s) => \/ to \in {"IDLE", "OPEN", "HALF_CLOSED_REMOTE"}
                         \/ to = "CLOSED" /\ (s.state = "CLOSED" \/ frame.type = "RST_STREAM")
    BY <1>1 DEF IsStream, MaySend, Target, Legal, to
  <2> HIDE DEF t
  <2>3. IsStream(t)
    BY <2>1, <2>2 DEF IsStream, closedWithRst
  <2>4. MaySend(s) => MaySend(t)
    BY <2>1, <2>2 DEF MaySend, IsStream, closedWithRst
  <2> QED
    BY <2>0, <2>1, <2>2, <2>3, <2>4
<1>2. CASE ~Legal(s, FALSE, frame)
  <2>1. SameControl(s, ResetClosed(s))
    BY DEF SameControl, IsStream, StreamFields, ResetClosed
  <2>2. SameControl(s, Transition(s, FALSE, frame))
    BY <1>2, <2>1 DEF Transition, SameControl, IsStream, StreamFields
  <2> QED
    BY <2>2, SameIsStream DEF SameControl, MaySend
<1> QED
  BY <1>1, <1>2

LEMMA TransitionSends ==
  ASSUME NEW s, NEW frame, Sendable(s, frame)
  PROVE  Sent(s, frame, Transition(s, TRUE, frame))
<1>0. /\ IsStream(s)
      /\ frame.type \in {"HEADERS", "DATA", "RST_STREAM"} /\ frame.end \in BOOLEAN
      /\ MaySend(s) \/ frame.type = "RST_STREAM"
      /\ frame.type # "HEADERS" => s.state # "IDLE"
  BY DEF Sendable
<1> DEFINE to == Target(s.state, TRUE, frame)
<1>1. CASE Legal(s, TRUE, frame)
  <2> DEFINE initiated == IF s.state = "IDLE" /\ frame.type = "HEADERS"
                          THEN "us" ELSE s.initiated
             closedByUs == IF to = "CLOSED" /\ s.state # "CLOSED" THEN TRUE ELSE s.closedByUs
             closedWithRst == IF to = "CLOSED" /\ s.state # "CLOSED"
                              THEN frame.type = "RST_STREAM" ELSE s.closedWithRst
             t == [s EXCEPT !.state = to, !.initiated = initiated,
                            !.closedByUs = closedByUs, !.closedWithRst = closedWithRst]
  <2>0. Transition(s, TRUE, frame) = t
    BY <1>0, <1>1 DEF Transition, IsStream, StreamFields
  <2> HIDE DEF to, initiated, closedByUs, closedWithRst
  <2>1. /\ t = [f \in StreamFields |-> t[f]]
        /\ t.state = to /\ t.closedWithRst = closedWithRst /\ t.thrown = s.thrown
    BY <1>0 DEF IsStream, StreamFields
  <2>2. /\ to \in {"OPEN", "HALF_CLOSED_LOCAL", "HALF_CLOSED_REMOTE", "CLOSED"}
        /\ s.state = "CLOSED" => to = "CLOSED"
        /\ MaySend(s) /\ ~frame.end =>
              \/ to \in {"OPEN", "HALF_CLOSED_REMOTE"}
              \/ to = "CLOSED" /\ (s.state = "CLOSED" \/ frame.type = "RST_STREAM")
    BY <1>0, <1>1 DEF IsStream, MaySend, Target, to
  <2> HIDE DEF t
  <2>3. IsStream(t)
    BY <1>0, <2>1, <2>2 DEF IsStream, closedWithRst
  <2>4. MaySend(s) /\ ~frame.end => MaySend(t)
    BY <1>0, <2>1, <2>2 DEF MaySend, IsStream, closedWithRst
  <2> QED
    BY <2>0, <2>1, <2>2, <2>3, <2>4 DEF Sent
<1>2. CASE ~Legal(s, TRUE, frame)
  <2>1. s.state = "CLOSED" /\ s.closedWithRst
    BY <1>0, <1>2 DEF IsStream, MaySend, Legal, LegalWhenClosed
  <2>2. Transition(s, TRUE, frame) = [s EXCEPT !.thrown = TRUE]
    BY <1>2 DEF Transition
  <2> QED
    BY <1>0, <2>1, <2>2 DEF Sent, IsStream, StreamFields, MaySend
<1> QED
  BY <1>1, <1>2

LEMMA PushUpstreamSends ==
  ASSUME NEW s, NEW frame, Sendable(s, frame)
  PROVE  Sent(s, frame, PushUpstream(s, frame))
<1> DEFINE after == Transition(s, TRUE, frame)
           pushed == Push(after.upstream, [frame EXCEPT !.count = CountChange(s, after)])
<1>1. Sent(s, frame, after)
  BY TransitionSends
<1>2. PushUpstream(s, frame) = [after EXCEPT !.upstream = pushed]
  BY DEF PushUpstream
<1> HIDE DEF after, pushed
<1>3. SameControl(after, [after EXCEPT !.upstream = pushed])
  BY <1>1, UpstreamSame DEF Sent
<1> QED
  BY <1>1, <1>2, <1>3, SameIsStream DEF SameControl, MaySend, Sent

-----------------------------------------------------------------------------
(* The users.                                                              *)

LEMMA HeadersKept ==
  ASSUME NEW s, IsStream(s), MaySend(s)
  PROVE  Sent(s, F("HEADERS"), Headers(s))
<1>1. Sendable(s, F("HEADERS"))
  BY DEF Sendable, F
<1> QED
  BY <1>1, PushUpstreamSends DEF Headers

LEMMA WriteKept ==
  ASSUME NEW s, IsStream(s), MaySend(s), s.state # "IDLE", NEW bytes
  PROVE  Sent(s, Data(bytes), Write(s, bytes))
<1> DEFINE pushed == PushUpstream(s, Data(bytes))
<1>1. Sendable(s, Data(bytes))
  BY DEF Sendable, Data, F
<1>2. Sent(s, Data(bytes), pushed)
  BY <1>1, PushUpstreamSends
<1>3. \/ Write(s, bytes) = pushed
      \/ Write(s, bytes) = [pushed EXCEPT !.writing = TRUE]
  BY DEF Write, Waiting
<1> HIDE DEF pushed
<1>4. SameControl(pushed, [pushed EXCEPT !.writing = TRUE])
  BY <1>2 DEF Sent, SameControl, IsStream, StreamFields
<1> QED
  BY <1>2, <1>3, <1>4, SameIsStream DEF SameControl, MaySend, Sent

LEMMA FinishingKept ==
  ASSUME NEW s, IsStream(s), MaySend(s), s.state # "IDLE"
  PROVE  LET t == Finishing(s) IN IsStream(t) /\ t.state # "IDLE"
<1> DEFINE endFrame == [Data(<<>>) EXCEPT !.end = TRUE]
           marked == [s EXCEPT !.upstream = MarkLast(@)]
<1>1. endFrame.type = "DATA" /\ endFrame.end = TRUE
  BY DEF Data, F
<1>2. SameControl(s, marked)
  BY UpstreamSame
<1>3. \/ Finishing(s) = Transition(marked, TRUE, endFrame)
      \/ Finishing(s) = PushUpstream(s, endFrame)
  BY DEF Finishing
<1> HIDE DEF endFrame, marked
<1>4. IsStream(marked) /\ MaySend(marked) /\ marked.state # "IDLE"
  BY <1>2, SameIsStream DEF SameControl, MaySend
<1>5. Sent(marked, endFrame, Transition(marked, TRUE, endFrame))
  BY <1>1, <1>4, TransitionSends DEF Sendable
<1>6. Sent(s, endFrame, PushUpstream(s, endFrame))
  BY <1>1, PushUpstreamSends DEF Sendable
<1> QED
  BY <1>3, <1>5, <1>6 DEF Sent

LEMMA ResetKept ==
  ASSUME NEW s, IsStream(s), s.state # "IDLE"
  PROVE  LET t == Reset(s)
         IN  IsStream(t) /\ (MaySend(s) => MaySend(t)) /\ t.state # "IDLE"
<1> DEFINE marked == [s EXCEPT !.resetSent = TRUE]
<1>1. SameControl(s, marked)
  BY DEF SameControl, IsStream, StreamFields
<1>2. Reset(s) = s \/ Reset(s) = PushUpstream(marked, F("RST_STREAM"))
  BY DEF Reset
<1> HIDE DEF marked
<1>3. IsStream(marked) /\ marked.state # "IDLE" /\ (MaySend(s) => MaySend(marked))
  BY <1>1, SameIsStream DEF SameControl, MaySend
<1>4. Sendable(marked, F("RST_STREAM")) /\ ~F("RST_STREAM").end
  BY <1>3 DEF Sendable, F
<1>5. Sent(marked, F("RST_STREAM"), PushUpstream(marked, F("RST_STREAM")))
  BY <1>4, PushUpstreamSends
<1> QED
  BY <1>2, <1>3, <1>4, <1>5 DEF Sent

\* A frame of the peer.
LEMMA ArriveKept ==
  ASSUME NEW s, IsStream(s), NEW frame
  PROVE  LET t == Arrive(s, frame)
         IN  /\ IsStream(t)
             /\ MaySend(s) => MaySend(t)
             /\ s.state # "IDLE" => t.state # "IDLE"
<1> DEFINE written == WriteUpstream(s, frame)
           moved == Transition(written, FALSE, frame)
<1>1. SameControl(s, written) /\ IsStream(written)
  BY WriteUpstreamSame, SameIsStream
<1>2. /\ IsStream(moved)
      /\ MaySend(written) => MaySend(moved)
      /\ written.state # "IDLE" => moved.state # "IDLE"
  BY <1>1, TransitionReceives
<1>3. SameControl(moved, Handle(moved, frame))
  BY <1>2, HandleSame
<1>4. Arrive(s, frame) = Handle(moved, frame)
  BY DEF Arrive, Process
<1> HIDE DEF written, moved
<1> QED
  BY <1>1, <1>2, <1>3, <1>4, SameIsStream DEF SameControl, MaySend

-----------------------------------------------------------------------------
(* The steps.                                                              *)

LEMMA BecomesKeeps ==
  ASSUME DialogueInv, NEW e \in Ends, NEW s, IsStream(s), Becomes(e, s)
  PROVE  /\ stream' = [x \in Ends |-> stream'[x]]
         /\ SameControl(s, stream'[e]) /\ IsStream(stream'[e])
         /\ MaySend(s) => MaySend(stream'[e])
         /\ \A x \in Ends \ {e} : stream'[x] = stream[x]
<1>1. stream' = [stream EXCEPT ![e] = EndTurn(s)]
  BY DEF Becomes
<1>2. SameControl(s, EndTurn(s))
  BY EndTurnSame
<1>3. stream'[e] = EndTurn(s)
  BY <1>1 DEF DialogueInv
<1>4. /\ stream' = [x \in Ends |-> stream'[x]]
      /\ \A x \in Ends \ {e} : stream'[x] = stream[x]
  BY <1>1 DEF DialogueInv
<1> QED
  BY <1>2, <1>3, <1>4, SameIsStream DEF SameControl, MaySend

\* A step of an end that neither speaks for the first time nor moves its user.
LEMMA StreamMoves ==
  ASSUME DialogueInv, NEW e \in Ends, NEW s, Becomes(e, s),
         IsStream(s), MaySend(stream[e]) => MaySend(s),
         stream[e].state # "IDLE" => s.state # "IDLE",
         UNCHANGED <<said, user>>
  PROVE  DialogueInv'
<1>1. EndInv(e)'
  BY BecomesKeeps DEF DialogueInv, EndInv, SameControl
<1>2. ASSUME NEW x \in Ends \ {e} PROVE EndInv(x)'
  BY <1>2, BecomesKeeps DEF DialogueInv, EndInv
<1> QED
  BY <1>1, <1>2, BecomesKeeps DEF DialogueInv

\* Only the upstream is touched: the windows, the timer, what is forwarded.
LEMMA UpstreamMoves ==
  ASSUME DialogueInv, NEW e \in Ends, NEW s, Becomes(e, s),
         SameControl(stream[e], s), UNCHANGED <<said, user>>
  PROVE  DialogueInv'
<1>1. IsStream(s)
  BY SameIsStream DEF DialogueInv, EndInv
<1> QED
  BY <1>1, StreamMoves DEF SameControl, MaySend

LEMMA InitHolds == Init => DialogueInv
<1>1. IsStream(NewStream) /\ MaySend(NewStream)
  BY DEF IsStream, StreamFields, MaySend, NewStream
<1> SUFFICES ASSUME Init PROVE DialogueInv
  OBVIOUS
<1>2. ASSUME NEW e \in Ends PROVE EndInv(e)
  BY <1>1, <1>2 DEF Init, EndInv
<1> QED
  BY <1>2 DEF Init, DialogueInv

\* A step of the user of e, which said and user tell.
LEMMA UserMoves ==
  ASSUME DialogueInv, NEW e \in Ends, NEW s, Becomes(e, s),
         IsStream(s), s.state # "IDLE",
         NEW now, now # "ended" => MaySend(s),
         said' = [said EXCEPT ![e] = TRUE], user' = [user EXCEPT ![e] = now]
  PROVE  DialogueInv'
<1>1. /\ said' = [x \in Ends |-> said'[x]] /\ user' = [x \in Ends |-> user'[x]]
      /\ said'[e] = TRUE /\ user'[e] = now
      /\ \A x \in Ends \ {e} : said'[x] = said[x] /\ user'[x] = user[x]
  BY DEF DialogueInv
<1>2. EndInv(e)'
  BY <1>1, BecomesKeeps, ZenonT(60) DEF DialogueInv, EndInv, SameControl
<1>3. ASSUME NEW x \in Ends \ {e} PROVE EndInv(x)'
  BY <1>1, <1>3, BecomesKeeps DEF DialogueInv, EndInv
<1> QED
  BY <1>1, <1>2, <1>3, BecomesKeeps DEF DialogueInv

LEMMA NextKeeps == DialogueInv /\ [Next]_vars => DialogueInv'
<1> SUFFICES ASSUME DialogueInv, [Next]_vars PROVE DialogueInv'
  OBVIOUS
<1>0. ASSUME NEW e \in Ends
      PROVE  /\ IsStream(stream[e])
             /\ user[e] # "ended" => MaySend(stream[e])
             /\ ~said[e] => user[e] = "open"
             /\ said[e] => stream[e].state # "IDLE"
  BY DEF DialogueInv, EndInv
<1>1. ASSUME NEW e \in Ends, SendHeaders(e) PROVE DialogueInv'
  <2>1. Sent(stream[e], F("HEADERS"), Headers(stream[e]))
    BY <1>0, <1>1, HeadersKept DEF SendHeaders
  <2>2. MaySend(Headers(stream[e]))
    BY <1>0, <1>1, <2>1 DEF SendHeaders, Sent, F
  <2>3. user' = [user EXCEPT ![e] = user[e]]
    BY <1>1 DEF SendHeaders, DialogueInv
  <2> QED
    BY <1>1, <2>1, <2>2, <2>3, UserMoves DEF SendHeaders, Sent
<1>2. ASSUME NEW e \in Ends, NEW n \in Chunks, WriteChunk(e, n) PROVE DialogueInv'
  <2> DEFINE bytes == [i \in 1..n |-> wrote[e] + i]
  <2>1. Sent(stream[e], Data(bytes), Write(stream[e], bytes))
    BY <1>0, <1>2, WriteKept DEF WriteChunk
  <2>2. ~Data(bytes).end /\ MaySend(stream[e])
    BY <1>0, <1>2 DEF WriteChunk, Data, F
  <2> QED
    BY <1>2, <2>1, <2>2, StreamMoves DEF WriteChunk, Sent
<1>3. ASSUME NEW e \in Ends, End(e) PROVE DialogueInv'
  <2>1. ASSUME NEW x \in Ends PROVE EndInv(x)'
    BY <1>0, <1>3 DEF End, DialogueInv, EndInv
  <2> QED
    BY <1>3, <2>1 DEF End, DialogueInv
<1>4. ASSUME NEW e \in Ends, Finish(e) PROVE DialogueInv'
  <2>1. said[e] /\ MaySend(stream[e]) /\ stream[e].state # "IDLE"
    BY <1>0, <1>4 DEF Finish
  <2>2. IsStream(Finishing(stream[e])) /\ Finishing(stream[e]).state # "IDLE"
    BY <1>0, <2>1, FinishingKept
  <2>3. said[e] = TRUE
    BY <2>1 DEF DialogueInv, EndInv
  <2>4. said' = [said EXCEPT ![e] = TRUE]
    BY <1>4, <2>3 DEF Finish, DialogueInv
  <2> QED
    BY <1>4, <2>2, <2>4, UserMoves DEF Finish
<1>5. ASSUME NEW e \in Ends, ResetStream(e) PROVE DialogueInv'
  <2>1. /\ IsStream(Reset(stream[e])) /\ Reset(stream[e]).state # "IDLE"
        /\ MaySend(stream[e]) => MaySend(Reset(stream[e]))
    BY <1>0, <1>5, ResetKept DEF ResetStream
  <2> QED
    BY <1>5, <2>1, StreamMoves DEF ResetStream
<1>6. ASSUME NEW e \in Ends, ReadBody(e) PROVE DialogueInv'
  BY <1>0, <1>6, UserReadSame, UpstreamMoves DEF ReadBody
<1>7. ASSUME NEW e \in Ends, NEW limit \in Limits, Forward(e, limit) PROVE DialogueInv'
  <2> DEFINE flow == IF Polled(stream[e].upstream).buffer # <<>>
                     THEN Taken(Polled(stream[e].upstream), limit)
                     ELSE Polled(stream[e].upstream)
             t == [stream[e] EXCEPT !.upstream = flow]
  <2>1. Becomes(e, Send(t)) /\ UNCHANGED <<said, user>>
    BY <1>7 DEF Forward
  <2>2. SameControl(stream[e], t)
    BY <1>0, UpstreamSame
  <2> HIDE DEF t
  <2>3. SameControl(stream[e], Send(t))
    BY <1>0, <2>2, SendSame, SameIsStream, SameTransitive
  <2> QED
    BY <2>1, <2>3, UpstreamMoves
<1>8. ASSUME NEW e \in Ends, Deliver(e) PROVE DialogueInv'
  BY <1>0, <1>8, ArriveKept, StreamMoves DEF Deliver, Arrive
<1>9. ASSUME NEW e \in Ends, Restore(e) PROVE DialogueInv'
  BY <1>0, <1>9, UpstreamSame, UpstreamMoves DEF Restore
<1>10. ASSUME NEW e \in Ends, NEW size \in Windows, ChangeWindow(e, size)
       PROVE  DialogueInv'
  <2> DEFINE t == [stream[e] EXCEPT !.upstream = SetInitialWindow(@, size)]
  <2>1. Becomes(e, Send(t)) /\ UNCHANGED <<said, user>>
    BY <1>10 DEF ChangeWindow
  <2>2. SameControl(stream[e], t)
    BY <1>0, UpstreamSame
  <2> HIDE DEF t
  <2>3. SameControl(stream[e], Send(t))
    BY <1>0, <2>2, SendSame, SameIsStream, SameTransitive
  <2> QED
    BY <2>1, <2>3, UpstreamMoves
<1>11. CASE UNCHANGED vars
  BY <1>11 DEF vars, DialogueInv, EndInv
<1> QED
  BY <1>1, <1>2, <1>3, <1>4, <1>5, <1>6, <1>7, <1>8, <1>9, <1>10, <1>11 DEF Next

\* In every dialogue the end whose side is open may send, or was reset.
THEOREM DialogueInvariant == Spec => []DialogueInv
BY InitHolds, NextKeeps, PTL DEF Spec

\* An operation of the user throws only on a stream that was reset: neither the
\* END_STREAM of the peer nor the user's own end makes _transition throw.
THEOREM ThrowsOnResetStreams == Spec => []ThrowsOnlyAfterReset
<1>1. DialogueInv => ThrowsOnlyAfterReset
  BY DEF DialogueInv, EndInv, IsStream, ThrowsOnlyAfterReset
<1> QED
  BY <1>1, DialogueInvariant, PTL

-----------------------------------------------------------------------------
(* One way of a dialogue, from the user who writes to the one who reads.   *)

Interval(m, n) == [i \in 1 .. (n - m) |-> m + i]

\* The bytes that are written and not read are on the way, in order.
Body(p, L, n, m) ==
  /\ m \in Nat /\ n \in Nat /\ m <= n
  /\ p.user \o Bytes(L) = Interval(m, n)

\* L is what the stream p has not received.  Bytes do not follow the end; a
\* writer who is "open" neither ended nor reset the stream, one who is "over"
\* has ended its side.
Order(p, L, open, over) ==
  /\ ~Late(L)
  /\ p.ended => Bytes(L) = <<>>
  /\ open => ~Some(L, Ending) /\ ~p.ended
  /\ Some(L, Ended) => over
  /\ Done(p) => over
  /\ Some(p.input, Resets) \/ p.ended => p.closedWithRst \/ over

\* The stream opens before it is reset: ahead is what p has not been given, the
\* writer "spoke" when it sent headers.
Begin(p, L, ahead, spoke, other) ==
  /\ p.state = "IDLE" => ~Early(ahead) /\ (spoke => Some(ahead, Opening))
  /\ Some(L, Opening) => spoke
  /\ p.state # "IDLE" => spoke \/ other

WayIs(p, ahead, open, over, spoke, other, n, m) ==
  /\ p \in Streams /\ ahead \in Seq(Frames)
  /\ open \in BOOLEAN /\ over \in BOOLEAN /\ spoke \in BOOLEAN /\ other \in BOOLEAN
  /\ Body(p, p.input \o ahead, n, m)
  /\ Order(p, p.input \o ahead, open, over)
  /\ Begin(p, p.input \o ahead, ahead, spoke, other)

\* A way sees only what the lists say.
LEMMA WayAlike ==
  ASSUME NEW p, NEW ahead, NEW more, NEW open, NEW over, NEW spoke, NEW other, NEW n, NEW m,
         WayIs(p, ahead, open, over, spoke, other, n, m), Alike(more, ahead)
  PROVE  WayIs(p, more, open, over, spoke, other, n, m)
<1>. DEFINE L == p.input \o ahead
            M == p.input \o more
<1>1. /\ p \in Streams /\ ahead \in Seq(Frames) /\ more \in Seq(Frames)
      /\ open \in BOOLEAN /\ over \in BOOLEAN /\ spoke \in BOOLEAN /\ other \in BOOLEAN
      /\ Body(p, L, n, m) /\ Order(p, L, open, over) /\ Begin(p, L, ahead, spoke, other)
  BY DEF WayIs, Alike
<1>2. p.input \in Seq(Frames)
  BY <1>1, StreamTypes
<1>3. Alike(M, L)
  BY <1>2, AlikeSelf, AlikeJoin
<1>. HIDE DEF L, M
<1>4. Body(p, M, n, m)
  BY <1>1, <1>3 DEF Body, Alike
<1>5. Order(p, M, open, over)
  BY <1>1, <1>3 DEF Order, Alike
<1>6. Begin(p, M, more, spoke, other)
  BY <1>1, <1>3 DEF Begin, Alike
<1>. QED
  BY <1>1, <1>4, <1>5, <1>6 DEF WayIs, M

\* The end as a mark on a frame that waits.
LEMMA WayMarked ==
  ASSUME NEW p, NEW ahead, NEW more, NEW open, NEW over, NEW spoke, NEW other, NEW n, NEW m,
         WayIs(p, ahead, open, over, spoke, other, n, m), Marked(ahead, more), spoke
  PROVE  WayIs(p, more, FALSE, TRUE, spoke, other, n, m)
<1>. DEFINE L == p.input \o ahead
            M == p.input \o more
<1>1. /\ p \in Streams /\ ahead \in Seq(Frames) /\ more \in Seq(Frames)
      /\ open \in BOOLEAN /\ over \in BOOLEAN /\ spoke \in BOOLEAN /\ other \in BOOLEAN
      /\ Body(p, L, n, m) /\ Order(p, L, open, over) /\ Begin(p, L, ahead, spoke, other)
  BY DEF WayIs, Marked
<1>2. p.input \in Seq(Frames)
  BY <1>1, StreamTypes
<1>3. Marked(L, M)
  BY <1>2, MarkedJoin
<1>. HIDE DEF L, M
<1>4. Body(p, M, n, m)
  BY <1>1, <1>3 DEF Body, Marked
<1>5. Order(p, M, FALSE, TRUE)
  BY <1>1, <1>3 DEF Order, Marked
<1>6. Begin(p, M, more, spoke, other)
  BY <1>1, <1>3 DEF Begin, Marked
<1>. QED
  BY <1>1, <1>4, <1>5, <1>6 DEF WayIs, M

\* What the writer may say.
MaySay(p, Y, open, over, spoke, open2, over2, spoke2) ==
  /\ open2 \in BOOLEAN /\ over2 \in BOOLEAN /\ spoke2 \in BOOLEAN
  /\ open2 => open
  /\ over => over2
  /\ spoke => spoke2
  /\ Y \in Seq(Frames) /\ ~Late(Y)
  /\ Bytes(Y) # <<>> => open
  /\ Some(Y, Ending) => ~open2
  /\ Some(Y, Ended) => over2
  /\ Early(Y) => spoke \/ p.state # "IDLE"
  /\ Some(Y, Opening) => spoke2
  /\ spoke2 => spoke \/ Some(Y, Opening)

\* The writer says what it may say.
LEMMA WaySays ==
  ASSUME NEW p, NEW ahead, NEW open, NEW over, NEW spoke, NEW other, NEW n, NEW m,
         WayIs(p, ahead, open, over, spoke, other, n, m),
         NEW Y, NEW open2, NEW over2, NEW spoke2, NEW other2, NEW n2,
         MaySay(p, Y, open, over, spoke, open2, over2, spoke2),
         other2 \in BOOLEAN, other => other2,
         n2 \in Nat, n <= n2, Interval(m, n) \o Bytes(Y) = Interval(m, n2)
  PROVE  WayIs(p, ahead \o Y, open2, over2, spoke2, other2, n2, m)
<1>. DEFINE I == p.input
            L == I \o ahead
            M == I \o (ahead \o Y)
<1>1. /\ p \in Streams /\ ahead \in Seq(Frames)
      /\ open \in BOOLEAN /\ over \in BOOLEAN /\ spoke \in BOOLEAN /\ other \in BOOLEAN
      /\ Body(p, L, n, m) /\ Order(p, L, open, over) /\ Begin(p, L, ahead, spoke, other)
  BY DEF WayIs
<1>2. /\ Y \in Seq(Frames) /\ ~Late(Y)
      /\ open2 \in BOOLEAN /\ over2 \in BOOLEAN /\ spoke2 \in BOOLEAN
  BY DEF MaySay
<1>3. I \in Seq(Frames) /\ p.user \in Seq(Octet)
  BY <1>1, StreamTypes
<1>. HIDE DEF I
<1>4. L \in Seq(Frames) /\ ahead \o Y \in Seq(Frames) /\ M = L \o Y
  <2>1. L \in Seq(Frames) /\ ahead \o Y \in Seq(Frames)
    BY <1>1, <1>2, <1>3, JoinList
  <2>2. Regroups(I, ahead, Y)
    BY <1>1, <1>2, <1>3, ListsRegroup
  <2>. QED
    BY <2>1, <2>2 DEF Regroups
<1>. HIDE DEF L, M
<1>5. \A S : Some(M, S) <=> Some(L, S) \/ Some(Y, S)
  BY <1>2, <1>4, SomeJoin
<1>6. Body(p, M, n2, m)
  <2>1. Bytes(M) = Bytes(L) \o Bytes(Y)
    BY <1>2, <1>4, BytesJoin
  <2>2. Bytes(L) \in Seq(Octet) /\ Bytes(Y) \in Seq(Octet)
    BY <1>2, <1>4, BytesType
  <2>3. (p.user \o Bytes(L)) \o Bytes(Y) = p.user \o (Bytes(L) \o Bytes(Y))
    BY <1>3, <2>2, DataAssociative
  <2>4. p.user \o Bytes(L) = Interval(m, n) /\ m \in Nat /\ n \in Nat /\ m <= n
    BY <1>1 DEF Body
  <2>5. p.user \o Bytes(M) = Interval(m, n2)
    BY <2>1, <2>3, <2>4, Zenon
  <2>6. m <= n2
    BY <2>4
  <2>. QED
    BY <2>4, <2>5, <2>6 DEF Body
<1>7. Order(p, M, open2, over2)
  <2>1. Late(M) <=> Late(L) \/ Late(Y) \/ (Some(L, Ending) /\ Bytes(Y) # <<>>)
    BY <1>2, <1>4, LateJoin
  <2>2. Bytes(M) = <<>> <=> Bytes(L) = <<>> /\ Bytes(Y) = <<>>
    BY <1>2, <1>4, BytesEmptyJoin
  <2>3. /\ Some(M, Ending) <=> Some(L, Ending) \/ Some(Y, Ending)
        /\ Some(M, Ended) <=> Some(L, Ended) \/ Some(Y, Ended)
    BY <1>5
  <2>. QED
    BY <1>1, <1>2, <2>1, <2>2, <2>3 DEF Order, MaySay
<1>8. Begin(p, M, ahead \o Y, spoke2, other2)
  <2>1. /\ Early(ahead \o Y) <=> Early(ahead) \/ (~Some(ahead, Opening) /\ Early(Y))
        /\ Some(ahead \o Y, Opening) <=> Some(ahead, Opening) \/ Some(Y, Opening)
    BY <1>1, <1>2, EarlyJoin, SomeJoin
  <2>2. Some(M, Opening) <=> Some(L, Opening) \/ Some(Y, Opening)
    BY <1>5
  <2>. QED
    BY <1>1, <1>2, <2>1, <2>2 DEF Begin, MaySay
<1>. QED
  BY <1>1, <1>2, <1>4, <1>6, <1>7, <1>8 DEF WayIs, M, I

\* What the state machine of the reader makes of X.
HearsIn(p, t, X, over, spoke, other) ==
  /\ Done(t) => Done(p) \/ over
  /\ Some(X, Resets) => t.closedWithRst \/ over
  /\ p.closedWithRst => t.closedWithRst
  /\ t.state = "IDLE" => p.state = "IDLE" /\ ~Some(X, Opening)
  /\ t.state # "IDLE" => p.state # "IDLE" \/ spoke \/ other

\* The reader hears X, the first part of what is ahead.
LEMMA WayHears ==
  ASSUME NEW p, NEW X \in Seq(Frames), NEW ahead \in Seq(Frames), NEW open, NEW over, NEW spoke,
         NEW other, NEW n, NEW m,
         WayIs(p, X \o ahead, open, over, spoke, other, n, m),
         NEW t \in Streams, Heard(p, t, X),
         NEW other2 \in BOOLEAN, other => other2,
         HearsIn(p, t, X, over, spoke, other2)
  PROVE  WayIs(t, ahead, open, over, spoke, other2, n, m)
<1>. DEFINE I == p.input
            J == t.input
            L == I \o (X \o ahead)
            M == J \o ahead
<1>1. /\ p \in Streams
      /\ open \in BOOLEAN /\ over \in BOOLEAN /\ spoke \in BOOLEAN /\ other \in BOOLEAN
      /\ Body(p, L, n, m) /\ Order(p, L, open, over)
      /\ Begin(p, L, X \o ahead, spoke, other)
  BY DEF WayIs
<1>2. PICK C \in Seq(Frames) : HeardPart(p, t, X, C)
  BY DEF Heard
<1>3. I \in Seq(Frames) /\ J \in Seq(Frames) /\ p.user \in Seq(Octet)
  BY <1>1, StreamTypes
<1>4. I \o X = C \o J
  BY <1>2, Zenon DEF HeardPart
<1>. HIDE DEF I, J
<1>5. /\ L = (I \o X) \o ahead /\ L = C \o M
      /\ M \in Seq(Frames) /\ I \o X \in Seq(Frames) /\ L \in Seq(Frames)
  <2>1. Regroups(I, X, ahead) /\ Regroups(C, J, ahead)
    BY <1>3, ListsRegroup
  <2>2. L = (I \o X) \o ahead /\ L = C \o M
    BY <1>4, <2>1, Zenon DEF Regroups
  <2>3. M \in Seq(Frames) /\ I \o X \in Seq(Frames)
    BY <1>3, JoinList
  <2>. HIDE DEF M, L
  <2>4. C \o M \in Seq(Frames)
    BY <2>3, JoinList
  <2>. QED
    BY <2>2, <2>3, <2>4
<1>. HIDE DEF L, M
<1>6. /\ ~Late(L) /\ (p.ended => Bytes(L) = <<>>)
      /\ open => ~Some(L, Ending) /\ ~p.ended
      /\ Some(L, Ended) => over
      /\ Done(p) => over
      /\ Some(I, Resets) \/ p.ended => p.closedWithRst \/ over
  BY <1>1 DEF Order, I
<1>7. Sound(p, X)
  <2>. DEFINE K == I \o X
  <2>1. K \in Seq(Frames) /\ L = K \o ahead
    BY <1>5
  <2>. HIDE DEF K
  <2>2. Late(K) => Late(L)
    BY <2>1, LateJoin
  <2>3. Bytes(L) = <<>> => Bytes(K) = <<>>
    BY <2>1, BytesEmptyJoin
  <2>. QED
    BY <1>6, <2>2, <2>3 DEF Sound, K, I
<1>8. t.user = p.user \o Bytes(C) /\ (t.ended <=> p.ended \/ Some(C, Ending))
  BY <1>2, <1>7 DEF HeardPart
<1>9. Body(t, M, n, m)
  <2>1. Bytes(L) = Bytes(C) \o Bytes(M)
    BY <1>5, BytesJoin
  <2>2. Bytes(C) \in Seq(Octet) /\ Bytes(M) \in Seq(Octet)
    BY <1>5, BytesType
  <2>3. (p.user \o Bytes(C)) \o Bytes(M) = p.user \o (Bytes(C) \o Bytes(M))
    BY <1>3, <2>2, DataAssociative
  <2>4. p.user \o Bytes(L) = Interval(m, n) /\ m \in Nat /\ n \in Nat /\ m <= n
    BY <1>1 DEF Body
  <2>5. t.user \o Bytes(M) = Interval(m, n)
    BY <1>8, <2>1, <2>3, <2>4, Zenon
  <2>. QED
    BY <2>4, <2>5 DEF Body
<1>10. \A S : Some(L, S) <=> Some(C, S) \/ Some(M, S)
  BY <1>5, SomeJoin
<1>11. Order(t, M, open, over)
  <2>1. Late(L) <=> Late(C) \/ Late(M) \/ (Some(C, Ending) /\ Bytes(M) # <<>>)
    BY <1>5, LateJoin
  <2>2. Bytes(L) = <<>> <=> Bytes(C) = <<>> /\ Bytes(M) = <<>>
    BY <1>5, BytesEmptyJoin
  <2>3. ~Late(M) /\ (t.ended => Bytes(M) = <<>>)
    BY <1>6, <1>8, <2>1, <2>2
  <2>4. Some(L, Ending) <=> Some(C, Ending) \/ Some(M, Ending)
    BY <1>10
  <2>5. Some(L, Ended) <=> Some(C, Ended) \/ Some(M, Ended)
    BY <1>10
  <2>6. open => ~Some(M, Ending) /\ ~t.ended
    BY <1>6, <1>8, <2>4
  <2>7. Some(M, Ended) => over
    BY <1>6, <2>5
  <2>8. Done(t) => over
    BY <1>6 DEF HearsIn
  <2>9. Some(J, Resets) \/ Some(C, Resets) => Some(I, Resets) \/ Some(X, Resets)
    <3>1. Some(I \o X, Resets) <=> Some(I, Resets) \/ Some(X, Resets)
      BY <1>3, SomeJoin
    <3>2. Some(C \o J, Resets) <=> Some(C, Resets) \/ Some(J, Resets)
      BY <1>3, SomeJoin
    <3>. QED
      BY <1>4, <3>1, <3>2
  <2>10. Some(I, Resets) \/ Some(X, Resets) => t.closedWithRst \/ over
    BY <1>6 DEF HearsIn
  <2>11. Some(C, Ending) => Some(C, Ended) \/ Some(C, Resets)
    BY DEF Some, Ending
  <2>12. Some(J, Resets) \/ t.ended => t.closedWithRst \/ over
    <3>1. Some(J, Resets) => t.closedWithRst \/ over
      BY <2>9, <2>10
    <3>2. p.ended => t.closedWithRst \/ over
      BY <1>6 DEF HearsIn
    <3>3. Some(C, Ending) => t.closedWithRst \/ over
      BY <1>6, <2>5, <2>9, <2>10, <2>11
    <3>. QED
      BY <1>8, <3>1, <3>2, <3>3
  <2>. QED
    BY <2>3, <2>6, <2>7, <2>8, <2>12 DEF Order, J
<1>12. Begin(t, M, ahead, spoke, other2)
  <2>1. /\ p.state = "IDLE" => ~Early(X \o ahead) /\ (spoke => Some(X \o ahead, Opening))
        /\ Some(L, Opening) => spoke
    BY <1>1 DEF Begin
  <2>2. Some(M, Opening) => Some(L, Opening)
    BY <1>10
  <2>3. /\ Early(X \o ahead) <=> Early(X) \/ (~Some(X, Opening) /\ Early(ahead))
        /\ Some(X \o ahead, Opening) <=> Some(X, Opening) \/ Some(ahead, Opening)
    BY EarlyJoin, SomeJoin
  <2>4. p.state # "IDLE" => spoke \/ other
    BY <1>1 DEF Begin
  <2>. QED
    BY <2>1, <2>2, <2>3, <2>4 DEF Begin, HearsIn
<1>. QED
  BY <1>1, <1>9, <1>11, <1>12 DEF WayIs, M, J

\* A part of an interval, and the rest.
LEMMA IntervalCut ==
  ASSUME NEW m \in Nat, NEW n \in Nat, m <= n, NEW c \in Seq(Octet), NEW d \in Seq(Octet),
         c \o d = Interval(m, n)
  PROVE  m + Len(c) <= n /\ d = Interval(m + Len(c), n)
<1>. DEFINE k == Len(c)
            l == Len(d)
            I == Interval(m, n)
<1>1. k \in Nat /\ l \in Nat
  BY LenProperties
<1>2. Len(I) = k + l
  <2>1. Len(c \o d) = k + l
    BY ConcatProperties
  <2>. QED
    BY <2>1, Zenon
<1>3. ASSUME NEW i \in 1 .. l PROVE I[k + i] = d[i]
  <2>1. (c \o d)[k + i] = d[i]
    BY <1>1
  <2>. QED
    BY <2>1, Zenon
<1>4. Len(I) = n - m /\ \A j \in 1 .. (n - m) : I[j] = m + j
  BY DEF Interval
<1>. HIDE DEF k, l, I
<1>5. l = n - (m + k) /\ m + k <= n
  BY <1>1, <1>2, <1>4
<1>6. ASSUME NEW i \in 1 .. l PROVE d[i] = (m + k) + i
  <2>1. k + i \in 1 .. (n - m)
    BY <1>1, <1>5
  <2>2. I[k + i] = m + (k + i)
    BY <1>4, <2>1
  <2>3. m + (k + i) = (m + k) + i
    BY <1>1
  <2>. QED
    BY <1>3, <2>2, <2>3
<1>7. d = [i \in 1 .. l |-> d[i]]
  BY LenProperties DEF l
<1>8. d = [i \in 1 .. l |-> (m + k) + i]
  BY <1>6, <1>7
<1>. QED
  BY <1>5, <1>8 DEF Interval, k

\* The reader takes what it has.
LEMMA WayReads ==
  ASSUME NEW p, NEW ahead, NEW open, NEW over, NEW spoke, NEW other, NEW n, NEW m,
         WayIs(p, ahead, open, over, spoke, other, n, m),
         NEW t \in Streams, t.user = <<>>, t.input = p.input, t.ended = p.ended, SameState(p, t)
  PROVE  WayIs(t, ahead, open, over, spoke, other, n, m + Len(p.user))
<1>. DEFINE L == p.input \o ahead
<1>1. /\ p \in Streams /\ ahead \in Seq(Frames)
      /\ open \in BOOLEAN /\ over \in BOOLEAN /\ spoke \in BOOLEAN /\ other \in BOOLEAN
      /\ Body(p, L, n, m) /\ Order(p, L, open, over) /\ Begin(p, L, ahead, spoke, other)
  BY DEF WayIs
<1>2. p.user \in Seq(Octet) /\ L \in Seq(Frames)
  BY <1>1, StreamTypes, JoinList
<1>. HIDE DEF L
<1>3. Bytes(L) \in Seq(Octet) /\ Len(p.user) \in Nat
  BY <1>2, BytesType, LenProperties
<1>4. Body(t, L, n, m + Len(p.user))
  <2>1. m \in Nat /\ n \in Nat /\ m <= n /\ p.user \o Bytes(L) = Interval(m, n)
    BY <1>1 DEF Body
  <2>2. m + Len(p.user) <= n /\ Bytes(L) = Interval(m + Len(p.user), n)
    BY <1>2, <1>3, <2>1, IntervalCut, ZenonT(60)
  <2>3. <<>> \o Bytes(L) = Bytes(L)
    BY <1>3, ConcatEmptySeq
  <2>4. t.user \o Bytes(L) = Interval(m + Len(p.user), n)
    BY <2>2, <2>3, Zenon
  <2>5. m + Len(p.user) \in Nat
    BY <1>3, <2>1
  <2>. QED
    BY <2>1, <2>2, <2>4, <2>5 DEF Body
<1>5. Order(t, L, open, over)
  BY <1>1 DEF Order, SameState, Done
<1>6. Begin(t, L, ahead, spoke, other)
  BY <1>1 DEF Begin, SameState
<1>. QED
  BY <1>1, <1>4, <1>5, <1>6 DEF WayIs, L


\* Nothing is heard.
LEMMA WayHearsNothing ==
  ASSUME NEW p, NEW ahead, NEW open, NEW over, NEW spoke, NEW other, NEW n, NEW m,
         WayIs(p, ahead, open, over, spoke, other, n, m),
         NEW t \in Streams, Heard(p, t, <<>>),
         NEW other2, other2 \in BOOLEAN, other => other2,
         HearsIn(p, t, <<>>, over, spoke, other2)
  PROVE  WayIs(t, ahead, open, over, spoke, other2, n, m)
<1>. DEFINE X == <<>>
<1>1. ahead \in Seq(Frames)
  BY DEF WayIs
<1>2. X \in Seq(Frames) /\ X \o ahead = ahead
  BY <1>1, EmptyList, JoinEmpty
<1>3. Heard(p, t, X) /\ HearsIn(p, t, X, over, spoke, other2)
  OBVIOUS
<1>. HIDE DEF X
<1>4. WayIs(p, X \o ahead, open, over, spoke, other, n, m)
  BY <1>2, Zenon
<1>5. ASSUME NEW Z \in Seq(Frames), WayIs(p, Z \o ahead, open, over, spoke, other, n, m),
             Heard(p, t, Z), HearsIn(p, t, Z, over, spoke, other2)
      PROVE  WayIs(t, ahead, open, over, spoke, other2, n, m)
  BY <1>1, <1>5, WayHears
<1>. QED
  BY <1>2, <1>3, <1>4, <1>5

-----------------------------------------------------------------------------
(* The two ends.                                                           *)

UserStates == {"open", "ending", "ended"}

\* One end of a dialogue, with the frames that are coming to it.
Sides ==
  [stream : Streams, channel : Seq(Frames), user : UserStates, said : BOOLEAN,
   wrote : Nat, got : Nat]

Open(x) == x.user = "open" /\ ~x.stream.resetSent
Over(x) == x.user = "ended"
Ahead(x, y) == y.channel \o Content(x.stream.upstream)

Way(x, y) ==
  WayIs(y.stream, Ahead(x, y), Open(x), Over(x), x.said, y.said, x.wrote, y.got)

\* What x has sent and not been given back is on the way or held.
CreditIs(s, p, a, b) == Given(s) + Len(Bytes(a)) + Held(p) + Increments(b) = 0

\* The state machine of x and the user of x.
Own(x) ==
  LET s == x.stream
  IN  /\ Over(x) => s.state \in {"HALF_CLOSED_LOCAL", "CLOSED"}
      /\ s.state = "HALF_CLOSED_LOCAL" \/ (s.state = "CLOSED" /\ ~s.closedWithRst) => Over(x)
      /\ s.resetSent => s.state = "CLOSED"

\* The state machine of y knows of the end or the reset of x, or L, which it has
\* not received, tells it.
Told(x, y, L) ==
  LET s == x.stream p == y.stream
  IN  /\ Over(x) => p.state \in {"HALF_CLOSED_REMOTE", "CLOSED"} \/ Some(L, Ended)
      /\ s.resetSent => p.state = "CLOSED" \/ Some(L, Resets)
      /\ Some(L, Resets) => s.resetSent
      /\ s.closedWithRst => s.resetSent \/ p.state = "CLOSED"

\* As long as neither user got an exception, the ends agree.
Agreed(x, y) ==
  ~x.stream.thrown /\ ~y.stream.thrown =>
    Own(x) /\ Own(y) /\ Told(x, y, Ahead(x, y)) /\ Told(y, x, Ahead(y, x))

Toward(x, y) == Way(x, y) /\ CreditIs(x.stream, y.stream, y.channel, x.channel)
Pair(x, y) == x \in Sides /\ y \in Sides /\ Toward(x, y) /\ Toward(y, x) /\ Agreed(x, y)

\* What a turn, in which x hears or says an end or a reset and becomes z, makes of
\* the state machine.
Moves(x, z, endHeard, resetHeard, endSaid, resetSaid) ==
  LET s == x.stream t == z.stream
  IN  ~t.thrown =>
        /\ ~s.thrown
        /\ Own(x) =>
             /\ Own(z)
             /\ Over(z) => Over(x) \/ endSaid
             /\ t.resetSent <=> s.resetSent \/ resetSaid
             /\ t.closedWithRst => s.closedWithRst \/ t.resetSent \/ resetHeard
             /\ s.state = "CLOSED" \/ resetHeard => t.state = "CLOSED"
             /\ s.state = "HALF_CLOSED_REMOTE" \/ endHeard =>
                  t.state \in {"HALF_CLOSED_REMOTE", "CLOSED"}

\* What an end of a dialogue consists of.
LEMMA SideTypes ==
  ASSUME NEW x \in Sides
  PROVE  /\ x.stream \in Streams /\ x.channel \in Seq(Frames) /\ x.said \in BOOLEAN
         /\ x.wrote \in Nat /\ x.got \in Nat /\ x.user \in UserStates
         /\ Content(x.stream.upstream) \in Seq(Frames)
         /\ Open(x) \in BOOLEAN /\ Over(x) \in BOOLEAN
<1>1. /\ x.stream \in Streams /\ x.channel \in Seq(Frames) /\ x.said \in BOOLEAN
      /\ x.wrote \in Nat /\ x.got \in Nat /\ x.user \in UserStates
  BY DEF Sides
<1>2. Content(x.stream.upstream) \in Seq(Frames)
  BY <1>1, StreamTypes
<1>. QED
  BY <1>1, <1>2 DEF Open, Over

\* The accounts of an end are numbers.
LEMMA CreditTypes ==
  ASSUME NEW x \in Sides
  PROVE  /\ Given(x.stream) \in Int /\ Held(x.stream) \in Int
         /\ Increments(x.channel) \in Int /\ Len(Bytes(x.channel)) \in Int
BY SideTypes, StreamNumbers, IncrementsType, BytesType, LenProperties

\* The ends agree after such a turn: M is what y has then not received, N what z
\* has not.
LEMMA AgreementMoves ==
  ASSUME NEW x, NEW y, Agreed(x, y), NEW z, NEW M, NEW N,
         NEW endHeard, NEW resetHeard, NEW endSaid, NEW resetSaid,
         Moves(x, z, endHeard, resetHeard, endSaid, resetSaid),
         Ahead(z, y) = M, Ahead(y, z) = N,
         Some(Ahead(x, y), Ended) \/ endSaid => Some(M, Ended),
         Some(M, Resets) <=> Some(Ahead(x, y), Resets) \/ resetSaid,
         Some(Ahead(y, x), Ended) => Some(N, Ended) \/ endHeard,
         Some(Ahead(y, x), Resets) <=> Some(N, Resets) \/ resetHeard
  PROVE  Agreed(z, y)
<1>. DEFINE K == Ahead(x, y)
            L == Ahead(y, x)
<1>. SUFFICES ASSUME ~z.stream.thrown, ~y.stream.thrown
              PROVE  Own(z) /\ Own(y) /\ Told(z, y, M) /\ Told(y, z, N)
  BY DEF Agreed
<1>1. Own(x) /\ Own(y) /\ Told(x, y, K) /\ Told(y, x, L)
  BY DEF Agreed, Moves
<1>2. Own(z)
  BY <1>1 DEF Moves
<1>. HIDE DEF K, L
<1>3. Told(z, y, M)
  BY <1>1 DEF Moves, Told, Own, K, L
<1>4. Told(y, z, N)
  BY <1>1 DEF Moves, Told, K, L
<1>. QED
  BY <1>1, <1>2, <1>3, <1>4

\* A list that is heard leaves the channel.
LEMMA ChannelCut ==
  ASSUME NEW X \in Seq(Frames), NEW c \in Seq(Frames)
  PROVE  /\ Increments(X \o c) = Increments(X) + Increments(c)
         /\ Len(Bytes(X \o c)) = Len(Bytes(X)) + Len(Bytes(c))
<1>1. Bytes(X) \in Seq(Octet) /\ Bytes(c) \in Seq(Octet)
  BY BytesType
<1>2. Len(Bytes(X) \o Bytes(c)) = Len(Bytes(X)) + Len(Bytes(c))
  BY <1>1, ConcatProperties
<1>3. Bytes(X \o c) = Bytes(X) \o Bytes(c) /\ Increments(X \o c) = Increments(X) + Increments(c)
  BY BytesJoin, IncrementsJoin
<1>. QED
  BY <1>2, <1>3, Zenon

Balanced(a, b, c, d) == a + b + c + d = 0

\* What leaves one part of an account and enters another leaves the sum alone.
LEMMA Moved ==
  ASSUME NEW a \in Int, NEW b \in Int, NEW c \in Int, NEW d \in Int, NEW k \in Int
  PROVE  /\ Balanced(a, b, c, k + d) => Balanced(a + k, b, c, d)
         /\ Balanced(a, k + b, c, d) => Balanced(a, b, c + k, d)
         /\ Balanced(a + k, b, c, d) => Balanced(a, b + k, c, d)
         /\ Balanced(a, b, c + k, d) => Balanced(a, b, c, d + k)
BY DEF Balanced

\* A turn keeps both accounts: what is heard leaves the channel.
LEMMA CreditTurns ==
  ASSUME NEW x \in Sides, NEW y \in Sides, NEW z \in Sides,
         CreditIs(x.stream, y.stream, y.channel, x.channel),
         CreditIs(y.stream, x.stream, x.channel, y.channel),
         NEW X \in Seq(Frames),
         Increments(x.channel) = Increments(X) + Increments(z.channel),
         Len(Bytes(x.channel)) = Len(Bytes(X)) + Len(Bytes(z.channel)),
         Given(z.stream) = Given(x.stream) + Increments(X),
         Held(z.stream) = Held(x.stream) + Len(Bytes(X))
  PROVE  /\ CreditIs(z.stream, y.stream, y.channel, z.channel)
         /\ CreditIs(y.stream, z.stream, z.channel, y.channel)
<1>2. Increments(X) \in Int /\ Len(Bytes(X)) \in Int
  BY IncrementsType, BytesType, LenProperties
<1>3. /\ Given(x.stream) \in Int /\ Held(x.stream) \in Int
      /\ Given(y.stream) \in Int /\ Held(y.stream) \in Int
      /\ Given(z.stream) \in Int /\ Held(z.stream) \in Int
      /\ Increments(y.channel) \in Int /\ Len(Bytes(y.channel)) \in Int
      /\ Increments(z.channel) \in Int /\ Len(Bytes(z.channel)) \in Int
  BY CreditTypes
<1>4. /\ Balanced(Given(x.stream), Len(Bytes(y.channel)), Held(y.stream),
                  Increments(X) + Increments(z.channel))
      /\ Balanced(Given(y.stream), Len(Bytes(X)) + Len(Bytes(z.channel)), Held(x.stream),
                  Increments(y.channel))
  BY Zenon DEF CreditIs, Balanced
<1>5. Balanced(Given(x.stream) + Increments(X), Len(Bytes(y.channel)), Held(y.stream),
               Increments(z.channel))
  BY <1>2, <1>3, <1>4, Moved
<1>6. Balanced(Given(y.stream), Len(Bytes(z.channel)), Held(x.stream) + Len(Bytes(X)),
               Increments(y.channel))
  BY <1>2, <1>3, <1>4, Moved
<1>. QED
  BY <1>5, <1>6, Zenon DEF CreditIs, Balanced

\* A turn of x, which becomes z.
LEMMA PairTurns ==
  ASSUME NEW x, NEW y, Pair(x, y), NEW z \in Sides, NEW X, NEW Y,
         Turns(x.stream, z.stream, X, Y), x.channel = X \o z.channel, z.got = x.got,
         MaySay(y.stream, Y, Open(x), Over(x), x.said, Open(z), Over(z), z.said),
         x.wrote <= z.wrote, Interval(y.got, x.wrote) \o Bytes(Y) = Interval(y.got, z.wrote),
         HearsIn(x.stream, z.stream, X, Over(y), y.said, z.said),
         Moves(x, z, Some(X, Ended), Some(X, Resets), Some(Y, Ended), Some(Y, Resets))
  PROVE  Pair(z, y)
<1>. DEFINE s == x.stream
            t == z.stream
            p == y.stream
            A == Ahead(x, y)
<1>1. /\ x \in Sides /\ y \in Sides /\ Way(x, y) /\ Way(y, x)
      /\ CreditIs(s, p, y.channel, x.channel) /\ CreditIs(p, s, x.channel, y.channel)
  BY DEF Pair, Toward
<1>2. /\ s \in Streams /\ t \in Streams /\ X \in Seq(Frames) /\ Y \in Seq(Frames)
      /\ Heard(s, t, X) /\ Alike(Content(t.upstream), Content(s.upstream) \o Y)
      /\ Given(t) = Given(s) + Increments(X) /\ Held(t) = Held(s) + Len(Bytes(X))
  BY DEF Turns
<1>3. /\ y.channel \in Seq(Frames) /\ z.channel \in Seq(Frames)
      /\ Content(s.upstream) \in Seq(Frames) /\ Content(p.upstream) \in Seq(Frames)
      /\ x.said \in BOOLEAN /\ y.said \in BOOLEAN /\ z.said \in BOOLEAN
      /\ z.wrote \in Nat
  BY <1>1, SideTypes
<1>4. Way(z, y)
  <2>1. WayIs(p, A, Open(x), Over(x), x.said, y.said, x.wrote, y.got)
    BY <1>1 DEF Way
  <2>2. WayIs(p, A \o Y, Open(z), Over(z), z.said, y.said, z.wrote, y.got)
    BY <1>3, <2>1, WaySays, ZenonT(60)
  <2>3. Regroups(y.channel, Content(s.upstream), Y)
    BY <1>2, <1>3, ListsRegroup
  <2>4. A \o Y = y.channel \o (Content(s.upstream) \o Y)
    BY <2>3 DEF Regroups, Ahead
  <2>5. Alike(y.channel \o Content(t.upstream), y.channel \o (Content(s.upstream) \o Y))
    BY <1>2, <1>3, AlikeSelf, AlikeJoin
  <2>6. Alike(Ahead(z, y), A \o Y)
    BY <2>4, <2>5, Zenon DEF Ahead
  <2>. HIDE DEF A
  <2>. QED
    BY <2>2, <2>6, WayAlike DEF Way
<1>5. Way(y, z)
  <2>1. WayIs(s, Ahead(y, x), Open(y), Over(y), y.said, x.said, y.wrote, x.got)
    BY <1>1 DEF Way
  <2>2. Regroups(X, z.channel, Content(p.upstream))
    BY <1>2, <1>3, ListsRegroup
  <2>3. Ahead(y, x) = X \o Ahead(y, z)
    BY <2>2, Zenon DEF Regroups, Ahead
  <2>4. Ahead(y, z) \in Seq(Frames)
    BY <1>3, JoinList DEF Ahead
  <2>5. WayIs(s, X \o Ahead(y, z), Open(y), Over(y), y.said, x.said, y.wrote, x.got)
    BY <2>1, <2>3, Zenon
  <2>6. x.said => z.said
    BY DEF MaySay
  <2>7. WayIs(t, Ahead(y, z), Open(y), Over(y), y.said, z.said, y.wrote, x.got)
    BY <1>2, <1>3, <2>4, <2>5, <2>6, WayHears, SMTT(40)
  <2>. QED
    BY <2>7 DEF Way
<1>6. /\ CreditIs(t, p, y.channel, z.channel) /\ CreditIs(p, t, z.channel, y.channel)
  <2>1. /\ Increments(x.channel) = Increments(X) + Increments(z.channel)
        /\ Len(Bytes(x.channel)) = Len(Bytes(X)) + Len(Bytes(z.channel))
    BY <1>2, <1>3, ChannelCut, Zenon
  <2>. QED
    BY <1>1, <1>2, <2>1, CreditTurns, Zenon
<1>7. Agreed(z, y)
  <2>. DEFINE M == Ahead(z, y)
              K == Ahead(y, x)
              N == Ahead(y, z)
  <2>1. A \in Seq(Frames) /\ N \in Seq(Frames)
    BY <1>3, JoinList DEF Ahead
  <2>2. Alike(M, A \o Y)
    <3>1. Alike(y.channel \o Content(t.upstream), y.channel \o (Content(s.upstream) \o Y))
      BY <1>2, <1>3, AlikeSelf, AlikeJoin
    <3>2. Regroups(y.channel, Content(s.upstream), Y)
      BY <1>2, <1>3, ListsRegroup
    <3>. QED
      BY <3>1, <3>2, Zenon DEF Ahead, Regroups
  <2>3. K = X \o N
    <3>1. Regroups(X, z.channel, Content(p.upstream))
      BY <1>2, <1>3, ListsRegroup
    <3>. QED
      BY <3>1, Zenon DEF Regroups, Ahead
  <2>4. Agreed(x, y) /\ M = Ahead(z, y) /\ A = Ahead(x, y) /\ K = Ahead(y, x) /\ N = Ahead(y, z)
    BY DEF Pair
  <2>. HIDE DEF A, M, K, N
  <2>5. \A S : Some(A \o Y, S) <=> Some(A, S) \/ Some(Y, S)
    BY <1>2, <2>1, SomeJoin
  <2>6. \A S : Some(K, S) <=> Some(X, S) \/ Some(N, S)
    BY <1>2, <2>1, <2>3, SomeJoin
  <2>7. /\ Some(M, Ended) <=> Some(A, Ended) \/ Some(Y, Ended)
        /\ Some(M, Resets) <=> Some(A, Resets) \/ Some(Y, Resets)
    BY <2>2, <2>5 DEF Alike
  <2>. QED
    BY <2>4, <2>6, <2>7, AgreementMoves
<1>. QED
  BY <1>1, <1>4, <1>5, <1>6, <1>7 DEF Pair, Toward

\* A turn without hearing or saying.
LEMMA NothingSaid ==
  ASSUME NEW p, NEW open \in BOOLEAN, NEW over \in BOOLEAN, NEW spoke \in BOOLEAN,
         NEW open2 \in BOOLEAN, NEW over2 \in BOOLEAN,
         open2 => open, over => over2
  PROVE  MaySay(p, <<>>, open, over, spoke, open2, over2, spoke)
BY EmptyList DEF MaySay

\* No bytes are added to an interval.
LEMMA IntervalRests ==
  ASSUME NEW m \in Nat, NEW n \in Nat
  PROVE  Interval(m, n) \in Seq(Octet) /\ Interval(m, n) \o Bytes(<<>>) = Interval(m, n)
<1>1. Interval(m, n) \in Seq(Octet)
  <2>1. ASSUME NEW i \in 1 .. (n - m) PROVE m + i \in Octet
    BY DEF Octet
  <2>2. CASE m <= n
    BY <2>1, <2>2 DEF Interval
  <2>3. CASE ~(m <= n)
    <3>1. 1 .. (n - m) = 1 .. 0
      BY <2>3
    <3>2. Interval(m, n) = [i \in 1 .. 0 |-> m + i]
      BY <3>1, Zenon DEF Interval
    <3>. QED
      BY <2>1, <3>1, <3>2
  <2>. QED
    BY <2>2, <2>3
<1>. HIDE DEF Interval
<1>2. Interval(m, n) \o <<>> = Interval(m, n)
  BY <1>1, ConcatEmptySeq
<1>. QED
  BY <1>1, <1>2, EmptyList, Zenon

\* The empty list has no mark.
LEMMA NoMarks == \A S : Some(<<>>, S) = FALSE
BY EmptyList DEF Some

\* A list of one frame has the marks of the frame.
LEMMA FrameMarks ==
  ASSUME NEW y \in Frames
  PROVE  Some(<<y>>, Ended) = y.end /\ Some(<<y>>, Resets) = (y.type = "RST_STREAM")
<1>1. /\ Some(<<y>>, Ended) <=> y \in Ended
      /\ Some(<<y>>, Resets) <=> y \in Resets
  BY OneFrame
<1>2. y.end \in BOOLEAN
  BY DEF Frames
<1>3. (y \in Ended <=> y.end) /\ (y \in Resets <=> y.type = "RST_STREAM")
  BY DEF Ended, Resets
<1>. QED
  BY <1>1, <1>2, <1>3 DEF Some

\* A stream answers with nothing or with one RST_STREAM frame.
LEMMA AnswerMarks ==
  ASSUME NEW Y \in Answers
  PROVE  Some(Y, Ended) = FALSE /\ Some(Y, Resets) = (Y # <<>>)
<1>1. CASE Y = <<>>
  <2>1. Some(<<>>, Ended) = FALSE /\ Some(<<>>, Resets) = FALSE
    BY NoMarks
  <2>. QED
    BY <1>1, <2>1, Zenon
<1>2. CASE Y # <<>>
  <2>. DEFINE y == F("RST_STREAM")
  <2>1. Y = <<y>> /\ y \in Frames /\ y.type = "RST_STREAM" /\ y.end = FALSE
    BY <1>2, PlainFrame DEF Answers, FrameTypes, F
  <2>. HIDE DEF y
  <2>2. Some(<<y>>, Ended) = FALSE /\ Some(<<y>>, Resets) = TRUE
    <3>1. Some(<<y>>, Ended) = y.end /\ Some(<<y>>, Resets) = (y.type = "RST_STREAM")
      BY <2>1, FrameMarks
    <3>. QED
      BY <2>1, <3>1
  <2>. QED
    BY <1>2, <2>1, <2>2, Zenon
<1>. QED
  BY <1>1, <1>2

\* The state machine rests.
LEMMA StateRests ==
  ASSUME NEW x, NEW z, SameState(x.stream, z.stream), Over(z) = Over(x)
  PROVE  Moves(x, z, FALSE, FALSE, FALSE, FALSE)
BY DEF Moves, SameState, Own

\* The user of x does what does not reach the stream, or the stream rests.
LEMMA PairRests ==
  ASSUME NEW x, NEW y, Pair(x, y), NEW z \in Sides,
         Turns(x.stream, z.stream, <<>>, <<>>), SameState(x.stream, z.stream),
         z.channel = x.channel, z.got = x.got, z.said = x.said, z.wrote = x.wrote,
         z.user = x.user \/ (x.user = "open" /\ z.user = "ending")
  PROVE  Pair(z, y)
<1>1. x \in Sides /\ y \in Sides
  BY DEF Pair
<1>2. /\ Open(x) \in BOOLEAN /\ Over(x) \in BOOLEAN /\ Open(z) \in BOOLEAN /\ Over(z) \in BOOLEAN
      /\ x.said \in BOOLEAN /\ x.channel \in Seq(Frames) /\ x.wrote \in Nat /\ y.got \in Nat
  BY <1>1, SideTypes
<1>3. (Open(z) => Open(x)) /\ (Over(x) => Over(z))
  BY DEF Open, Over, SameState
<1>4. MaySay(y.stream, <<>>, Open(x), Over(x), x.said, Open(z), Over(z), z.said)
  BY <1>2, <1>3, NothingSaid
<1>5. HearsIn(x.stream, z.stream, <<>>, Over(y), y.said, z.said)
  BY EmptyList DEF HearsIn, SameState, Done
<1>6. x.channel = <<>> \o z.channel
  BY <1>2, JoinEmpty
<1>7. Interval(y.got, x.wrote) \o Bytes(<<>>) = Interval(y.got, z.wrote)
  BY <1>2, IntervalRests
<1>8. x.wrote <= z.wrote
  BY <1>2
<1>9. Moves(x, z, Some(<<>>, Ended), Some(<<>>, Resets), Some(<<>>, Ended), Some(<<>>, Resets))
  <2>1. Over(z) = Over(x)
    BY DEF Over
  <2>2. Some(<<>>, Ended) = FALSE /\ Some(<<>>, Resets) = FALSE
    BY NoMarks
  <2>3. Moves(x, z, FALSE, FALSE, FALSE, FALSE)
    BY <2>1, StateRests
  <2>. QED
    BY <2>2, <2>3, Zenon
<1>. QED
  BY <1>4, <1>5, <1>6, <1>7, <1>8, <1>9, PairTurns

\* The user of x says Y and the state machine moves.
LEMMA PairSays ==
  ASSUME NEW x, NEW y, Pair(x, y), NEW z \in Sides, NEW Y,
         Turns(x.stream, z.stream, <<>>, Y),
         MaySay(y.stream, Y, Open(x), Over(x), x.said, Open(z), Over(z), z.said),
         Done(z.stream) => Done(x.stream),
         x.stream.closedWithRst => z.stream.closedWithRst,
         z.stream.state = "IDLE" => x.stream.state = "IDLE", z.said,
         z.channel = x.channel, z.got = x.got,
         x.wrote <= z.wrote, Interval(y.got, x.wrote) \o Bytes(Y) = Interval(y.got, z.wrote),
         Moves(x, z, FALSE, FALSE, Some(Y, Ended), Some(Y, Resets))
  PROVE  Pair(z, y)
<1>1. x.channel \in Seq(Frames)
  BY SideTypes DEF Pair
<1>2. x.channel = <<>> \o z.channel
  BY <1>1, JoinEmpty
<1>3. HearsIn(x.stream, z.stream, <<>>, Over(y), y.said, z.said)
  BY EmptyList DEF HearsIn
<1>4. Some(<<>>, Ended) = FALSE /\ Some(<<>>, Resets) = FALSE
  BY NoMarks
<1>5. Moves(x, z, Some(<<>>, Ended), Some(<<>>, Resets), Some(Y, Ended), Some(Y, Resets))
  BY <1>4, Zenon
<1>. QED
  BY <1>2, <1>3, <1>5, PairTurns

\* The user of x ends with a mark on the last frame that waits.
LEMMA PairMarks ==
  ASSUME NEW x, NEW y, Pair(x, y), NEW z \in Sides,
         EndMarked(x.stream, z.stream), SaysState(x.stream, z.stream), z.user = "ended",
         x.said, z.said,
         z.channel = x.channel, z.got = x.got, z.wrote = x.wrote,
         Moves(x, z, FALSE, FALSE, TRUE, FALSE)
  PROVE  Pair(z, y)
<1>. DEFINE s == x.stream
            t == z.stream
            p == y.stream
            A == Ahead(x, y)
<1>1. /\ x \in Sides /\ y \in Sides /\ Way(x, y) /\ Way(y, x)
      /\ CreditIs(s, p, y.channel, x.channel) /\ CreditIs(p, s, x.channel, y.channel)
  BY DEF Pair, Toward
<1>2. PICK M : /\ Marked(Content(s.upstream), M) /\ Alike(Content(t.upstream), M)
  BY DEF EndMarked
<1>3. /\ y.channel \in Seq(Frames) /\ x.channel \in Seq(Frames)
      /\ x.said \in BOOLEAN /\ y.said \in BOOLEAN /\ z.said \in BOOLEAN
      /\ Content(p.upstream) \in Seq(Frames)
  BY <1>1, SideTypes
<1>4. Way(z, y)
  <2>1. WayIs(p, A, Open(x), Over(x), x.said, y.said, x.wrote, y.got)
    BY <1>1 DEF Way
  <2>2. Marked(A, y.channel \o M)
    BY <1>2, <1>3, MarkedJoin DEF Ahead
  <2>3. Alike(Ahead(z, y), y.channel \o M)
    BY <1>2, <1>3, AlikeSelf, AlikeJoin DEF Ahead
  <2>. HIDE DEF A
  <2>4. WayIs(p, y.channel \o M, FALSE, TRUE, x.said, y.said, x.wrote, y.got)
    BY <2>1, <2>2, WayMarked, ZenonT(60)
  <2>5. WayIs(p, Ahead(z, y), FALSE, TRUE, x.said, y.said, x.wrote, y.got)
    BY <2>3, <2>4, WayAlike
  <2>6. Open(z) = FALSE /\ Over(z) = TRUE /\ z.said = x.said
    BY <1>3 DEF Open, Over
  <2>. QED
    BY <2>5, <2>6 DEF Way
<1>5. Way(y, z)
  <2>1. WayIs(s, Ahead(y, x), Open(y), Over(y), y.said, x.said, y.wrote, x.got)
    BY <1>1 DEF Way
  <2>2. Ahead(y, z) = Ahead(y, x) /\ Ahead(y, z) \in Seq(Frames)
    BY <1>3, JoinList DEF Ahead
  <2>4. WayIs(s, Ahead(y, z), Open(y), Over(y), y.said, x.said, y.wrote, x.got)
    BY <2>1, <2>2, Zenon
  <2>5. HearsIn(s, t, <<>>, Over(y), y.said, z.said)
    BY EmptyList DEF HearsIn, SaysState
  <2>6. t \in Streams /\ Heard(s, t, <<>>)
    BY DEF EndMarked
  <2>. DEFINE B == Ahead(y, z)
              o == Open(y)
              v == Over(y)
              k == x.said
              l == z.said
  <2>7. l \in BOOLEAN /\ (k => l)
    BY <1>3
  <2>8. /\ WayIs(s, B, o, v, y.said, k, y.wrote, x.got) /\ HearsIn(s, t, <<>>, v, y.said, l)
        /\ t \in Streams /\ Heard(s, t, <<>>)
    BY <2>4, <2>5, <2>6
  <2>. HIDE DEF B, o, v, k, l, s, t
  <2>9. WayIs(t, B, o, v, y.said, l, y.wrote, x.got)
    BY <2>7, <2>8, WayHearsNothing
  <2>. QED
    BY <2>9 DEF Way, B, o, v, k, l, s, t
<1>6. CreditIs(t, p, y.channel, z.channel) /\ CreditIs(p, t, z.channel, y.channel)
  BY <1>1 DEF EndMarked, CreditIs
<1>7. Agreed(z, y)
  <2>. DEFINE B == y.channel \o M
              K == Ahead(z, y)
              N == Ahead(y, z)
  <2>1. Marked(A, B) /\ Alike(K, B)
    BY <1>2, <1>3, MarkedJoin, AlikeSelf, AlikeJoin DEF Ahead
  <2>2. Agreed(x, y) /\ N = Ahead(y, x) /\ N = Ahead(y, z) /\ K = Ahead(z, y) /\ A = Ahead(x, y)
    BY DEF Pair, Ahead
  <2>. HIDE DEF A, B, K, N
  <2>3. Some(K, Ended) /\ (Some(K, Resets) <=> Some(A, Resets))
    BY <2>1 DEF Alike, Marked
  <2>. QED
    BY <2>2, <2>3, AgreementMoves
<1>. QED
  BY <1>1, <1>4, <1>5, <1>6, <1>7 DEF Pair, Toward

\* The user of x reads.
LEMMA PairReads ==
  ASSUME NEW x, NEW y, Pair(x, y), NEW z \in Sides,
         NEW r \in Streams, r = x.stream, NEW t \in Streams, t = z.stream,
         SameState(r, t), t.user = <<>>, t.input = r.input, t.ended = r.ended,
         t.upstream = r.upstream, t.busy = r.busy,
         z.channel = x.channel, z.said = x.said, z.wrote = x.wrote, z.user = x.user,
         z.got = x.got + Len(r.user)
  PROVE  Pair(z, y)
<1>1. /\ x \in Sides /\ y \in Sides /\ Way(x, y) /\ Way(y, x)
      /\ CreditIs(r, y.stream, y.channel, x.channel) /\ CreditIs(y.stream, r, x.channel, y.channel)
  BY DEF Pair, Toward
<1>2. Ahead(z, y) = Ahead(x, y) /\ Open(z) = Open(x) /\ Over(z) = Over(x)
  BY DEF Ahead, Open, Over, SameState
<1>3. Way(z, y)
  BY <1>1, <1>2 DEF Way
<1>4. Way(y, z)
  <2>1. WayIs(r, Ahead(y, x), Open(y), Over(y), y.said, x.said, y.wrote, x.got)
    BY <1>1 DEF Way
  <2>2. Ahead(y, z) = Ahead(y, x)
    BY DEF Ahead
  <2>3. WayIs(t, Ahead(y, x), Open(y), Over(y), y.said, x.said, y.wrote, x.got + Len(r.user))
    BY <2>1, WayReads
  <2>. QED
    BY <2>2, <2>3 DEF Way
<1>5. CreditIs(t, y.stream, y.channel, z.channel) /\ CreditIs(y.stream, t, z.channel, y.channel)
  <2>1. Given(t) = Given(r) /\ Held(t) = Held(r)
    BY Zenon DEF Given, Held
  <2>. QED
    BY <1>1, <2>1 DEF CreditIs
<1>6. Agreed(z, y)
  <2>1. Agreed(x, y) /\ Ahead(z, y) = Ahead(x, y) /\ Ahead(y, z) = Ahead(y, x)
    BY <1>2 DEF Pair, Ahead
  <2>2. Moves(x, z, FALSE, FALSE, FALSE, FALSE)
    BY <1>2, StateRests
  <2>. QED
    BY <2>1, <2>2, AgreementMoves
<1>. QED
  BY <1>1, <1>3, <1>4, <1>5, <1>6 DEF Pair, Toward

\* The connection of x sends f to y.
LEMMA PairForwards ==
  ASSUME NEW x, NEW y, Pair(x, y), NEW z \in Sides, NEW w \in Sides, NEW f,
         Forwarded(x.stream, z.stream, f), SameState(x.stream, z.stream),
         z.channel = x.channel, z.said = x.said, z.wrote = x.wrote, z.user = x.user,
         z.got = x.got,
         w.channel = Append(y.channel, f), w.stream = y.stream, w.said = y.said,
         w.wrote = y.wrote, w.user = y.user, w.got = y.got
  PROVE  Pair(z, w)
<1>. DEFINE s == x.stream
            t == z.stream
            p == y.stream
            a == y.channel
            b == x.channel
<1>1. /\ x \in Sides /\ y \in Sides /\ Way(x, y) /\ Way(y, x)
      /\ CreditIs(s, p, a, b) /\ CreditIs(p, s, b, a)
  BY DEF Pair, Toward
<1>2. /\ s \in Streams /\ t \in Streams /\ f \in Frames /\ Heard(s, t, <<>>)
      /\ Alike(<<f>> \o Content(t.upstream), Content(s.upstream))
      /\ Given(t) + Len(f.data) = Given(s) /\ Held(t) + f.inc = Held(s)
  BY DEF Forwarded
<1>3. /\ a \in Seq(Frames) /\ b \in Seq(Frames)
      /\ Content(s.upstream) \in Seq(Frames) /\ Content(t.upstream) \in Seq(Frames)
      /\ Content(p.upstream) \in Seq(Frames) /\ x.said \in BOOLEAN /\ y.said \in BOOLEAN
  BY <1>1, SideTypes
<1>4. /\ <<f>> \in Seq(Frames) /\ Bytes(<<f>>) = f.data /\ Increments(<<f>>) = f.inc
      /\ w.channel = a \o <<f>>
  BY <1>2, <1>3, OneFrame, AppendJoin
<1>5. Way(z, w)
  <2>1. WayIs(p, a \o Content(s.upstream), Open(x), Over(x), x.said, y.said, x.wrote, y.got)
    BY <1>1 DEF Way, Ahead
  <2>2. Alike(a \o (<<f>> \o Content(t.upstream)), a \o Content(s.upstream))
    BY <1>2, <1>3, AlikeSelf, AlikeJoin
  <2>3. Regroups(a, <<f>>, Content(t.upstream))
    BY <1>3, <1>4, ListsRegroup
  <2>4. Ahead(z, w) = a \o (<<f>> \o Content(t.upstream))
    BY <1>4, <2>3, Zenon DEF Ahead, Regroups
  <2>5. Alike(Ahead(z, w), a \o Content(s.upstream))
    BY <2>2, <2>4, Zenon
  <2>6. WayIs(p, Ahead(z, w), Open(x), Over(x), x.said, y.said, x.wrote, y.got)
    BY <2>1, <2>5, WayAlike
  <2>7. Open(z) = Open(x) /\ Over(z) = Over(x)
    BY DEF Open, Over, SameState
  <2>. QED
    BY <2>6, <2>7 DEF Way
<1>6. Way(w, z)
  <2>. DEFINE B == Ahead(w, z)
  <2>1. WayIs(s, Ahead(y, x), Open(y), Over(y), y.said, x.said, y.wrote, x.got)
    BY <1>1 DEF Way
  <2>2. B = Ahead(y, x) /\ B \in Seq(Frames)
    BY <1>3, JoinList DEF Ahead
  <2>. HIDE DEF B
  <2>4. WayIs(s, B, Open(y), Over(y), y.said, x.said, y.wrote, x.got)
    BY <2>1, <2>2, Zenon
  <2>5. HearsIn(s, t, <<>>, Over(y), y.said, x.said)
    BY EmptyList DEF HearsIn, SameState, Done
  <2>6. WayIs(t, B, Open(y), Over(y), y.said, x.said, y.wrote, x.got)
    BY <1>2, <1>3, <2>4, <2>5, WayHearsNothing
  <2>7. Open(w) = Open(y) /\ Over(w) = Over(y)
    BY DEF Open, Over
  <2>. QED
    BY <2>6, <2>7 DEF Way, B
<1>7. /\ Increments(w.channel) = Increments(a) + f.inc
      /\ Len(Bytes(w.channel)) = Len(Bytes(a)) + Len(f.data)
  BY <1>3, <1>4, ChannelCut, ZenonT(60)
<1>8. /\ Given(s) \in Int /\ Held(s) \in Int /\ Given(t) \in Int /\ Held(t) \in Int
      /\ Given(p) \in Int /\ Held(p) \in Int
      /\ Increments(a) \in Int /\ Len(Bytes(a)) \in Int
      /\ Increments(b) \in Int /\ Len(Bytes(b)) \in Int
  BY <1>1, CreditTypes
<1>9. f.inc \in Int /\ Len(f.data) \in Int
  BY <1>2, LenProperties DEF Frames
<1>10. CreditIs(t, p, w.channel, b) /\ CreditIs(p, t, b, w.channel)
  <2>1. /\ Balanced(Given(t) + Len(f.data), Len(Bytes(a)), Held(p), Increments(b))
        /\ Balanced(Given(p), Len(Bytes(b)), Held(t) + f.inc, Increments(a))
    BY <1>1, <1>2, Zenon DEF CreditIs, Balanced
  <2>2. Balanced(Given(t), Len(Bytes(a)) + Len(f.data), Held(p), Increments(b))
    BY <1>8, <1>9, <2>1, Moved
  <2>3. Balanced(Given(p), Len(Bytes(b)), Held(t), Increments(a) + f.inc)
    BY <1>8, <1>9, <2>1, Moved
  <2>. QED
    BY <1>7, <2>2, <2>3, Zenon DEF CreditIs, Balanced
<1>11. Agreed(z, w)
  <2>. DEFINE A == Ahead(x, y)
              M == Ahead(z, w)
  <2>1. Alike(M, A)
    <3>1. Alike(a \o (<<f>> \o Content(t.upstream)), a \o Content(s.upstream))
      BY <1>2, <1>3, AlikeSelf, AlikeJoin
    <3>2. Regroups(a, <<f>>, Content(t.upstream))
      BY <1>3, <1>4, ListsRegroup
    <3>. QED
      BY <1>4, <3>1, <3>2, Zenon DEF Ahead, Regroups
  <2>2. Moves(x, z, FALSE, FALSE, FALSE, FALSE)
    <3>1. Over(z) = Over(x)
      BY DEF Over
    <3>. QED
      BY <3>1, StateRests
  <2>3. Agreed(x, y)
    BY DEF Pair
  <2>4. /\ Ahead(w, z) = Ahead(y, x) /\ w.stream = y.stream
        /\ Own(w) <=> Own(y)
        /\ \A v : Told(v, w, M) <=> Told(v, y, M)
        /\ Told(w, z, Ahead(y, x)) <=> Told(y, z, Ahead(y, x))
    BY DEF Ahead, Own, Told, Over
  <2>5. /\ Some(M, Ended) <=> Some(A, Ended)
        /\ Some(M, Resets) <=> Some(A, Resets)
    BY <2>1 DEF Alike
  <2>6. \/ Told(z, y, M) /\ Own(z) /\ Own(y) /\ Told(y, z, Ahead(y, x))
        \/ z.stream.thrown
        \/ y.stream.thrown
    <3>. SUFFICES ASSUME ~z.stream.thrown, ~y.stream.thrown
                  PROVE  Told(z, y, M) /\ Own(z) /\ Own(y) /\ Told(y, z, Ahead(y, x))
      OBVIOUS
    <3>1. Own(x) /\ Own(y) /\ Told(x, y, A) /\ Told(y, x, Ahead(y, x))
      BY <2>3 DEF Agreed, SameState
    <3>. HIDE DEF M, A
    <3>. QED
      BY <2>5, <3>1 DEF Own, Told, SameState, Over
  <2>. QED
    BY <2>4, <2>6 DEF Agreed
<1>. QED
  BY <1>5, <1>6, <1>10, <1>11 DEF Pair, Toward

-----------------------------------------------------------------------------
(* The steps of the dialogue.                                              *)

Made(s, c, u, b, n, m) ==
  [stream |-> s, channel |-> c, user |-> u, said |-> b, wrote |-> n, got |-> m]

Side(e) == Made(stream[e], channel[e], user[e], said[e], wrote[e], got[e])

Typed ==
  /\ stream \in [Ends -> Streams] /\ channel \in [Ends -> Seq(Frames)]
  /\ user \in [Ends -> UserStates] /\ said \in [Ends -> BOOLEAN]
  /\ wrote \in [Ends -> Nat] /\ got \in [Ends -> Nat]

\* The two ways of the dialogue are in order, and no credit is lost.
WaysInv == Typed /\ Pair(Side("A"), Side("B"))

\* The two ends are each other's peers.
LEMMA PeerEnds ==
  ASSUME NEW e \in Ends
  PROVE  /\ Peer(e) \in Ends /\ Peer(e) # e /\ Peer(Peer(e)) = e /\ Ends = {e, Peer(e)}
         /\ (e = "A" /\ Peer(e) = "B") \/ (e = "B" /\ Peer(e) = "A")
<1>1. Peer("A") = "B" /\ Peer("B") = "A" /\ "A" # "B" /\ Ends = {"A", "B"}
  BY DEF Ends, Peer
<1>2. CASE e = "A"
  <2>1. Peer(e) = "B" /\ Peer(Peer(e)) = e
    BY <1>1, <1>2, Zenon
  <2>2. Peer(e) \in Ends /\ Peer(e) # e
    BY <1>1, <1>2, <2>1, Zenon
  <2>3. Ends = {e, Peer(e)}
    <3>. DEFINE p == Peer(e)
    <3>1. p = "B"
      BY <2>1
    <3>. HIDE DEF p
    <3>2. Ends = {e, p}
      BY <1>1, <1>2, <3>1
    <3>. QED
      BY <3>2 DEF p
  <2>. QED
    BY <1>2, <2>1, <2>2, <2>3
<1>3. CASE e = "B"
  <2>1. Peer(e) = "A" /\ Peer(Peer(e)) = e
    BY <1>1, <1>3, Zenon
  <2>2. Peer(e) \in Ends /\ Peer(e) # e
    BY <1>1, <1>3, <2>1, Zenon
  <2>3. Ends = {e, Peer(e)}
    <3>. DEFINE p == Peer(e)
    <3>1. p = "A"
      BY <2>1
    <3>. HIDE DEF p
    <3>2. Ends = {e, p}
      BY <1>1, <1>3, <3>1
    <3>. QED
      BY <3>2 DEF p
  <2>. QED
    BY <1>3, <2>1, <2>2, <2>3
<1>. QED
  BY <1>1, <1>2, <1>3

\* An end, made of its parts.
LEMMA SideMade ==
  ASSUME NEW s \in Streams, NEW c \in Seq(Frames), NEW u \in UserStates, NEW b \in BOOLEAN,
         NEW n \in Nat, NEW m \in Nat
  PROVE  LET z == Made(s, c, u, b, n, m)
         IN  /\ z \in Sides /\ z.stream = s /\ z.channel = c /\ z.user = u
             /\ z.said = b /\ z.wrote = n /\ z.got = m
<1>. HIDE DEF Streams, Frames, UserStates
<1>. QED
  BY SMTT(30) DEF Made, Sides

\* The variables of an end.
LEMMA TypedEnd ==
  ASSUME Typed, NEW e \in Ends
  PROVE  /\ stream[e] \in Streams /\ channel[e] \in Seq(Frames) /\ user[e] \in UserStates
         /\ said[e] \in BOOLEAN /\ wrote[e] \in Nat /\ got[e] \in Nat
         /\ Side(e) \in Sides /\ Side(e).stream = stream[e] /\ Side(e).channel = channel[e]
         /\ Side(e).user = user[e] /\ Side(e).said = said[e] /\ Side(e).wrote = wrote[e]
         /\ Side(e).got = got[e]
<1>1. /\ stream[e] \in Streams /\ channel[e] \in Seq(Frames) /\ user[e] \in UserStates
      /\ said[e] \in BOOLEAN /\ wrote[e] \in Nat /\ got[e] \in Nat
  BY DEF Typed
<1>. QED
  BY <1>1, SideMade DEF Side

\* A pair is a pair from both sides.
LEMMA PairTurned ==
  ASSUME NEW x, NEW y, Pair(x, y) PROVE Pair(y, x)
BY Zenon DEF Pair, Agreed

\* Each end makes a pair with its peer.
LEMMA PairOfEnds ==
  ASSUME WaysInv, NEW e \in Ends
  PROVE  Pair(Side(e), Side(Peer(e)))
<1>1. Pair(Side("A"), Side("B")) /\ Pair(Side("B"), Side("A"))
  BY PairTurned DEF WaysInv
<1>. QED
  BY <1>1, PeerEnds

\* A variable that stays keeps its value at e.
LEMMA Stays ==
  ASSUME NEW S, NEW f \in [Ends -> S], NEW e \in Ends
  PROVE  f = [f EXCEPT ![e] = f[e]]
OBVIOUS

\* A step of e that makes its side z and leaves that of its peer alone.
EndStep(e, z) ==
  /\ stream' = [stream EXCEPT ![e] = z.stream]
  /\ channel' = [channel EXCEPT ![e] = z.channel]
  /\ user' = [user EXCEPT ![e] = z.user]
  /\ said' = [said EXCEPT ![e] = z.said]
  /\ wrote' = [wrote EXCEPT ![e] = z.wrote]
  /\ got' = [got EXCEPT ![e] = z.got]

\* A step of one end that leaves a pair keeps the invariant.
LEMMA EndStepKeeps ==
  ASSUME WaysInv, NEW e \in Ends, NEW z \in Sides, EndStep(e, z), Pair(z, Side(Peer(e)))
  PROVE  WaysInv'
<1>. DEFINE p == Peer(e)
<1>0. Typed /\ p \in Ends /\ p # e /\ ((e = "A" /\ p = "B") \/ (e = "B" /\ p = "A"))
  BY PeerEnds DEF WaysInv
<1>1. /\ z.stream \in Streams /\ z.channel \in Seq(Frames) /\ z.said \in BOOLEAN
      /\ z.wrote \in Nat /\ z.got \in Nat /\ z.user \in UserStates
      /\ z = Made(z.stream, z.channel, z.user, z.said, z.wrote, z.got)
  BY DEF Sides, Made
<1>2. Typed'
  BY <1>0, <1>1 DEF Typed, EndStep
<1>3. /\ stream'[e] = z.stream /\ channel'[e] = z.channel /\ user'[e] = z.user
      /\ said'[e] = z.said /\ wrote'[e] = z.wrote /\ got'[e] = z.got
  BY <1>0 DEF Typed, EndStep
<1>4. /\ stream'[p] = stream[p] /\ channel'[p] = channel[p] /\ user'[p] = user[p]
      /\ said'[p] = said[p] /\ wrote'[p] = wrote[p] /\ got'[p] = got[p]
  BY <1>0 DEF Typed, EndStep
<1>. HIDE DEF p
<1>5. Made(stream'[e], channel'[e], user'[e], said'[e], wrote'[e], got'[e]) = z
  BY <1>1, <1>3, Zenon
<1>6. Made(stream'[p], channel'[p], user'[p], said'[p], wrote'[p], got'[p]) = Side(p)
  BY <1>4, Zenon DEF Side
<1>7. Pair(z, Side(p)) /\ Pair(Side(p), z)
  BY PairTurned DEF p
<1>8. CASE e = "A" /\ p = "B"
  <2>1. Pair(Side("A"), Side("B"))'
    BY <1>5, <1>6, <1>7, <1>8, Zenon DEF Side
  <2>. QED
    BY <1>2, <2>1 DEF WaysInv
<1>9. CASE e = "B" /\ p = "A"
  <2>1. Pair(Side("A"), Side("B"))'
    BY <1>5, <1>6, <1>7, <1>9, Zenon DEF Side
  <2>. QED
    BY <1>2, <2>1 DEF WaysInv
<1>. QED
  BY <1>0, <1>8, <1>9

\* A turn of the event loop in which the stream of e becomes t.
LEMMA TurnOfEnd ==
  ASSUME Typed, NEW e \in Ends, NEW s, Becomes(e, s), EndTurn(s) \in Streams,
         NEW u \in UserStates, user' = [user EXCEPT ![e] = u],
         NEW b \in BOOLEAN, said' = [said EXCEPT ![e] = b],
         NEW n \in Nat, wrote' = [wrote EXCEPT ![e] = n],
         NEW m \in Nat, got' = [got EXCEPT ![e] = m],
         NEW c \in Seq(Frames), channel' = [channel EXCEPT ![e] = c]
  PROVE  EndStep(e, Made(EndTurn(s), c, u, b, n, m))
<1>. DEFINE z == Made(EndTurn(s), c, u, b, n, m)
<1>1. /\ z.stream = EndTurn(s) /\ z.channel = c /\ z.user = u
      /\ z.said = b /\ z.wrote = n /\ z.got = m
  BY SideMade
<1>2. stream' = [stream EXCEPT ![e] = EndTurn(s)]
  BY DEF Becomes
<1>. HIDE DEF z
<1>3. EndStep(e, z)
  BY <1>1, <1>2 DEF EndStep
<1>. QED
  BY <1>3 DEF z

\* The variables that stay.
LEMMA StaysAll ==
  ASSUME Typed, NEW e \in Ends
  PROVE  /\ stream = [stream EXCEPT ![e] = stream[e]]
         /\ channel = [channel EXCEPT ![e] = channel[e]]
         /\ user = [user EXCEPT ![e] = user[e]]
         /\ said = [said EXCEPT ![e] = said[e]]
         /\ wrote = [wrote EXCEPT ![e] = wrote[e]]
         /\ got = [got EXCEPT ![e] = got[e]]
BY Stays DEF Typed

\* The frames that may be said.
MayAdd(p, y, open, over, spoke, open2, over2, spoke2) ==
  /\ y \in Frames
  /\ open \in BOOLEAN /\ over \in BOOLEAN /\ spoke \in BOOLEAN
  /\ open2 \in BOOLEAN /\ over2 \in BOOLEAN /\ spoke2 \in BOOLEAN
  /\ open2 => open
  /\ over => over2
  /\ spoke => spoke2
  /\ y.data # <<>> => open
  /\ y \in Ending => ~open2
  /\ y \in Ended => over2
  /\ y \in Ending /\ y \notin Opening => spoke \/ p.state # "IDLE"
  /\ y \in Opening => spoke2
  /\ spoke2 => spoke \/ y \in Opening

\* A list of one frame that may be said may be said.
LEMMA FrameSaid ==
  ASSUME NEW p, NEW y, NEW open, NEW over, NEW spoke, NEW open2, NEW over2, NEW spoke2,
         MayAdd(p, y, open, over, spoke, open2, over2, spoke2)
  PROVE  MaySay(p, <<y>>, open, over, spoke, open2, over2, spoke2)
BY OneFrame DEF MayAdd, MaySay

\* What a user writes is a piece of the interval.
LEMMA IntervalPiece ==
  ASSUME NEW n \in Nat, NEW k \in Nat
  PROVE  Interval(n, n + k) = [i \in 1 .. k |-> n + i] /\ Interval(n, n + k) \in Seq(Octet)
<1>1. 1 .. ((n + k) - n) = 1 .. k /\ n + k \in Nat
  OBVIOUS
<1>2. Interval(n, n + k) = [i \in 1 .. ((n + k) - n) |-> n + i]
  BY DEF Interval
<1>3. Interval(n, n + k) = [i \in 1 .. k |-> n + i]
  BY <1>1, <1>2, Zenon
<1>4. Interval(n, n + k) \in Seq(Octet)
  BY <1>1, IntervalRests
<1>. QED
  BY <1>3, <1>4

\* Two intervals that touch.
LEMMA IntervalJoin ==
  ASSUME NEW m \in Nat, NEW n \in Nat, NEW k \in Nat, m <= n
  PROVE  Interval(m, n) \o Interval(n, n + k) = Interval(m, n + k)
<1>1. Interval(n, n + k) = [i \in 1 .. k |-> n + i]
  BY IntervalPiece
<1>. DEFINE I == Interval(m, n)
            J == Interval(n, n + k)
            K == Interval(m, n + k)
<1>2. I \in Seq(Octet) /\ J \in Seq(Octet) /\ K \in Seq(Octet)
  <2>1. n + k \in Nat
    OBVIOUS
  <2>. QED
    BY <2>1, IntervalRests
<1>3. /\ Len(I) = n - m /\ Len(J) = k /\ Len(K) = (n - m) + k
      /\ \A i \in 1 .. (n - m) : I[i] = m + i
      /\ \A i \in 1 .. k : J[i] = n + i
      /\ \A i \in 1 .. ((n - m) + k) : K[i] = m + i
  <2>1. (n + k) - m = (n - m) + k /\ (n + k) - n = k
    OBVIOUS
  <2>2. Len(I) = n - m /\ \A i \in 1 .. (n - m) : I[i] = m + i
    BY DEF Interval
  <2>3. Len(J) = k /\ \A i \in 1 .. k : J[i] = n + i
    BY <1>1
  <2>4. Len(K) = (n + k) - m /\ \A i \in 1 .. ((n + k) - m) : K[i] = m + i
    <3>1. (n + k) - m \in Nat
      OBVIOUS
    <3>. QED
      BY <3>1 DEF Interval
  <2>. QED
    BY <2>1, <2>2, <2>3, <2>4
<1>. HIDE DEF I, J, K
<1>4. Len(I \o J) = Len(K)
  <2>1. Len(I \o J) = Len(I) + Len(J)
    BY <1>2, ConcatProperties
  <2>. QED
    BY <1>3, <2>1
<1>5. ASSUME NEW i \in 1 .. Len(K) PROVE (I \o J)[i] = K[i]
  <2>1. i \in Nat /\ i >= 1 /\ i <= (n - m) + k /\ K[i] = m + i
    BY <1>3
  <2>2. CASE i <= n - m
    <3>1. i \in 1 .. Len(I) /\ I[i] = m + i
      BY <1>3, <2>1, <2>2
    <3>2. (I \o J)[i] = I[i]
      BY <1>2, <3>1, ConcatProperties
    <3>. QED
      BY <2>1, <3>1, <3>2
  <2>3. CASE ~(i <= n - m)
    <3>. DEFINE j == i - (n - m)
    <3>1. j \in 1 .. k /\ n + j = m + i
      BY <2>1, <2>3
    <3>2. i \in (Len(I) + 1) .. (Len(I) + Len(J)) /\ i - Len(I) = j
      BY <1>3, <2>1, <2>3
    <3>3. (I \o J)[i] = J[i - Len(I)]
      BY <1>2, <3>2, ConcatProperties
    <3>4. J[j] = n + j
      BY <1>3, <3>1
    <3>. QED
      BY <2>1, <3>1, <3>2, <3>3, <3>4
  <2>. QED
    BY <2>2, <2>3
<1>6. I \o J \in Seq(Octet)
  BY <1>2, ConcatProperties
<1>7. I \o J = K
  BY <1>2, <1>4, <1>5, <1>6, SeqEqual
<1>. QED
  BY <1>7 DEF I, J, K

-----------------------------------------------------------------------------
(* The actions.                                                            *)

\* What the control of the dialogue tells of an end.
LEMMA DialogueFacts ==
  ASSUME DialogueInv, NEW e \in Ends
  PROVE  /\ stream[e].closedWithRst => stream[e].state = "CLOSED"
         /\ ~said[e] => user[e] = "open"
         /\ said[e] => stream[e].state # "IDLE"
BY DEF DialogueInv, EndInv, IsStream

\* A stream that stays as it is neither hears nor says anything.
LEMMA SameSound ==
  ASSUME NEW s \in Streams
  PROVE  Turns(s, s, <<>>, <<>>) /\ SameState(s, s)
BY SameDataTurns DEF SameData, SameState

\* The bytes of a pair: what is read is never more than what is written.
LEMMA PairBytes ==
  ASSUME NEW x, NEW y, Pair(x, y)
  PROVE  /\ x \in Sides /\ y \in Sides /\ y.got \in Nat /\ x.wrote \in Nat /\ y.got <= x.wrote
         /\ Open(x) \in BOOLEAN /\ Over(x) \in BOOLEAN /\ x.said \in BOOLEAN
         /\ Interval(y.got, x.wrote) \o <<>> = Interval(y.got, x.wrote)
<1>1. x \in Sides /\ y \in Sides /\ Way(x, y)
  BY DEF Pair, Toward
<1>2. /\ y.got \in Nat /\ x.wrote \in Nat
      /\ Open(x) \in BOOLEAN /\ Over(x) \in BOOLEAN /\ x.said \in BOOLEAN
  BY <1>1, SideTypes
<1>3. y.got <= x.wrote
  BY <1>1 DEF Way, WayIs, Body
<1>4. Interval(y.got, x.wrote) \o <<>> = Interval(y.got, x.wrote)
  BY <1>2, IntervalRests, EmptyList, Zenon
<1>. QED
  BY <1>1, <1>2, <1>3, <1>4

\* What the user says moves the state machine as the frame tells its peer.
LEMMA SpokenMoves ==
  ASSUME NEW x, NEW z, NEW type, NEW end, UserSays(type, end),
         Spoken(x.stream, z.stream, type, end),
         x.stream.closedWithRst => x.stream.state = "CLOSED",
         z.stream.resetSent <=> x.stream.resetSent \/ type = "RST_STREAM",
         Over(z) <=> Over(x) \/ end
  PROVE  Moves(x, z, FALSE, FALSE, end, type = "RST_STREAM")
<1>. SUFFICES ASSUME ~z.stream.thrown
              PROVE  Moves(x, z, FALSE, FALSE, end, type = "RST_STREAM")
  BY DEF Moves
<1>1. CASE type = "RST_STREAM"
  BY <1>1 DEF Moves, Spoken, Own, UserSays
<1>2. CASE type # "RST_STREAM" /\ ~end
  BY <1>2 DEF Moves, Spoken, Own, UserSays
<1>3. CASE type # "RST_STREAM" /\ end
  BY <1>3 DEF Moves, Spoken, Own, UserSays
<1>. QED
  BY <1>1, <1>2, <1>3

\* The same, for the frame that is said.
LEMMA FrameMoves ==
  ASSUME NEW x, NEW z, NEW type, NEW end, UserSays(type, end),
         Spoken(x.stream, z.stream, type, end),
         x.stream.closedWithRst => x.stream.state = "CLOSED",
         z.stream.resetSent <=> x.stream.resetSent \/ type = "RST_STREAM",
         Over(z) <=> Over(x) \/ end,
         NEW y \in Frames, y.type = type, y.end = end
  PROVE  Moves(x, z, FALSE, FALSE, Some(<<y>>, Ended), Some(<<y>>, Resets))
<1>1. Moves(x, z, FALSE, FALSE, end, type = "RST_STREAM")
  BY SpokenMoves
<1>2. Some(<<y>>, Ended) = end /\ Some(<<y>>, Resets) = (type = "RST_STREAM")
  BY FrameMarks
<1>. QED
  BY <1>1, <1>2, Zenon

\* The first headers of a user.
LEMMA SendHeadersKeeps ==
  ASSUME DialogueInv, WaysInv, NEW e \in Ends, SendHeaders(e)
  PROVE  WaysInv'
<1>. DEFINE x == Side(e)
            q == Side(Peer(e))
            t == EndTurn(Headers(stream[e]))
            b == TRUE
            z == Made(t, channel[e], user[e], b, wrote[e], got[e])
<1>1. /\ x \in Sides /\ x.stream = stream[e] /\ x.channel = channel[e] /\ x.user = user[e]
      /\ x.said = said[e] /\ x.wrote = wrote[e] /\ x.got = got[e]
      /\ stream[e] \in Streams /\ channel[e] \in Seq(Frames) /\ user[e] \in UserStates
      /\ said[e] \in BOOLEAN /\ wrote[e] \in Nat /\ got[e] \in Nat
  BY TypedEnd DEF WaysInv
<1>2. /\ SaysState(stream[e], t) /\ t.user = stream[e].user
      /\ Spoken(stream[e], t, "HEADERS", FALSE)
      /\ \E y \in Opening : Turns(stream[e], t, <<>>, <<y>>) /\ y.data = <<>> /\ ~y.end
  BY <1>1, DialogueFacts, HeadersTurns
<1>3. Becomes(e, Headers(stream[e])) /\ said' = [said EXCEPT ![e] = b]
      /\ UNCHANGED <<channel, wrote, got, user>> 
  BY DEF SendHeaders
<1>0. b \in BOOLEAN /\ b = TRUE
  OBVIOUS
<1>. HIDE DEF t, b
<1>4. PICK y \in Opening : Turns(stream[e], t, <<>>, <<y>>) /\ y.data = <<>> /\ ~y.end
  BY <1>2
<1>5. t \in Streams
  BY <1>4 DEF Turns
<1>6. /\ z \in Sides /\ z.stream = t /\ z.channel = channel[e] /\ z.user = user[e]
      /\ z.said = b /\ z.wrote = wrote[e] /\ z.got = got[e]
  <2>1. b \in BOOLEAN
    BY <1>0
  <2>. QED
    BY <1>1, <1>5, <2>1, SideMade
<1>7. EndStep(e, z)
  BY <1>0, <1>1, <1>3, <1>5, StaysAll, TurnOfEnd DEF WaysInv, t
<1>. HIDE DEF z, x, q
<1>8. Pair(x, q)
  BY PairOfEnds DEF x, q
<1>9. /\ Open(x) \in BOOLEAN /\ Over(x) \in BOOLEAN /\ x.said \in BOOLEAN
      /\ Open(z) \in BOOLEAN /\ Over(z) = Over(x) /\ (Open(z) => Open(x))
      /\ Over(z) \in BOOLEAN /\ z.said = TRUE
  BY <1>0, <1>1, <1>2, <1>3, <1>6, SideTypes DEF Open, Over, SaysState
<1>10. MaySay(q.stream, <<y>>, Open(x), Over(x), x.said, Open(z), Over(z), z.said)
  <2>1. y \in Frames /\ y \notin Ending /\ y \notin Ended /\ y \notin Resets
    BY <1>4 DEF Opening, Ending, Ended, Resets
  <2>2. MayAdd(q.stream, y, Open(x), Over(x), x.said, Open(z), Over(z), z.said)
    BY <1>4, <1>9, <2>1 DEF MayAdd
  <2>. QED
    BY <2>2, FrameSaid
<1>11. x.wrote <= z.wrote /\ Interval(q.got, x.wrote) \o Bytes(<<y>>) = Interval(q.got, z.wrote)
  <2>1. Bytes(<<y>>) = <<>> /\ z.wrote = x.wrote
    BY <1>1, <1>4, <1>6, OneFrame DEF Opening
  <2>2. Interval(q.got, x.wrote) \o <<>> = Interval(q.got, x.wrote) /\ x.wrote \in Nat
    BY <1>8, PairBytes
  <2>3. Interval(q.got, x.wrote) \o Bytes(<<y>>) = Interval(q.got, z.wrote)
    BY <2>1, <2>2, Zenon
  <2>4. x.wrote <= z.wrote
    BY <2>1, <2>2
  <2>. QED
    BY <2>3, <2>4
<1>12. Moves(x, z, FALSE, FALSE, Some(<<y>>, Ended), Some(<<y>>, Resets))
  <2>1. /\ UserSays("HEADERS", FALSE) /\ Spoken(x.stream, z.stream, "HEADERS", FALSE)
        /\ x.stream.closedWithRst => x.stream.state = "CLOSED"
        /\ z.stream.resetSent = x.stream.resetSent
    BY <1>1, <1>2, <1>6, DialogueFacts DEF UserSays, SaysState
  <2>2. y \in Frames /\ y.type = "HEADERS" /\ y.end = FALSE
    BY <1>4 DEF Opening, Frames
  <2>. QED
    BY <1>9, <2>1, <2>2, FrameMoves
<1>13. Pair(z, q)
  BY <1>1, <1>2, <1>4, <1>6, <1>8, <1>9, <1>10, <1>11, <1>12, PairSays, ZenonT(60) DEF SaysState
<1>. QED
  BY <1>6, <1>7, <1>13, EndStepKeeps DEF q

\* A chunk of the user is next in the body.
LEMMA WriteChunkKeeps ==
  ASSUME DialogueInv, WaysInv, NEW e \in Ends, NEW k \in Nat, WriteChunk(e, k)
  PROVE  WaysInv'
<1>. DEFINE x == Side(e)
            q == Side(Peer(e))
            d == [i \in 1 .. k |-> wrote[e] + i]
            t == EndTurn(Write(stream[e], d))
            n == wrote[e] + k
            z == Made(t, channel[e], user[e], said[e], n, got[e])
<1>1. /\ x \in Sides /\ x.stream = stream[e] /\ x.channel = channel[e] /\ x.user = user[e]
      /\ x.said = said[e] /\ x.wrote = wrote[e] /\ x.got = got[e]
      /\ stream[e] \in Streams /\ channel[e] \in Seq(Frames) /\ user[e] \in UserStates
      /\ said[e] \in BOOLEAN /\ wrote[e] \in Nat /\ got[e] \in Nat
  BY TypedEnd DEF WaysInv
<1>2. d = Interval(wrote[e], n) /\ d \in Seq(Octet)
  BY <1>1, IntervalPiece
<1>3. /\ Becomes(e, Write(stream[e], d)) /\ wrote' = [wrote EXCEPT ![e] = n]
      /\ UNCHANGED <<channel, said, got, user>>
      /\ said[e] /\ user[e] = "open" /\ ~stream[e].resetSent
  BY <1>1 DEF WriteChunk, Typed, WaysInv
<1>. HIDE DEF d
<1>4. /\ SaysState(stream[e], t) /\ Spoken(stream[e], t, "DATA", FALSE)
      /\ \E y \in Frames :
           Turns(stream[e], t, <<>>, <<y>>) /\ y.data = d /\ ~y.end /\ y.type = "DATA"
  BY <1>1, <1>2, DialogueFacts, WriteTurns
<1>. HIDE DEF t
<1>5. PICK y \in Frames :
        Turns(stream[e], t, <<>>, <<y>>) /\ y.data = d /\ ~y.end /\ y.type = "DATA"
  BY <1>4
<1>6. t \in Streams /\ n \in Nat
  BY <1>1, <1>5 DEF Turns
<1>7. /\ z \in Sides /\ z.stream = t /\ z.channel = channel[e] /\ z.user = user[e]
      /\ z.said = said[e] /\ z.wrote = n /\ z.got = got[e]
  <2>. HIDE DEF n
  <2>. QED
    BY <1>1, <1>6, SideMade
<1>8. EndStep(e, z)
  <2>. HIDE DEF n
  <2>. QED
    BY <1>1, <1>3, <1>6, StaysAll, TurnOfEnd DEF WaysInv, t
<1>. HIDE DEF z, x, q
<1>9. Pair(x, q)
  BY PairOfEnds DEF x, q
<1>10. /\ Open(x) = TRUE /\ Over(x) = FALSE /\ x.said = TRUE
       /\ Open(z) = TRUE /\ Over(z) = FALSE /\ z.said = TRUE
  BY <1>1, <1>3, <1>4, <1>7 DEF Open, Over, SaysState
<1>11. MaySay(q.stream, <<y>>, Open(x), Over(x), x.said, Open(z), Over(z), z.said)
  <2>1. y \notin Ending /\ y \notin Ended /\ y \notin Resets /\ y \notin Opening
    BY <1>5 DEF Opening, Ending, Ended, Resets
  <2>2. MayAdd(q.stream, y, Open(x), Over(x), x.said, Open(z), Over(z), z.said)
    BY <1>10, <2>1 DEF MayAdd
  <2>. QED
    BY <2>2, FrameSaid
<1>12. x.wrote <= z.wrote /\ Interval(q.got, x.wrote) \o Bytes(<<y>>) = Interval(q.got, z.wrote)
  <2>1. Bytes(<<y>>) = d /\ d = Interval(x.wrote, x.wrote + k) /\ z.wrote = x.wrote + k
    BY <1>1, <1>2, <1>5, <1>7, OneFrame
  <2>2. q.got \in Nat /\ x.wrote \in Nat /\ q.got <= x.wrote
    BY <1>9, PairBytes
  <2>3. Interval(q.got, x.wrote) \o Interval(x.wrote, x.wrote + k) = Interval(q.got, x.wrote + k)
    BY <2>2, IntervalJoin
  <2>4. Interval(q.got, x.wrote) \o Bytes(<<y>>) = Interval(q.got, z.wrote)
    BY <2>1, <2>3, Zenon
  <2>5. x.wrote <= z.wrote
    <3>1. z.wrote = x.wrote + k /\ x.wrote \in Nat
      BY <2>1, <2>2
    <3>. QED
      BY <3>1
  <2>. QED
    BY <2>4, <2>5
<1>13. Moves(x, z, FALSE, FALSE, Some(<<y>>, Ended), Some(<<y>>, Resets))
  <2>1. /\ UserSays("DATA", FALSE) /\ Spoken(x.stream, z.stream, "DATA", FALSE)
        /\ x.stream.closedWithRst => x.stream.state = "CLOSED"
        /\ z.stream.resetSent = x.stream.resetSent
        /\ y.type = "DATA" /\ y.end = FALSE
    BY <1>1, <1>4, <1>5, <1>7, DialogueFacts, ZenonT(60) DEF UserSays, SaysState, Frames
  <2>. QED
    BY <1>10, <2>1, FrameMoves
<1>14. Pair(z, q)
  BY <1>1, <1>3, <1>4, <1>5, <1>7, <1>9, <1>11, <1>12, <1>13, PairSays, ZenonT(60) DEF SaysState
<1>. QED
  BY <1>7, <1>8, <1>14, EndStepKeeps DEF q

\* end() alone moves nothing.
LEMMA EndKeeps ==
  ASSUME DialogueInv, WaysInv, NEW e \in Ends, End(e)
  PROVE  WaysInv'
<1>. DEFINE x == Side(e)
            q == Side(Peer(e))
            u == "ending"
            z == Made(stream[e], channel[e], u, said[e], wrote[e], got[e])
<1>1. /\ x \in Sides /\ x.stream = stream[e] /\ x.channel = channel[e] /\ x.user = user[e]
      /\ x.said = said[e] /\ x.wrote = wrote[e] /\ x.got = got[e]
      /\ stream[e] \in Streams /\ channel[e] \in Seq(Frames) /\ user[e] \in UserStates
      /\ said[e] \in BOOLEAN /\ wrote[e] \in Nat /\ got[e] \in Nat
  BY TypedEnd DEF WaysInv
<1>2. user[e] = "open" /\ user' = [user EXCEPT ![e] = u] /\ u = "ending" /\ u \in UserStates
      /\ UNCHANGED <<stream, channel, said, wrote, got>>
  BY DEF End, UserStates
<1>. HIDE DEF u
<1>3. /\ z \in Sides /\ z.stream = stream[e] /\ z.channel = channel[e] /\ z.user = u
      /\ z.said = said[e] /\ z.wrote = wrote[e] /\ z.got = got[e]
  BY <1>1, <1>2, SideMade
<1>. HIDE DEF z, x, q
<1>4. EndStep(e, z)
  BY <1>2, <1>3, StaysAll DEF EndStep, WaysInv
<1>5. Pair(x, q)
  BY PairOfEnds DEF x, q
<1>6. Turns(x.stream, z.stream, <<>>, <<>>) /\ SameState(x.stream, z.stream)
  BY <1>1, <1>3, SameSound
<1>7. Pair(z, q)
  BY <1>1, <1>2, <1>3, <1>5, <1>6, PairRests
<1>. QED
  BY <1>3, <1>4, <1>7, EndStepKeeps DEF q

\* The end follows all bytes that the user wrote.
LEMMA FinishKeeps ==
  ASSUME DialogueInv, WaysInv, NEW e \in Ends, Finish(e)
  PROVE  WaysInv'
<1>. DEFINE x == Side(e)
            q == Side(Peer(e))
            u == "ended"
            t == EndTurn(Finishing(stream[e]))
            z == Made(t, channel[e], u, said[e], wrote[e], got[e])
<1>1. /\ x \in Sides /\ x.stream = stream[e] /\ x.channel = channel[e] /\ x.user = user[e]
      /\ x.said = said[e] /\ x.wrote = wrote[e] /\ x.got = got[e]
      /\ stream[e] \in Streams /\ channel[e] \in Seq(Frames) /\ user[e] \in UserStates
      /\ said[e] \in BOOLEAN /\ wrote[e] \in Nat /\ got[e] \in Nat
  BY TypedEnd DEF WaysInv
<1>2. /\ user[e] = "ending" /\ user' = [user EXCEPT ![e] = u] /\ u = "ended" /\ u \in UserStates
      /\ Becomes(e, Finishing(stream[e])) /\ UNCHANGED <<channel, said, wrote, got>>
  BY DEF Finish, UserStates
<1>3. said[e] = TRUE
  BY <1>1, <1>2, DialogueFacts
<1>. HIDE DEF u
<1>4. /\ SaysState(stream[e], t) /\ Spoken(stream[e], t, "DATA", TRUE)
      /\ \/ EndMarked(stream[e], t)
         \/ \E y \in Ended : /\ Turns(stream[e], t, <<>>, <<y>>)
                            /\ y.data = <<>> /\ y.type = "DATA"
  BY <1>1, DialogueFacts, FinishTurns
<1>. HIDE DEF t
<1>5. t \in Streams
  BY <1>4 DEF Turns, EndMarked
<1>6. /\ z \in Sides /\ z.stream = t /\ z.channel = channel[e] /\ z.user = u
      /\ z.said = said[e] /\ z.wrote = wrote[e] /\ z.got = got[e]
  BY <1>1, <1>2, <1>5, SideMade
<1>7. EndStep(e, z)
  BY <1>1, <1>2, <1>5, StaysAll, TurnOfEnd DEF WaysInv, t
<1>. HIDE DEF z, x, q
<1>8. Pair(x, q)
  BY PairOfEnds DEF x, q
<1>9. /\ UserSays("DATA", TRUE) /\ Spoken(x.stream, z.stream, "DATA", TRUE)
      /\ x.stream.closedWithRst => x.stream.state = "CLOSED"
      /\ z.stream.resetSent = x.stream.resetSent /\ Over(z)
  BY <1>1, <1>2, <1>4, <1>6, DialogueFacts DEF UserSays, SaysState, Over
<1>10. CASE EndMarked(stream[e], t)
  <2>0. Moves(x, z, FALSE, FALSE, TRUE, FALSE)
    <3>1. Moves(x, z, FALSE, FALSE, TRUE, "DATA" = "RST_STREAM")
      BY <1>9, SpokenMoves
    <3>2. ("DATA" = "RST_STREAM") = FALSE
      OBVIOUS
    <3>. QED
      BY <3>1, <3>2, Zenon
  <2>1. EndMarked(x.stream, z.stream) /\ SaysState(x.stream, z.stream)
    BY <1>1, <1>4, <1>6, <1>10
  <2>2. /\ x.said /\ z.said /\ z.user = "ended"
        /\ z.channel = x.channel /\ z.got = x.got /\ z.wrote = x.wrote
    BY <1>1, <1>2, <1>3, <1>6
  <2>3. Pair(z, q)
    BY <1>6, <1>8, <2>0, <2>1, <2>2, PairMarks
  <2>. QED
    BY <1>6, <1>7, <2>3, EndStepKeeps DEF q
<1>11. ASSUME NEW y \in Ended, Turns(stream[e], t, <<>>, <<y>>), y.data = <<>>, y.type = "DATA"
       PROVE  WaysInv'
  <2>1. /\ Open(x) \in BOOLEAN /\ Over(x) = FALSE /\ x.said = TRUE
        /\ Open(z) = FALSE /\ Over(z) = TRUE /\ z.said = TRUE
    BY <1>1, <1>2, <1>3, <1>6, SideTypes DEF Open, Over
  <2>2. MaySay(q.stream, <<y>>, Open(x), Over(x), x.said, Open(z), Over(z), z.said)
    <3>1. y \in Frames /\ y \in Ending /\ y \notin Opening
      BY <1>11 DEF Opening, Ending, Ended, Resets
    <3>2. MayAdd(q.stream, y, Open(x), Over(x), x.said, Open(z), Over(z), z.said)
      BY <1>11, <2>1, <3>1 DEF MayAdd
    <3>. QED
      BY <3>2, FrameSaid
  <2>3. x.wrote <= z.wrote /\ Interval(q.got, x.wrote) \o Bytes(<<y>>) = Interval(q.got, z.wrote)
    <3>1. Bytes(<<y>>) = <<>> /\ z.wrote = x.wrote
      BY <1>1, <1>6, <1>11, OneFrame DEF Ended
    <3>2. Interval(q.got, x.wrote) \o <<>> = Interval(q.got, x.wrote) /\ x.wrote \in Nat
      BY <1>8, PairBytes
    <3>3. Interval(q.got, x.wrote) \o Bytes(<<y>>) = Interval(q.got, z.wrote)
      BY <3>1, <3>2, Zenon
    <3>4. x.wrote <= z.wrote
      BY <3>1, <3>2
    <3>. QED
      BY <3>3, <3>4
  <2>4. Moves(x, z, FALSE, FALSE, Some(<<y>>, Ended), Some(<<y>>, Resets))
    <3>1. y \in Frames /\ y.end = TRUE
      BY DEF Ended, Frames
    <3>. QED
      BY <1>11, <1>9, <3>1, FrameMoves
  <2>5. Pair(z, q)
    BY <1>1, <1>4, <1>6, <1>8, <1>11, <2>1, <2>2, <2>3, <2>4, PairSays, ZenonT(60) DEF SaysState
  <2>. QED
    BY <1>6, <1>7, <2>5, EndStepKeeps DEF q
<1>. QED
  BY <1>4, <1>10, <1>11

\* The user resets a stream that has been opened.
LEMMA ResetKeeps ==
  ASSUME DialogueInv, WaysInv, NEW e \in Ends, ResetStream(e)
  PROVE  WaysInv'
<1>. DEFINE x == Side(e)
            q == Side(Peer(e))
            t == EndTurn(Reset(stream[e]))
            z == Made(t, channel[e], user[e], said[e], wrote[e], got[e])
<1>1. /\ x \in Sides /\ x.stream = stream[e] /\ x.channel = channel[e] /\ x.user = user[e]
      /\ x.said = said[e] /\ x.wrote = wrote[e] /\ x.got = got[e]
      /\ stream[e] \in Streams /\ channel[e] \in Seq(Frames) /\ user[e] \in UserStates
      /\ said[e] \in BOOLEAN /\ wrote[e] \in Nat /\ got[e] \in Nat
  BY TypedEnd DEF WaysInv
<1>2. /\ Becomes(e, Reset(stream[e])) /\ UNCHANGED <<channel, said, wrote, got, user>>
      /\ said[e] = TRUE /\ ~stream[e].resetSent
  BY <1>1 DEF ResetStream
<1>3. /\ t.resetSent /\ (Done(t) => Done(stream[e])) /\ Spoken(stream[e], t, "RST_STREAM", FALSE)
      /\ (stream[e].closedWithRst => t.closedWithRst)
      /\ (t.state = "IDLE" => stream[e].state = "IDLE")
      /\ \E y \in Resets : Turns(stream[e], t, <<>>, <<y>>) /\ y.data = <<>> /\ ~y.end
  BY <1>1, <1>2, DialogueFacts, ResetTurns
<1>. HIDE DEF t
<1>4. PICK y \in Resets : Turns(stream[e], t, <<>>, <<y>>) /\ y.data = <<>> /\ ~y.end
  BY <1>3
<1>5. t \in Streams
  BY <1>4 DEF Turns
<1>6. /\ z \in Sides /\ z.stream = t /\ z.channel = channel[e] /\ z.user = user[e]
      /\ z.said = said[e] /\ z.wrote = wrote[e] /\ z.got = got[e]
  BY <1>1, <1>5, SideMade
<1>7. EndStep(e, z)
  BY <1>1, <1>2, <1>5, StaysAll, TurnOfEnd DEF WaysInv, t
<1>. HIDE DEF z, x, q
<1>8. Pair(x, q)
  BY PairOfEnds DEF x, q
<1>9. /\ Open(x) \in BOOLEAN /\ Over(x) \in BOOLEAN /\ x.said = TRUE
      /\ Open(z) = FALSE /\ Over(z) = Over(x) /\ z.said = TRUE
  BY <1>1, <1>2, <1>3, <1>6, SideTypes DEF Open, Over
<1>10. MaySay(q.stream, <<y>>, Open(x), Over(x), x.said, Open(z), Over(z), z.said)
  <2>1. y \in Frames /\ y \notin Ended /\ y \notin Opening
    BY <1>4 DEF Opening, Ended, Resets
  <2>2. MayAdd(q.stream, y, Open(x), Over(x), x.said, Open(z), Over(z), z.said)
    BY <1>4, <1>9, <2>1 DEF MayAdd
  <2>. QED
    BY <2>2, FrameSaid
<1>11. x.wrote <= z.wrote /\ Interval(q.got, x.wrote) \o Bytes(<<y>>) = Interval(q.got, z.wrote)
  <2>1. Bytes(<<y>>) = <<>> /\ z.wrote = x.wrote
    BY <1>1, <1>4, <1>6, OneFrame DEF Resets
  <2>2. Interval(q.got, x.wrote) \o <<>> = Interval(q.got, x.wrote) /\ x.wrote \in Nat
    BY <1>8, PairBytes
  <2>3. Interval(q.got, x.wrote) \o Bytes(<<y>>) = Interval(q.got, z.wrote)
    BY <2>1, <2>2, Zenon
  <2>4. x.wrote <= z.wrote
    BY <2>1, <2>2
  <2>. QED
    BY <2>3, <2>4
<1>12. Moves(x, z, FALSE, FALSE, Some(<<y>>, Ended), Some(<<y>>, Resets))
  <2>1. /\ UserSays("RST_STREAM", FALSE) /\ Spoken(x.stream, z.stream, "RST_STREAM", FALSE)
        /\ x.stream.closedWithRst => x.stream.state = "CLOSED"
        /\ z.stream.resetSent
    BY <1>1, <1>3, <1>6, DialogueFacts DEF UserSays
  <2>2. y \in Frames /\ y.type = "RST_STREAM" /\ y.end = FALSE
    BY <1>4 DEF Resets, Frames
  <2>. QED
    BY <1>9, <2>1, <2>2, FrameMoves
<1>13. Pair(z, q)
  BY <1>1, <1>3, <1>4, <1>6, <1>8, <1>9, <1>10, <1>11, <1>12, PairSays, ZenonT(60)
<1>. QED
  BY <1>6, <1>7, <1>13, EndStepKeeps DEF q

\* What the user reads is what comes next.
LEMMA ReadBodyKeeps ==
  ASSUME WaysInv, NEW e \in Ends, ReadBody(e)
  PROVE  WaysInv'
<1>. DEFINE x == Side(e)
            q == Side(Peer(e))
            r == Readied(stream[e])
            v == [r EXCEPT !.user = <<>>]
            t == EndTurn(UserRead(stream[e]))
            n == got[e] + Len(r.user)
            x1 == Made(r, channel[e], user[e], said[e], wrote[e], got[e])
            x2 == Made(v, channel[e], user[e], said[e], wrote[e], n)
            z == Made(t, channel[e], user[e], said[e], wrote[e], n)
<1>1. /\ x \in Sides /\ x.stream = stream[e] /\ x.channel = channel[e] /\ x.user = user[e]
      /\ x.said = said[e] /\ x.wrote = wrote[e] /\ x.got = got[e]
      /\ stream[e] \in Streams /\ channel[e] \in Seq(Frames) /\ user[e] \in UserStates
      /\ said[e] \in BOOLEAN /\ wrote[e] \in Nat /\ got[e] \in Nat
  BY TypedEnd DEF WaysInv
<1>2. /\ Turns(stream[e], r, <<>>, <<>>) /\ SameState(stream[e], r)
      /\ SameState(r, v) /\ v \in Streams /\ v.user = <<>> /\ v.input = r.input
      /\ v.ended = r.ended /\ v.upstream = r.upstream /\ v.busy = r.busy
      /\ Turns(v, t, <<>>, <<>>) /\ SameState(v, t)
  BY <1>1, UserReadTurns
<1>3. /\ Becomes(e, UserRead(stream[e])) /\ got' = [got EXCEPT ![e] = n]
      /\ UNCHANGED <<channel, said, wrote, user>>
  BY <1>1 DEF ReadBody, WaysInv, Typed
<1>. HIDE DEF t, v, r
<1>4. r \in Streams /\ t \in Streams
  BY <1>2 DEF Turns
<1>5. n \in Nat
  BY <1>1, <1>4, StreamTypes, LenProperties
<1>6. /\ x1 \in Sides /\ x1.stream = r /\ x1.channel = channel[e] /\ x1.user = user[e]
      /\ x1.said = said[e] /\ x1.wrote = wrote[e] /\ x1.got = got[e]
  BY <1>1, <1>4, SideMade
<1>. HIDE DEF x1
<1>7. n = x1.got + Len(r.user)
  BY <1>6
<1>. HIDE DEF n
<1>8. /\ x2 \in Sides /\ x2.stream = v /\ x2.channel = channel[e] /\ x2.user = user[e]
      /\ x2.said = said[e] /\ x2.wrote = wrote[e] /\ x2.got = n
  BY <1>1, <1>2, <1>5, SideMade
<1>9. /\ z \in Sides /\ z.stream = t /\ z.channel = channel[e] /\ z.user = user[e]
      /\ z.said = said[e] /\ z.wrote = wrote[e] /\ z.got = n
  BY <1>1, <1>4, <1>5, SideMade
<1>10. EndStep(e, z)
  BY <1>1, <1>3, <1>4, <1>5, StaysAll, TurnOfEnd DEF WaysInv, t
<1>. HIDE DEF z, x, x2, q
<1>11. Pair(x, q)
  BY PairOfEnds DEF x, q
<1>12. Pair(x1, q)
  BY <1>1, <1>2, <1>6, <1>11, PairRests
<1>13. Pair(x2, q)
  <2>1. /\ r = x1.stream /\ v = x2.stream /\ x2.channel = x1.channel /\ x2.said = x1.said
        /\ x2.wrote = x1.wrote /\ x2.user = x1.user /\ x2.got = x1.got + Len(r.user)
    BY <1>6, <1>7, <1>8
  <2>. QED
    BY <1>2, <1>4, <1>8, <1>12, <2>1, PairReads
<1>14. Pair(z, q)
  BY <1>2, <1>8, <1>9, <1>13, PairRests
<1>. QED
  BY <1>9, <1>10, <1>14, EndStepKeeps DEF q

\* The stream turns by itself, and says nothing that matters.
LEMMA PairQuiet ==
  ASSUME NEW x, NEW y, Pair(x, y), NEW z \in Sides, NEW Y, Harmless(Y),
         Turns(x.stream, z.stream, <<>>, Y), SameState(x.stream, z.stream),
         z.channel = x.channel, z.got = x.got, z.said = x.said, z.wrote = x.wrote,
         z.user = x.user
  PROVE  Pair(z, y)
<1>1. x \in Sides /\ y \in Sides
  BY DEF Pair
<1>2. /\ Open(x) \in BOOLEAN /\ Over(x) \in BOOLEAN
      /\ x.said \in BOOLEAN /\ x.channel \in Seq(Frames) /\ x.wrote \in Nat /\ y.got \in Nat
  BY <1>1, SideTypes
<1>3. Open(z) = Open(x) /\ Over(z) = Over(x)
  BY DEF Open, Over, SameState
<1>4. MaySay(y.stream, Y, Open(x), Over(x), x.said, Open(z), Over(z), z.said)
  BY <1>2, <1>3 DEF Harmless, Marks, MaySay
<1>5. HearsIn(x.stream, z.stream, <<>>, Over(y), y.said, z.said)
  BY EmptyList DEF HearsIn, SameState, Done
<1>6. x.channel = <<>> \o z.channel
  BY <1>2, JoinEmpty
<1>7. Interval(y.got, x.wrote) \o Bytes(Y) = Interval(y.got, z.wrote)
  <2>1. Bytes(Y) = <<>> /\ z.wrote = x.wrote
    BY DEF Harmless
  <2>2. Interval(y.got, x.wrote) \o <<>> = Interval(y.got, x.wrote)
    BY PairBytes
  <2>. QED
    BY <2>1, <2>2, Zenon
<1>8. x.wrote <= z.wrote
  BY <1>2
<1>9. Moves(x, z, Some(<<>>, Ended), Some(<<>>, Resets), Some(Y, Ended), Some(Y, Resets))
  <2>1. /\ Some(<<>>, Ended) = FALSE /\ Some(<<>>, Resets) = FALSE
        /\ Some(Y, Ended) = FALSE /\ Some(Y, Resets) = FALSE
    BY NoMarks DEF Harmless, Marks, Some
  <2>2. Moves(x, z, FALSE, FALSE, FALSE, FALSE)
    BY <1>3, StateRests
  <2>. QED
    BY <2>1, <2>2, Zenon
<1>. QED
  BY <1>4, <1>5, <1>6, <1>7, <1>8, <1>9, PairTurns

\* The timer gives back what was received.
LEMMA RestoreKeeps ==
  ASSUME WaysInv, NEW e \in Ends, Restore(e)
  PROVE  WaysInv'
<1>. DEFINE x == Side(e)
            q == Side(Peer(e))
            s == [stream[e] EXCEPT !.upstream = RestoreWindow(@)]
            t == EndTurn(s)
            z == Made(t, channel[e], user[e], said[e], wrote[e], got[e])
<1>1. /\ x \in Sides /\ x.stream = stream[e] /\ x.channel = channel[e] /\ x.user = user[e]
      /\ x.said = said[e] /\ x.wrote = wrote[e] /\ x.got = got[e]
      /\ stream[e] \in Streams /\ channel[e] \in Seq(Frames) /\ user[e] \in UserStates
      /\ said[e] \in BOOLEAN /\ wrote[e] \in Nat /\ got[e] \in Nat
  BY TypedEnd DEF WaysInv
<1>2. SameState(stream[e], t) /\ \E Y : Harmless(Y) /\ Turns(stream[e], t, <<>>, Y)
  BY <1>1, RestoreTurns
<1>3. Becomes(e, s) /\ UNCHANGED <<channel, said, wrote, got, user>>
  BY DEF Restore
<1>. HIDE DEF s, t
<1>4. PICK Y : Harmless(Y) /\ Turns(stream[e], t, <<>>, Y)
  BY <1>2
<1>5. t \in Streams
  BY <1>4 DEF Turns
<1>6. /\ z \in Sides /\ z.stream = t /\ z.channel = channel[e] /\ z.user = user[e]
      /\ z.said = said[e] /\ z.wrote = wrote[e] /\ z.got = got[e]
  BY <1>1, <1>5, SideMade
<1>7. EndStep(e, z)
  BY <1>1, <1>3, <1>5, StaysAll, TurnOfEnd DEF WaysInv, t
<1>. HIDE DEF z, x, q
<1>8. Pair(x, q)
  BY PairOfEnds DEF x, q
<1>9. Pair(z, q)
  BY <1>1, <1>2, <1>4, <1>6, <1>8, PairQuiet
<1>. QED
  BY <1>6, <1>7, <1>9, EndStepKeeps DEF q

\* SETTINGS change the window of an end.
LEMMA ChangeWindowKeeps ==
  ASSUME WaysInv, NEW e \in Ends, NEW size \in Int, ChangeWindow(e, size)
  PROVE  WaysInv'
<1>. DEFINE x == Side(e)
            q == Side(Peer(e))
            s == Send([stream[e] EXCEPT !.upstream = SetInitialWindow(@, size)])
            t == EndTurn(s)
            z == Made(t, channel[e], user[e], said[e], wrote[e], got[e])
<1>1. /\ x \in Sides /\ x.stream = stream[e] /\ x.channel = channel[e] /\ x.user = user[e]
      /\ x.said = said[e] /\ x.wrote = wrote[e] /\ x.got = got[e]
      /\ stream[e] \in Streams /\ channel[e] \in Seq(Frames) /\ user[e] \in UserStates
      /\ said[e] \in BOOLEAN /\ wrote[e] \in Nat /\ got[e] \in Nat
  BY TypedEnd DEF WaysInv
<1>2. SameState(stream[e], t) /\ Turns(stream[e], t, <<>>, <<>>)
  BY <1>1, SettingsTurns
<1>3. Becomes(e, s) /\ UNCHANGED <<channel, said, wrote, got, user>>
  BY DEF ChangeWindow
<1>. HIDE DEF s, t
<1>5. t \in Streams
  BY <1>2 DEF Turns
<1>6. /\ z \in Sides /\ z.stream = t /\ z.channel = channel[e] /\ z.user = user[e]
      /\ z.said = said[e] /\ z.wrote = wrote[e] /\ z.got = got[e]
  BY <1>1, <1>5, SideMade
<1>7. EndStep(e, z)
  BY <1>1, <1>3, <1>5, StaysAll, TurnOfEnd DEF WaysInv, t
<1>. HIDE DEF z, x, q
<1>8. Pair(x, q)
  BY PairOfEnds DEF x, q
<1>9. Pair(z, q)
  BY <1>1, <1>2, <1>6, <1>8, PairRests
<1>. QED
  BY <1>6, <1>7, <1>9, EndStepKeeps DEF q

\* A frame leaves the stream of one end for the channel of the other.
LEMMA ForwardKeeps ==
  ASSUME WaysInv, NEW e \in Ends, NEW limit \in Nat \ {0}, Forward(e, limit)
  PROVE  WaysInv'
<1>. DEFINE x == Side(e)
            p == Peer(e)
            q == Side(p)
            f == Polled(stream[e].upstream)
            found == f.buffer # <<>>
            y == TakeFrame(f, limit).frame
            s == Send([stream[e] EXCEPT !.upstream = IF found THEN Taken(f, limit) ELSE f])
            t == EndTurn(s)
            z == Made(t, channel[e], user[e], said[e], wrote[e], got[e])
            c == Append(channel[p], y)
            w == Made(stream[p], c, user[p], said[p], wrote[p], got[p])
<1>0. Typed /\ p \in Ends /\ p # e /\ ((e = "A" /\ p = "B") \/ (e = "B" /\ p = "A"))
  BY PeerEnds DEF WaysInv
<1>1. /\ x \in Sides /\ x.stream = stream[e] /\ x.channel = channel[e] /\ x.user = user[e]
      /\ x.said = said[e] /\ x.wrote = wrote[e] /\ x.got = got[e]
      /\ stream[e] \in Streams /\ channel[e] \in Seq(Frames) /\ user[e] \in UserStates
      /\ said[e] \in BOOLEAN /\ wrote[e] \in Nat /\ got[e] \in Nat
  BY TypedEnd DEF WaysInv
<1>2. /\ q \in Sides /\ q.stream = stream[p] /\ q.channel = channel[p] /\ q.user = user[p]
      /\ q.said = said[p] /\ q.wrote = wrote[p] /\ q.got = got[p]
      /\ stream[p] \in Streams /\ channel[p] \in Seq(Frames) /\ user[p] \in UserStates
      /\ said[p] \in BOOLEAN /\ wrote[p] \in Nat /\ got[p] \in Nat
  BY <1>0, TypedEnd
<1>3. /\ SameState(stream[e], t)
      /\ ~found => Turns(stream[e], t, <<>>, <<>>)
      /\ found => Forwarded(stream[e], t, y)
  BY <1>1, ForwardTurns
<1>4. /\ Becomes(e, s) /\ UNCHANGED <<said, wrote, got, user>>
      /\ found => channel' = [channel EXCEPT ![p] = c]
      /\ ~found => channel' = channel
  BY DEF Forward
<1>. HIDE DEF found, y, s, t, f
<1>5. t \in Streams
  BY <1>3 DEF Turns, Forwarded
<1>6. /\ z \in Sides /\ z.stream = t /\ z.channel = channel[e] /\ z.user = user[e]
      /\ z.said = said[e] /\ z.wrote = wrote[e] /\ z.got = got[e]
  BY <1>1, <1>5, SideMade
<1>7. Pair(x, q)
  BY PairOfEnds
<1>8. CASE ~found
  <2>1. EndStep(e, z)
    BY <1>0, <1>1, <1>4, <1>5, <1>8, StaysAll, TurnOfEnd DEF t
  <2>. HIDE DEF z, x, q
  <2>2. Pair(z, q)
    BY <1>1, <1>3, <1>6, <1>7, <1>8, PairRests
  <2>. QED
    BY <1>6, <2>1, <2>2, EndStepKeeps DEF q
<1>9. CASE found
  <2>1. Forwarded(stream[e], t, y) /\ channel' = [channel EXCEPT ![p] = c]
    BY <1>3, <1>4, <1>9
  <2>2. c \in Seq(Frames)
    <3>1. y \in Frames
      BY <2>1 DEF Forwarded
    <3>. QED
      BY <1>2, <3>1, AppendProperties
  <2>. HIDE DEF c
  <2>3. /\ w \in Sides /\ w.stream = stream[p] /\ w.channel = c /\ w.user = user[p]
        /\ w.said = said[p] /\ w.wrote = wrote[p] /\ w.got = got[p]
    BY <1>2, <2>2, SideMade
  <2>4. stream' = [stream EXCEPT ![e] = t]
    BY <1>4 DEF Becomes, t
  <2>5. Typed'
    BY <1>0, <1>4, <1>5, <2>1, <2>2, <2>4 DEF Typed
  <2>6. /\ stream'[e] = t /\ channel'[e] = channel[e]
        /\ stream'[p] = stream[p] /\ channel'[p] = c
    BY <1>0, <2>1, <2>4 DEF Typed
  <2>7. /\ Made(stream'[e], channel'[e], user'[e], said'[e], wrote'[e], got'[e]) = z
        /\ Made(stream'[p], channel'[p], user'[p], said'[p], wrote'[p], got'[p]) = w
    BY <1>4, <2>6, Zenon
  <2>. HIDE DEF z, w, x, q, p
  <2>8. Pair(z, w)
    <3>1. w.channel = Append(q.channel, y)
      BY <1>2, <2>3 DEF c
    <3>2. /\ Forwarded(x.stream, z.stream, y) /\ SameState(x.stream, z.stream)
          /\ z.channel = x.channel /\ z.said = x.said /\ z.wrote = x.wrote
          /\ z.user = x.user /\ z.got = x.got
      BY <1>1, <1>3, <1>6, <2>1
    <3>3. /\ w.stream = q.stream /\ w.said = q.said
          /\ w.wrote = q.wrote /\ w.user = q.user /\ w.got = q.got
      BY <1>2, <2>3
    <3>. QED
      BY <1>6, <1>7, <2>3, <3>1, <3>2, <3>3, PairForwards
  <2>9. Pair(w, z)
    BY <2>8, PairTurned
  <2>10. CASE e = "A" /\ p = "B"
    <3>1. Pair(Side("A"), Side("B"))'
      BY <2>7, <2>8, <2>10, Zenon DEF Side
    <3>. QED
      BY <2>5, <3>1 DEF WaysInv
  <2>11. CASE e = "B" /\ p = "A"
    <3>1. Pair(Side("A"), Side("B"))'
      BY <2>7, <2>9, <2>11, Zenon DEF Side
    <3>. QED
      BY <2>5, <3>1 DEF WaysInv
  <2>. QED
    BY <1>0, <2>10, <2>11
<1>. QED
  BY <1>8, <1>9

\* The first frame of a channel, and the rest.
LEMMA HeadLeaves ==
  ASSUME NEW c \in Seq(Frames), c # <<>>
  PROVE  Head(c) \in Frames /\ Tail(c) \in Seq(Frames) /\ c = <<Head(c)>> \o Tail(c)
<1>1. Head(c) \in Frames /\ Tail(c) \in Seq(Frames)
  BY HeadTailProperties
<1>2. c = <<Head(c)>> \o Tail(c)
  OBVIOUS
<1>. QED
  BY <1>1, <1>2

\* The peer of a stream has spoken when its frame says so.
LEMMA DeliverHears ==
  ASSUME NEW p, NEW t, NEW f \in Frames, NEW ahead, NEW open, NEW over, NEW spoke, NEW other,
         NEW n, NEW m, NEW L \in Seq(Frames), ahead = <<f>> \o L,
         WayIs(p, ahead, open, over, spoke, other, n, m), HearsState(p, t, f)
  PROVE  /\ HearsIn(p, t, <<f>>, over, spoke, other)
         /\ f.end \/ f.type = "RST_STREAM" => p.state # "IDLE" \/ f.type = "HEADERS"
<1>1. /\ p \in Streams /\ ahead \in Seq(Frames)
      /\ Order(p, p.input \o ahead, open, over)
      /\ Begin(p, p.input \o ahead, ahead, spoke, other)
  BY DEF WayIs
<1>2. /\ <<f>> \in Seq(Frames) /\ (\A S : Some(<<f>>, S) <=> f \in S)
      /\ (Early(<<f>>) <=> f \in Ending /\ f \notin Opening)
  BY OneFrame
<1>3. \A S : f \in S => Some(p.input \o ahead, S)
  <2>1. \A S : Some(<<f>> \o L, S) <=> Some(<<f>>, S) \/ Some(L, S)
    BY <1>2, SomeJoin
  <2>2. \A S : f \in S => Some(ahead, S)
    BY <1>2, <2>1
  <2>3. \A S : Some(p.input \o ahead, S) <=> Some(p.input, S) \/ Some(ahead, S)
    BY <1>1, StreamTypes, SomeJoin
  <2>. QED
    BY <2>2, <2>3
<1>4. f \in Ending /\ f \notin Opening => Early(ahead)
  BY <1>2, EarlyJoin
<1>5. /\ f.end => f \in Ended
      /\ f.end \/ f.type = "RST_STREAM" => f \in Ending
      /\ f.type = "RST_STREAM" <=> f \in Resets
      /\ f.type = "HEADERS" <=> f \in Opening
  BY DEF Ended, Resets, Ending, Opening
<1>6. /\ f.end => over
      /\ f.type = "HEADERS" => spoke
      /\ f.end \/ f.type = "RST_STREAM" => p.state # "IDLE" \/ f.type = "HEADERS"
      /\ Done(p) => over
  BY <1>1, <1>3, <1>4, <1>5 DEF Order, Begin
<1>7. Done(t) => Done(p) \/ over
  BY <1>6 DEF HearsState
<1>8. Some(<<f>>, Resets) => t.closedWithRst \/ over
  BY <1>2, <1>5, <1>6 DEF HearsState, Done
<1>9. t.state = "IDLE" => p.state = "IDLE" /\ ~Some(<<f>>, Opening)
  BY <1>2, <1>5 DEF HearsState
<1>10. t.state # "IDLE" => p.state # "IDLE" \/ spoke \/ other
  BY <1>6 DEF HearsState
<1>. QED
  BY <1>6, <1>7, <1>8, <1>9, <1>10 DEF HearsIn, HearsState

\* What is heard moves the state machine as the frame tells.
LEMMA HeedsMoves ==
  ASSUME NEW x, NEW z, NEW f \in Frames, Heeds(x.stream, z.stream, f),
         f.end \/ f.type = "RST_STREAM" => x.stream.state # "IDLE" \/ f.type = "HEADERS",
         NEW answers \in BOOLEAN, z.stream.resetSent <=> x.stream.resetSent \/ answers,
         answers => x.stream.state = "CLOSED", Over(z) = Over(x)
  PROVE  Moves(x, z, f.end, f.type = "RST_STREAM", FALSE, answers)
<1>1. Own(x) => Own(z)
  BY DEF Own, Heeds
<1>. QED
  BY <1>1 DEF Moves, Heeds

\* The first frame of the channel reaches the stream.
LEMMA DeliverKeeps ==
  ASSUME DialogueInv, WaysInv, NEW e \in Ends, Deliver(e)
  PROVE  WaysInv'
<1>. DEFINE x == Side(e)
            p == Peer(e)
            q == Side(p)
            f == Head(channel[e])
            c == Tail(channel[e])
            s == Process(WriteUpstream(stream[e], f), f)
            t == EndTurn(s)
            z == Made(t, c, user[e], said[e], wrote[e], got[e])
<1>0. Typed /\ p \in Ends
  BY PeerEnds DEF WaysInv
<1>1. /\ x \in Sides /\ x.stream = stream[e] /\ x.channel = channel[e] /\ x.user = user[e]
      /\ x.said = said[e] /\ x.wrote = wrote[e] /\ x.got = got[e]
      /\ stream[e] \in Streams /\ channel[e] \in Seq(Frames) /\ user[e] \in UserStates
      /\ said[e] \in BOOLEAN /\ wrote[e] \in Nat /\ got[e] \in Nat
  BY TypedEnd DEF WaysInv
<1>2. q \in Sides /\ q.stream = stream[p] /\ q.said = said[p] /\ said[p] \in BOOLEAN
  BY <1>0, TypedEnd
<1>3. /\ Becomes(e, s) /\ channel' = [channel EXCEPT ![e] = c] /\ channel[e] # <<>>
      /\ UNCHANGED <<said, wrote, got, user>>
  BY <1>1 DEF Deliver, WaysInv, Typed
<1>4. f \in Frames /\ c \in Seq(Frames) /\ channel[e] = <<f>> \o c
  BY <1>1, <1>3, HeadLeaves
<1>. HIDE DEF f, c
<1>5. PICK Y \in Answers : Delivered(stream[e], t, f, Y)
  BY <1>1, <1>4, DialogueFacts, DeliverTurns
<1>. HIDE DEF s, t
<1>6. /\ Turns(stream[e], t, <<f>>, Y) /\ HearsState(stream[e], t, f)
      /\ Heeds(stream[e], t, f)
      /\ Y # <<>> => stream[e].state = "CLOSED"
      /\ t.resetSent <=> stream[e].resetSent \/ Y # <<>>
  BY <1>5 DEF Delivered
<1>7. t \in Streams
  BY <1>6 DEF Turns
<1>8. /\ z \in Sides /\ z.stream = t /\ z.channel = c /\ z.user = user[e]
      /\ z.said = said[e] /\ z.wrote = wrote[e] /\ z.got = got[e]
  BY <1>1, <1>4, <1>7, SideMade
<1>9. EndStep(e, z)
  BY <1>0, <1>1, <1>3, <1>4, <1>7, StaysAll, TurnOfEnd DEF t
<1>10. Pair(x, q)
  BY PairOfEnds
<1>. HIDE DEF z, x
<1>11. Way(q, x)
  BY <1>10 DEF Pair, Toward
<1>12. (stream[e].state # "IDLE" => said[p] \/ said[e]) /\ (said[p] => stream[p].state # "IDLE")
  <2>1. stream[e].state # "IDLE" => said[p] \/ said[e]
    BY <1>1, <1>2, <1>11 DEF Way, WayIs, Begin
  <2>. QED
    BY <1>0, <2>1, DialogueFacts
<1>. HIDE DEF q
<1>13. /\ Open(x) \in BOOLEAN /\ Over(x) \in BOOLEAN /\ x.said \in BOOLEAN
       /\ Open(z) \in BOOLEAN /\ Over(z) = Over(x) /\ z.said = x.said
       /\ Open(z) => Open(x)
  <2>1. stream[e].resetSent => t.resetSent
    BY <1>6 DEF HearsState
  <2>. QED
    BY <1>1, <1>8, <2>1, SideTypes DEF Open, Over
<1>14. MaySay(q.stream, Y, Open(x), Over(x), x.said, Open(z), Over(z), z.said)
       /\ Bytes(Y) = <<>>
  <2>1. CASE Y = <<>>
    <3>1. MaySay(q.stream, <<>>, Open(x), Over(x), x.said, Open(z), Over(z), x.said)
      BY <1>13, EmptyList DEF MaySay
    <3>. QED
      BY <1>13, <2>1, <3>1, EmptyList, Zenon
  <2>2. CASE Y # <<>>
    <3>. DEFINE y == F("RST_STREAM")
    <3>1. Y = <<y>> /\ stream[e].state = "CLOSED" /\ t.resetSent
      BY <1>6, <2>2 DEF Answers
    <3>2. /\ y \in Frames /\ y.data = <<>> /\ y \notin Ended /\ y \notin Opening
      BY ResetFrame DEF Ended, Opening
    <3>. HIDE DEF y
    <3>3. Open(z) = FALSE /\ (x.said \/ q.stream.state # "IDLE")
      BY <1>1, <1>2, <1>8, <1>12, <3>1 DEF Open
    <3>4. MayAdd(q.stream, y, Open(x), Over(x), x.said, Open(z), Over(z), z.said)
      BY <1>13, <3>2, <3>3 DEF MayAdd
    <3>5. MaySay(q.stream, <<y>>, Open(x), Over(x), x.said, Open(z), Over(z), z.said)
      BY <3>4, FrameSaid
    <3>6. Bytes(<<y>>) = <<>>
      BY <3>2, OneFrame
    <3>. QED
      BY <3>1, <3>5, <3>6, Zenon
  <2>. QED
    BY <2>1, <2>2
<1>15. x.wrote <= z.wrote /\ Interval(q.got, x.wrote) \o Bytes(Y) = Interval(q.got, z.wrote)
  <2>1. z.wrote = x.wrote
    BY <1>1, <1>8
  <2>2. Interval(q.got, x.wrote) \o <<>> = Interval(q.got, x.wrote) /\ x.wrote \in Nat
    BY <1>10, PairBytes
  <2>3. Interval(q.got, x.wrote) \o Bytes(Y) = Interval(q.got, z.wrote)
    BY <1>14, <2>1, <2>2, Zenon
  <2>4. x.wrote <= z.wrote
    BY <2>1, <2>2
  <2>. QED
    BY <2>3, <2>4
<1>16. /\ HearsIn(x.stream, z.stream, <<f>>, Over(q), q.said, z.said)
       /\ f.end \/ f.type = "RST_STREAM" => x.stream.state # "IDLE" \/ f.type = "HEADERS"
  <2>. DEFINE r == Content(q.stream.upstream)
              L == c \o r
              A == Ahead(q, x)
  <2>1. r \in Seq(Frames)
    BY <1>2, SideTypes
  <2>. HIDE DEF r
  <2>2. L \in Seq(Frames) /\ <<f>> \in Seq(Frames)
    BY <1>4, <2>1, JoinList, OneFrame
  <2>3. Regroups(<<f>>, c, r)
    BY <1>4, <2>1, <2>2, ListsRegroup
  <2>4. A = <<f>> \o L
    BY <1>1, <1>4, <2>3, Zenon DEF Regroups, Ahead, r
  <2>5. WayIs(x.stream, A, Open(q), Over(q), q.said, x.said, q.wrote, x.got)
    BY <1>11 DEF Way
  <2>. HIDE DEF A, L
  <2>6. HearsState(x.stream, z.stream, f)
    BY <1>1, <1>6, <1>8
  <2>7. /\ HearsIn(x.stream, z.stream, <<f>>, Over(q), q.said, x.said)
        /\ f.end \/ f.type = "RST_STREAM" => x.stream.state # "IDLE" \/ f.type = "HEADERS"
    BY <1>4, <2>2, <2>4, <2>5, <2>6, DeliverHears
  <2>. QED
    BY <1>13, <2>7
<1>17. Turns(x.stream, z.stream, <<f>>, Y) /\ x.channel = <<f>> \o z.channel /\ z.got = x.got
  BY <1>1, <1>4, <1>6, <1>8
<1>18. Moves(x, z, Some(<<f>>, Ended), Some(<<f>>, Resets), Some(Y, Ended), Some(Y, Resets))
  <2>. DEFINE answers == Y # <<>>
  <2>1. Moves(x, z, f.end, f.type = "RST_STREAM", FALSE, answers)
    <3>1. /\ z.stream.resetSent <=> x.stream.resetSent \/ answers
          /\ answers => x.stream.state = "CLOSED"
          /\ Heeds(x.stream, z.stream, f)
      BY <1>1, <1>6, <1>8
    <3>2. answers \in BOOLEAN
      OBVIOUS
    <3>. HIDE DEF answers
    <3>. QED
      BY <1>4, <1>13, <1>16, <3>1, <3>2, HeedsMoves
  <2>2. Some(<<f>>, Ended) = f.end /\ Some(<<f>>, Resets) = (f.type = "RST_STREAM")
    BY <1>4, FrameMarks
  <2>3. Some(Y, Ended) = FALSE /\ Some(Y, Resets) = answers
    BY AnswerMarks
  <2>. QED
    BY <2>1, <2>2, <2>3, Zenon
<1>19. Pair(z, q)
  BY <1>8, <1>10, <1>14, <1>15, <1>16, <1>17, <1>18, PairTurns
<1>. QED
  BY <1>8, <1>9, <1>19, EndStepKeeps DEF q

\* Nothing is on its way at the beginning.
LEMMA WaysStart == Init => WaysInv
<1>. SUFFICES ASSUME Init PROVE WaysInv
  OBVIOUS
<1>. DEFINE s == NewStream
            z == Made(s, <<>>, "open", FALSE, 0, 0)
<1>1. /\ NewFlow \in Flows /\ Content(NewFlow) = <<>> /\ NewFlow.received = 0
      /\ Credit(NewFlow) = NewFlow.initialWindow /\ Credit(NewFlow) \in Int
  BY NewFlowHolds, FlowTypes
<1>2. /\ s.upstream = NewFlow /\ s.input = <<>> /\ s.busy = <<>> /\ s.user = <<>>
      /\ s.state = "IDLE" /\ s.ended = FALSE /\ s.closedWithRst = FALSE /\ s.resetSent = FALSE
  BY DEF NewStream
<1>3. s \in Streams
  BY <1>1, EmptyList, NoOctets DEF NewStream, Streams, StateNames, Pending
<1>. HIDE DEF s
<1>4. Given(s) = 0 /\ Held(s) = 0
  <2>1. Len(<<>>) = 0 /\ Bytes(<<>>) = <<>> /\ Increments(<<>>) = 0 /\ FlattenSeq(<<>>) = <<>>
    BY EmptyList, PendingBytes, EmptySeq
  <2>2. Given(s) = Credit(NewFlow) + 0 - Credit(NewFlow)
    BY <1>1, <1>2, <2>1, Zenon DEF Given
  <2>3. Held(s) = 0 + 0 + 0 + 0
    BY <1>1, <1>2, <2>1, Zenon DEF Held
  <2>. QED
    BY <1>1, <2>2, <2>3
<1>5. /\ z \in Sides /\ z.stream = s /\ z.channel = <<>> /\ z.user = "open" /\ z.said = FALSE
      /\ z.wrote = 0 /\ z.got = 0
  BY <1>3, EmptyList DEF UserStates, Made, Sides
<1>. HIDE DEF z
<1>6. Content(s.upstream) = <<>> /\ <<>> \o <<>> = <<>> /\ Ahead(z, z) = <<>>
  BY <1>1, <1>2, <1>5 DEF Ahead
<1>7. Interval(0, 0) = <<>>
  BY DEF Interval
<1>8. WayIs(s, <<>>, Open(z), Over(z), z.said, z.said, z.wrote, z.got)
  <2>1. Body(s, <<>>, z.wrote, z.got)
    BY <1>2, <1>5, <1>6, <1>7, EmptyList DEF Body
  <2>2. Order(s, <<>>, Open(z), Over(z))
    BY <1>2, EmptyList DEF Order, Done
  <2>3. Begin(s, <<>>, <<>>, z.said, z.said)
    BY <1>2, <1>5, EmptyList DEF Begin
  <2>4. Open(z) \in BOOLEAN /\ Over(z) \in BOOLEAN /\ z.said \in BOOLEAN
    BY <1>5, SideTypes
  <2>. QED
    BY <1>2, <1>3, <1>6, <2>1, <2>2, <2>3, <2>4, EmptyList DEF WayIs
<1>9. Way(z, z)
  BY <1>5, <1>6, <1>8 DEF Way
<1>10. CreditIs(z.stream, z.stream, z.channel, z.channel)
  <2>1. Len(Bytes(<<>>)) = 0 /\ Increments(<<>>) = 0
    BY EmptyList, EmptySeq
  <2>2. Given(s) + Len(Bytes(<<>>)) + Held(s) + Increments(<<>>) = 0
    BY <1>4, <2>1
  <2>. QED
    BY <1>5, <2>2 DEF CreditIs
<1>11. Agreed(z, z)
  <2>1. ~Over(z) /\ ~Some(Ahead(z, z), Ended) /\ ~Some(Ahead(z, z), Resets)
    <3>1. ~Some(<<>>, Ended) /\ ~Some(<<>>, Resets)
      BY EmptyList
    <3>. QED
      BY <1>5, <1>6, <3>1, Zenon DEF Over
  <2>2. z.stream = s
    BY <1>5
  <2>. QED
    BY <1>2, <2>1, <2>2 DEF Agreed, Own, Told
<1>12. Pair(z, z)
  BY <1>5, <1>9, <1>10, <1>11 DEF Pair, Toward
<1>13. ASSUME NEW e \in Ends PROVE Side(e) = z
  BY <1>13 DEF Init, Side, z, s
<1>14. Typed
  BY <1>3, EmptyList DEF Init, Typed, UserStates, s
<1>15. "A" \in Ends /\ "B" \in Ends
  BY DEF Ends
<1>16. Side("A") = z /\ Side("B") = z
  BY <1>13, <1>15
<1>. QED
  BY <1>12, <1>14, <1>16, Zenon DEF WaysInv

\* Every step keeps the invariant.
LEMMA WaysStay == DialogueInv /\ WaysInv /\ [Next]_vars => WaysInv'
<1>. SUFFICES ASSUME DialogueInv, WaysInv, [Next]_vars PROVE WaysInv'
  OBVIOUS
<1>1. ASSUME NEW e \in Ends, SendHeaders(e) PROVE WaysInv'
  BY <1>1, SendHeadersKeeps
<1>2. ASSUME NEW e \in Ends, NEW n \in Chunks, WriteChunk(e, n) PROVE WaysInv'
  BY <1>2, WriteChunkKeeps, DialogueAssumption
<1>3. ASSUME NEW e \in Ends, End(e) PROVE WaysInv'
  BY <1>3, EndKeeps
<1>4. ASSUME NEW e \in Ends, Finish(e) PROVE WaysInv'
  BY <1>4, FinishKeeps
<1>5. ASSUME NEW e \in Ends, ResetStream(e) PROVE WaysInv'
  BY <1>5, ResetKeeps
<1>6. ASSUME NEW e \in Ends, ReadBody(e) PROVE WaysInv'
  BY <1>6, ReadBodyKeeps
<1>7. ASSUME NEW e \in Ends, NEW limit \in Limits, Forward(e, limit) PROVE WaysInv'
  BY <1>7, ForwardKeeps, DialogueAssumption
<1>8. ASSUME NEW e \in Ends, Deliver(e) PROVE WaysInv'
  BY <1>8, DeliverKeeps
<1>9. ASSUME NEW e \in Ends, Restore(e) PROVE WaysInv'
  BY <1>9, RestoreKeeps
<1>10. ASSUME NEW e \in Ends, NEW size \in Windows, ChangeWindow(e, size) PROVE WaysInv'
  <2>1. size \in Int
    BY <1>10, DialogueAssumption
  <2>. QED
    BY <1>10, <2>1, ChangeWindowKeeps
<1>11. CASE UNCHANGED vars
  BY <1>11 DEF vars, WaysInv, Typed, Side
<1>. QED
  BY <1>1, <1>2, <1>3, <1>4, <1>5, <1>6, <1>7, <1>8, <1>9, <1>10, <1>11 DEF Next

\* In every dialogue, in each of its two ways, the bytes that were written and not
\* read are on the way in order, no byte follows an end, nobody is reset before it
\* is opened, and every byte of a window is at one place.
THEOREM DialogueIsInOrder == Spec => []WaysInv
BY WaysStart, WaysStay, DialogueInvariant, PTL DEF Spec

\* What the invariant says of one way.
LEMMA WayFacts ==
  ASSUME WaysInv, NEW e \in Ends
  PROVE  LET p == Peer(e)
         IN  /\ p \in Ends
             /\ stream[e] \in Streams /\ stream[p] \in Streams
             /\ channel[e] \in Seq(Frames) /\ channel[p] \in Seq(Frames)
             /\ WayIs(stream[p], channel[p] \o Content(stream[e].upstream),
                      Open(Side(e)), user[e] = "ended", said[e], said[p], wrote[e], got[p])
             /\ CreditIs(stream[e], stream[p], channel[p], channel[e])
<1>. DEFINE p == Peer(e)
            x == Side(e)
            q == Side(p)
<1>1. p \in Ends /\ Typed
  BY PeerEnds DEF WaysInv
<1>2. /\ x.stream = stream[e] /\ x.channel = channel[e] /\ x.user = user[e]
      /\ x.said = said[e] /\ x.wrote = wrote[e] /\ x.got = got[e]
      /\ stream[e] \in Streams /\ channel[e] \in Seq(Frames)
  BY <1>1, TypedEnd
<1>3. /\ q.stream = stream[p] /\ q.channel = channel[p]
      /\ q.said = said[p] /\ q.wrote = wrote[p] /\ q.got = got[p]
      /\ stream[p] \in Streams /\ channel[p] \in Seq(Frames)
  BY <1>1, TypedEnd
<1>4. Pair(x, q)
  BY PairOfEnds
<1>. HIDE DEF x, q, p
<1>5. Way(x, q) /\ CreditIs(x.stream, q.stream, q.channel, x.channel)
  BY <1>4 DEF Pair, Toward
<1>6. WayIs(stream[p], channel[p] \o Content(stream[e].upstream),
            Open(x), user[e] = "ended", said[e], said[p], wrote[e], got[p])
  BY <1>2, <1>3, <1>5 DEF Way, Ahead, Over
<1>7. CreditIs(stream[e], stream[p], channel[p], channel[e])
  BY <1>2, <1>3, <1>5
<1>. QED
  BY <1>1, <1>2, <1>3, <1>6, <1>7 DEF p, x

\* The assertions of flow.js hold in every dialogue: a frame is pushed within the
\* window, and _read stops only at a full buffer, an empty queue or a window of 0.
THEOREM AssertionsHold == Spec => []NoAssertionFails
<1>1. WaysInv => NoAssertionFails
  <2>. SUFFICES ASSUME WaysInv, NEW e \in Ends PROVE ~stream[e].upstream.failed
    BY DEF NoAssertionFails
  <2>1. stream[e].upstream \in Flows
    BY WayFacts, StreamTypes
  <2>. QED
    BY <2>1, FlowTypes
<1>. QED
  BY <1>1, DialogueIsInOrder, PTL

\* Bytes may be regrouped.
LEMMA DataRegroup ==
  ASSUME NEW x \in Seq(Octet), NEW y \in Seq(Octet), NEW z \in Seq(Octet)
  PROVE  Regroups(x, y, z)
BY SMTT(40) DEF Regroups

Flat(A, B, C, D, E) == A \o B \o C \o D \o E = A \o (B \o (C \o (D \o E)))

\* Five pieces, joined from the left or from the right.
LEMMA FiveJoined ==
  ASSUME NEW A \in Seq(Octet), NEW B \in Seq(Octet), NEW C \in Seq(Octet),
         NEW D \in Seq(Octet), NEW E \in Seq(Octet)
  PROVE  Flat(A, B, C, D, E)
<1>. DEFINE V == A \o B
            W == V \o C
            T == D \o E
            U == C \o T
<1>1. V \in Seq(Octet) /\ T \in Seq(Octet)
  BY ConcatProperties
<1>. HIDE DEF V, T
<1>2. W \in Seq(Octet) /\ U \in Seq(Octet)
  BY <1>1, ConcatProperties
<1>. HIDE DEF W, U
<1>4. Regroups(V, C, T) /\ Regroups(W, D, E) /\ Regroups(A, B, U)
  BY <1>1, <1>2, DataRegroup
<1>. QED
  BY <1>4, Zenon DEF Flat, Regroups, W, V, U, T

\* What a user reads is what the other wrote, from its first byte on and in order,
\* for all windows, limits, chunks and buffers: no split, hold or re-read loses,
\* repeats or reorders a byte.
THEOREM BodyStaysInOrder == Spec => []BytesInOrder
<1>1. WaysInv => BytesInOrder
  <2>. SUFFICES ASSUME WaysInv, NEW e \in Ends
                PROVE  LET p == stream[Peer(e)] s == stream[e]
                           b == s.upstream.buffer w == s.upstream.queue
                       IN  p.user \o Bytes(p.input) \o Bytes(channel[Peer(e)]) \o Bytes(b) \o Bytes(w)
                             = [i \in 1..(wrote[e] - got[Peer(e)]) |-> got[Peer(e)] + i]
    BY DEF BytesInOrder, OnTheWay
  <2>. DEFINE p == stream[Peer(e)]
              c == channel[Peer(e)]
              f == stream[e].upstream
              b == f.buffer
              w == f.queue
              n == wrote[e]
              m == got[Peer(e)]
              ahead == c \o Content(f)
  <2>1. /\ p \in Streams /\ c \in Seq(Frames) /\ stream[e] \in Streams
        /\ WayIs(p, ahead, Open(Side(e)), user[e] = "ended", said[e], said[Peer(e)], n, m)
    BY WayFacts
  <2>2. p.input \in Seq(Frames) /\ p.user \in Seq(Octet) /\ f \in Flows
    BY <2>1, StreamTypes
  <2>3. b \in Seq(Frames) /\ w \in Seq(Frames) /\ Content(f) = b \o w
    BY <2>2, FlowTypes DEF Content
  <2>4. p.user \o Bytes(p.input \o ahead) = Interval(m, n)
    BY <2>1 DEF WayIs, Body
  <2>. HIDE DEF p, c, f, b, w, n, m
  <2>5. Bytes(p.input \o ahead) = Bytes(p.input) \o (Bytes(c) \o (Bytes(b) \o Bytes(w)))
    <3>1. Bytes(b \o w) = Bytes(b) \o Bytes(w) /\ b \o w \in Seq(Frames)
      BY <2>3, BytesJoin, JoinList
    <3>2. Bytes(c \o (b \o w)) = Bytes(c) \o Bytes(b \o w) /\ c \o (b \o w) \in Seq(Frames)
      BY <2>1, <3>1, BytesJoin, JoinList
    <3>3. Bytes(p.input \o (c \o (b \o w))) = Bytes(p.input) \o Bytes(c \o (b \o w))
      BY <2>2, <3>2, BytesJoin
    <3>. QED
      BY <2>3, <3>1, <3>2, <3>3, Zenon
  <2>6. /\ Bytes(p.input) \in Seq(Octet) /\ Bytes(c) \in Seq(Octet)
        /\ Bytes(b) \in Seq(Octet) /\ Bytes(w) \in Seq(Octet)
    BY <2>1, <2>2, <2>3, BytesType
  <2>8. p.user \o Bytes(p.input) \o Bytes(c) \o Bytes(b) \o Bytes(w)
          = p.user \o (Bytes(p.input) \o (Bytes(c) \o (Bytes(b) \o Bytes(w))))
    <3>. DEFINE A == p.user
                B == Bytes(p.input)
                C == Bytes(c)
                D == Bytes(b)
                E == Bytes(w)
    <3>1. /\ A \in Seq(Octet) /\ B \in Seq(Octet) /\ C \in Seq(Octet)
          /\ D \in Seq(Octet) /\ E \in Seq(Octet)
      BY <2>2, <2>6
    <3>. HIDE DEF A, B, C, D, E
    <3>2. Flat(A, B, C, D, E)
      BY <3>1, FiveJoined
    <3>. QED
      BY <3>2, Zenon DEF Flat, A, B, C, D, E
  <2>9. p.user \o Bytes(p.input) \o Bytes(c) \o Bytes(b) \o Bytes(w) = Interval(m, n)
    BY <2>4, <2>5, <2>8, Zenon
  <2>. QED
    BY <2>9, Zenon DEF Interval, p, c, f, b, w, n, m
<1>. QED
  BY <1>1, DialogueIsInOrder, PTL

\* A stream that has seen END_STREAM, and no RST_STREAM, has the whole body, wherever
\* the mark of the end was put and however the frame that has it was cut.
THEOREM EndedHasWholeBody == Spec => []WholeBody
<1>1. WaysInv => WholeBody
  <2>. SUFFICES ASSUME WaysInv, NEW e \in Ends, stream[e].ended, ~stream[e].closedWithRst
                PROVE  user[Peer(e)] = "ended" /\ got[e] + Len(stream[e].user) = wrote[Peer(e)]
    BY DEF WholeBody
  <2>. DEFINE p == stream[e]
              L == p.input \o (channel[e] \o Content(stream[Peer(e)].upstream))
              n == wrote[Peer(e)]
              m == got[e]
  <2>1. /\ p \in Streams
        /\ Body(p, L, n, m)
        /\ Order(p, L, Open(Side(Peer(e))), user[Peer(e)] = "ended")
    <3>1. Peer(e) \in Ends /\ Peer(Peer(e)) = e
      BY PeerEnds
    <3>. QED
      BY <3>1, WayFacts DEF WayIs
  <2>2. p.user \in Seq(Octet)
    BY <2>1, StreamTypes
  <2>. HIDE DEF L
  <2>3. Bytes(L) = <<>> /\ user[Peer(e)] = "ended"
    BY <2>1 DEF Order
  <2>4. m \in Nat /\ n \in Nat /\ m <= n /\ p.user \o Bytes(L) = Interval(m, n)
    BY <2>1 DEF Body
  <2>5. p.user \o <<>> = p.user
    BY <2>2, ConcatEmptySeq
  <2>6. p.user = Interval(m, n)
    BY <2>3, <2>4, <2>5, Zenon
  <2>7. Len(Interval(m, n)) = n - m
    BY <2>4 DEF Interval
  <2>8. Len(p.user) = n - m
    BY <2>6, <2>7, Zenon
  <2>. QED
    BY <2>3, <2>4, <2>8
<1>. QED
  BY <1>1, DialogueIsInOrder, PTL

\* Every byte of the initial window is in the window of the sender or on a way that
\* gives it back, also while the initial window is changed.
THEOREM CreditIsConserved == Spec => []CreditConserved
<1>1. WaysInv => CreditConserved
  <2>. SUFFICES ASSUME WaysInv, NEW e \in Ends
                PROVE  stream[e].upstream.window + Outstanding(e) = stream[e].upstream.initialWindow
    BY DEF CreditConserved
  <2>. DEFINE s == stream[e]
              p == stream[Peer(e)]
              a == channel[Peer(e)]
              b == channel[e]
              f == s.upstream
              g == p.upstream
  <2>1. /\ s \in Streams /\ p \in Streams /\ a \in Seq(Frames) /\ b \in Seq(Frames)
        /\ CreditIs(s, p, a, b)
    BY WayFacts
  <2>. HIDE DEF s, p, a, b
  <2>2. f \in Flows /\ g \in Flows /\ s.input \in Seq(Frames) /\ p.input \in Seq(Frames)
        /\ p.busy \in Pending
    BY <2>1, StreamTypes
  <2>3. /\ f.window \in Int /\ f.initialWindow \in Int /\ f.buffer \in Seq(Frames)
        /\ g.received \in Int /\ g.buffer \in Seq(Frames) /\ g.queue \in Seq(Frames)
    <3>1. f.window \in Int /\ f.initialWindow \in Int /\ f.buffer \in Seq(Frames)
      BY <2>2, FlowTypes
    <3>2. g.received \in Nat /\ g.buffer \in Seq(Frames) /\ g.queue \in Seq(Frames)
      BY <2>2, FlowTypes
    <3>. QED
      BY <3>1, <3>2
  <2>4. Increments(Content(g)) = Increments(g.buffer) + Increments(g.queue)
    BY <2>3, IncrementsJoin DEF Content
  <2>5. Given(s) = f.window + Len(Bytes(f.buffer)) + Increments(s.input) - f.initialWindow
    BY Zenon DEF Given, Credit
  <2>6. Held(p) = Len(Bytes(p.input)) + Len(FlattenSeq(p.busy)) + g.received + Increments(Content(g))
    BY Zenon DEF Held
  <2>7. Given(s) + Len(Bytes(a)) + Held(p) + Increments(b) = 0
    BY <2>1 DEF CreditIs
  <2>8. Outstanding(e) =
          Len(Bytes(f.buffer)) + Len(Bytes(a)) + Len(Bytes(p.input)) + Len(FlattenSeq(p.busy))
          + g.received + Increments(g.queue) + Increments(g.buffer) + Increments(b)
          + Increments(s.input)
    BY Zenon DEF Outstanding, s, p, a, b
  <2>9. /\ Increments(s.input) \in Int /\ Increments(b) \in Int
        /\ Increments(g.buffer) \in Int /\ Increments(g.queue) \in Int
    BY <2>1, <2>2, <2>3, IncrementsType
  <2>10. /\ Len(Bytes(f.buffer)) \in Int /\ Len(Bytes(a)) \in Int /\ Len(Bytes(p.input)) \in Int
         /\ Len(FlattenSeq(p.busy)) \in Int
    BY <2>1, <2>2, <2>3, BytesType, LenProperties, PendingBytes
  <2>. DEFINE i1 == Increments(s.input)
              i2 == Increments(b)
              i3 == Increments(g.buffer)
              i4 == Increments(g.queue)
              l1 == Len(Bytes(f.buffer))
              l2 == Len(Bytes(a))
              l3 == Len(Bytes(p.input))
              l4 == Len(FlattenSeq(p.busy))
              u == f.window
              v == f.initialWindow
              r == g.received
              o == Outstanding(e)
  <2>11. /\ (u + l1 + i1 - v) + l2 + (l3 + l4 + r + (i3 + i4)) + i2 = 0
         /\ o = l1 + l2 + l3 + l4 + r + i4 + i3 + i2 + i1
    BY <2>4, <2>5, <2>6, <2>7, <2>8, Zenon
  <2>12. /\ i1 \in Int /\ i2 \in Int /\ i3 \in Int /\ i4 \in Int
         /\ l1 \in Int /\ l2 \in Int /\ l3 \in Int /\ l4 \in Int
         /\ u \in Int /\ v \in Int /\ r \in Int
    BY <2>3, <2>9, <2>10
  <2>13. SUFFICES u + o = v
    BY Zenon DEF s
  <2>. HIDE DEF i1, i2, i3, i4, l1, l2, l3, l4, u, v, r, o
  <2>. QED
    BY <2>11, <2>12
<1>. QED
  BY <1>1, DialogueIsInOrder, PTL

\* When nothing is on its way, one end tells the state of the other.
LEMMA QuietEnds ==
  ASSUME DialogueInv, WaysInv, Quiet, \A e \in Ends : ~stream[e].thrown, NEW e \in Ends
  PROVE  LET s == stream[e] p == stream[Peer(e)]
         IN  /\ s.state \in StateNames
             /\ s.state = "CLOSED" => p.state = "CLOSED"
             /\ s.state = "HALF_CLOSED_LOCAL" => p.state \in {"HALF_CLOSED_REMOTE", "CLOSED"}
             /\ s.state = "HALF_CLOSED_REMOTE" => p.state \in {"HALF_CLOSED_LOCAL", "CLOSED"}
             /\ s.state = "IDLE" => p.state = "IDLE"
<1>. DEFINE o == Peer(e)
            x == Side(e)
            y == Side(o)
            s == stream[e]
            p == stream[o]
<1>1. o \in Ends /\ Typed
  BY PeerEnds DEF WaysInv
<1>2. /\ x.stream = s /\ x.channel = <<>> /\ x.user = user[e] /\ x.said = said[e]
      /\ y.stream = p /\ y.channel = <<>> /\ y.user = user[o] /\ y.said = said[o]
      /\ s \in Streams /\ p \in Streams
  BY <1>1, TypedEnd DEF Quiet
<1>3. /\ s.input = <<>> /\ s.upstream.buffer = <<>> /\ s.upstream.queue = <<>> /\ ~s.thrown
      /\ p.input = <<>> /\ p.upstream.buffer = <<>> /\ p.upstream.queue = <<>> /\ ~p.thrown
  BY <1>1 DEF Quiet
<1>4. Pair(x, y)
  BY PairOfEnds
<1>5. Ahead(x, y) = <<>> /\ Ahead(y, x) = <<>> /\ <<>> \o <<>> = <<>>
  BY <1>2, <1>3 DEF Ahead, Content
<1>. HIDE DEF x, y, s, p, o
<1>6. Own(x) /\ Own(y) /\ Told(x, y, <<>>) /\ Told(y, x, <<>>)
  <2>1. Agreed(x, y)
    BY <1>4 DEF Pair
  <2>2. Own(x) /\ Own(y) /\ Told(x, y, Ahead(x, y)) /\ Told(y, x, Ahead(y, x))
    BY <1>2, <1>3, <2>1 DEF Agreed
  <2>. QED
    BY <1>5, <2>2, Zenon
<1>7. /\ Done(s) => Over(y)
      /\ s.state # "IDLE" => said[o] \/ said[e]
      /\ p.state = "IDLE" => ~said[e]
      /\ s.state = "IDLE" => ~said[o]
      /\ p.state # "IDLE" => said[e] \/ said[o]
  <2>1. /\ WayIs(s, Ahead(y, x), Open(y), Over(y), y.said, x.said, y.wrote, x.got)
        /\ WayIs(p, Ahead(x, y), Open(x), Over(x), x.said, y.said, x.wrote, y.got)
    BY <1>2, <1>4 DEF Pair, Toward, Way
  <2>2. /\ Order(s, <<>>, Open(y), Over(y)) /\ Begin(s, <<>>, <<>>, y.said, x.said)
        /\ Begin(p, <<>>, <<>>, x.said, y.said)
    BY <1>3, <1>5, <2>1, Zenon DEF WayIs
  <2>. QED
    BY <1>2, <2>2, EmptyList DEF Order, Begin
<1>8. (said[e] => s.state # "IDLE") /\ (said[o] => p.state # "IDLE")
  BY <1>1, DialogueFacts DEF s, p
<1>9. /\ Over(x) => p.state \in {"HALF_CLOSED_REMOTE", "CLOSED"}
      /\ s.resetSent => p.state = "CLOSED"
      /\ s.closedWithRst => s.resetSent \/ p.state = "CLOSED"
  BY <1>2, <1>6, EmptyList DEF Told
<1>10. /\ s.state = "HALF_CLOSED_LOCAL" \/ (s.state = "CLOSED" /\ ~s.closedWithRst) => Over(x)
       /\ Over(y) => p.state \in {"HALF_CLOSED_LOCAL", "CLOSED"}
  BY <1>2, <1>6 DEF Own
<1>11. s.state \in StateNames
  BY <1>2, StreamTypes
<1>. QED
  BY <1>7, <1>8, <1>9, <1>10, <1>11 DEF Done, s, p, o

\* When nothing is on its way the two state machines agree, for all windows, limits,
\* chunks and resetters, unless a user got an exception of _transition: each end or
\* reset that one side has made has moved the other in the same way.
THEOREM EndsAgree == Spec => []StatesDual
<1>1. DialogueInv /\ WaysInv => StatesDual
  <2>. SUFFICES ASSUME DialogueInv, WaysInv, Quiet, \A e \in Ends : ~stream[e].thrown
                PROVE  Dual(stream["A"].state) = stream["B"].state
    BY DEF StatesDual
  <2>1. "A" \in Ends /\ "B" \in Ends /\ Peer("A") = "B" /\ Peer("B") = "A"
    BY DEF Ends, Peer
  <2>. DEFINE a == stream["A"].state
              b == stream["B"].state
  <2>2. /\ a \in StateNames
        /\ a = "CLOSED" => b = "CLOSED"
        /\ a = "HALF_CLOSED_LOCAL" => b \in {"HALF_CLOSED_REMOTE", "CLOSED"}
        /\ a = "HALF_CLOSED_REMOTE" => b \in {"HALF_CLOSED_LOCAL", "CLOSED"}
        /\ a = "IDLE" => b = "IDLE"
    BY <2>1, QuietEnds
  <2>3. /\ b \in StateNames
        /\ b = "CLOSED" => a = "CLOSED"
        /\ b = "HALF_CLOSED_LOCAL" => a \in {"HALF_CLOSED_REMOTE", "CLOSED"}
        /\ b = "HALF_CLOSED_REMOTE" => a \in {"HALF_CLOSED_LOCAL", "CLOSED"}
        /\ b = "IDLE" => a = "IDLE"
    BY <2>1, QuietEnds
  <2>. HIDE DEF a, b
  <2>4. Dual(a) = b
    BY <2>2, <2>3 DEF Dual, StateNames
  <2>. QED
    BY <2>4 DEF a, b
<1>. QED
  BY <1>1, DialogueInvariant, DialogueIsInOrder, PTL

-----------------------------------------------------------------------------
(* Errors: what a stream may complain of.                                  *)

\* The stream says no more of the body.
Silent(s) == s.state \in {"HALF_CLOSED_LOCAL", "CLOSED"}

\* As long as its user got no exception, x has ended or reset the stream when what it
\* has sent, L, or the state machine of its peer y says so; nothing of the body follows.
Civil(x, y, L) ==
  ~x.thrown =>
    /\ Some(L, Ending) \/ Shut(y) => Silent(x)
    /\ Shut(y) => ~Some(L, Talk)
    /\ ~Again(L)

\* Headers come once.
Formal(spoke, y, L) ==
  /\ Some(L, Opening) \/ y.processedHeaders => spoke
  /\ y.processedHeaders => ~Some(L, Opening)
  /\ ~Twice(L)

Mannered(x, y, L, spoke) ==
  /\ x \in Streams /\ y \in Streams /\ L \in Seq(Frames) /\ spoke \in BOOLEAN
  /\ Civil(x, y, L)
  /\ Formal(spoke, y, L)

\* What x, which becomes z, may say.
MayTalk(x, z, Y, spoke, spoke2) ==
  /\ Y \in Seq(Frames) /\ ~Again(Y) /\ ~Twice(Y)
  /\ ~z.thrown =>
       /\ ~x.thrown
       /\ Silent(x) => Silent(z)
       /\ Some(Y, Ending) => Silent(z)
       /\ Some(Y, Talk) => ~Silent(x)
  /\ spoke2 \in BOOLEAN
  /\ spoke => spoke2
  /\ Some(Y, Opening) => ~spoke /\ spoke2

\* The manners are kept by one who says what it may say.
LEMMA MannerSays ==
  ASSUME NEW x, NEW y, NEW L, NEW spoke, Mannered(x, y, L, spoke),
         NEW z \in Streams, NEW Y, NEW spoke2, MayTalk(x, z, Y, spoke, spoke2),
         NEW M, Alike(M, L \o Y)
  PROVE  Mannered(z, y, M, spoke2)
<1>1. /\ L \in Seq(Frames) /\ Y \in Seq(Frames) /\ M \in Seq(Frames)
      /\ y \in Streams /\ spoke2 \in BOOLEAN
  BY DEF Mannered, MayTalk, Alike
<1>2. /\ Some(M, Ending) <=> Some(L, Ending) \/ Some(Y, Ending)
      /\ Some(M, Opening) <=> Some(L, Opening) \/ Some(Y, Opening)
      /\ Some(M, Talk) <=> Some(L, Talk) \/ Some(Y, Talk)
  BY <1>1, SomeJoin DEF Alike, SameTalk
<1>3. /\ Again(M) <=> Again(L) \/ Again(Y) \/ (Some(L, Ending) /\ Some(Y, Talk))
      /\ Twice(M) <=> Twice(L) \/ Twice(Y) \/ (Some(L, Opening) /\ Some(Y, Opening))
  <2>1. /\ Again(L \o Y) <=> Again(L) \/ Again(Y) \/ (Some(L, Ending) /\ Some(Y, Talk))
        /\ Twice(L \o Y) <=> Twice(L) \/ Twice(Y) \/ (Some(L, Opening) /\ Some(Y, Opening))
    BY <1>1, AfterJoin DEF Again, Twice
  <2>2. (Again(M) <=> Again(L \o Y)) /\ (Twice(M) <=> Twice(L \o Y))
    BY DEF Alike, SameTalk
  <2>. QED
    BY <2>1, <2>2, Zenon
<1>4. Civil(x, y, L) /\ Formal(spoke, y, L)
  BY DEF Mannered
<1>5. Civil(z, y, M)
  BY <1>2, <1>3, <1>4 DEF Civil, MayTalk
<1>6. Formal(spoke2, y, M)
  BY <1>2, <1>3, <1>4 DEF Formal, MayTalk
<1>. QED
  BY <1>1, <1>5, <1>6 DEF Mannered

\* One who rests keeps them, whatever stands for what it has sent.
LEMMA MannerRests ==
  ASSUME NEW x, NEW y, NEW L, NEW spoke, Mannered(x, y, L, spoke),
         NEW z \in Streams, SameState(x, z), NEW M, Alike(M, L)
  PROVE  Mannered(z, y, M, spoke)
<1>1. L \in Seq(Frames) /\ spoke \in BOOLEAN
  BY DEF Mannered
<1>2. MayTalk(x, z, <<>>, spoke, spoke)
  BY <1>1, EmptyList DEF MayTalk, SameState, Silent, Again, Twice
<1>3. Alike(M, L \o <<>>)
  BY <1>1, JoinEmpty
<1>. QED
  BY <1>2, <1>3, MannerSays

\* So does one who ends with a mark.
LEMMA MannerMarked ==
  ASSUME NEW x, NEW y, NEW L, NEW spoke, Mannered(x, y, L, spoke),
         NEW z \in Streams, ~z.thrown => ~x.thrown /\ Silent(z),
         NEW M, Marked(L, M)
  PROVE  Mannered(z, y, M, spoke)
<1>1. M \in Seq(Frames) /\ y \in Streams /\ spoke \in BOOLEAN
  BY DEF Mannered, Marked
<1>2. /\ Some(L, Opening) <=> Some(M, Opening)
      /\ Some(L, Talk) <=> Some(M, Talk)
      /\ Again(L) <=> Again(M)
      /\ Twice(L) <=> Twice(M)
  BY DEF Marked, SameTalk
<1>3. Civil(z, y, M)
  BY <1>2 DEF Mannered, Civil
<1>4. Formal(spoke, y, M)
  BY <1>2 DEF Mannered, Formal
<1>. QED
  BY <1>1, <1>3, <1>4 DEF Mannered

\* The peer hears the first frame.
LEMMA MannerHears ==
  ASSUME NEW x, NEW y, NEW f \in Frames, NEW L \in Seq(Frames), NEW spoke,
         Mannered(x, y, <<f>> \o L, spoke), NEW t \in Streams, HearsState(y, t, f),
         t.processedHeaders <=> y.processedHeaders \/ f.type = "HEADERS"
  PROVE  Mannered(x, t, L, spoke)
<1>. DEFINE N == <<f>> \o L
<1>1. /\ f.end \/ f.type = "RST_STREAM" <=> f \in Ending
      /\ f.type = "HEADERS" <=> f \in Opening
  BY DEF Ending, Ended, Resets, Opening
<1>2. <<f>> \in Seq(Frames) /\ \A S : Some(<<f>>, S) <=> f \in S
  BY OneFrame
<1>3. \A S : Some(N, S) <=> f \in S \/ Some(L, S)
  BY <1>2, SomeJoin
<1>4. /\ Again(L) \/ (f \in Ending /\ Some(L, Talk)) => Again(N)
      /\ Twice(L) \/ (f \in Opening /\ Some(L, Opening)) => Twice(N)
  BY <1>2, AfterJoin DEF Again, Twice
<1>. HIDE DEF N
<1>5. Civil(x, y, N) /\ Formal(spoke, y, N) /\ x \in Streams /\ spoke \in BOOLEAN
  BY DEF Mannered, N
<1>6. Shut(t) => Shut(y) \/ f \in Ending
  BY <1>1 DEF HearsState
<1>7. Civil(x, t, L)
  BY <1>3, <1>4, <1>5, <1>6 DEF Civil
<1>8. Formal(spoke, t, L)
  BY <1>1, <1>3, <1>4, <1>5 DEF Formal
<1>. QED
  BY <1>5, <1>7, <1>8 DEF Mannered

\* The peer turns without hearing.
LEMMA MannerUnheard ==
  ASSUME NEW x, NEW y, NEW L, NEW spoke, Mannered(x, y, L, spoke),
         NEW t \in Streams, Shut(t) => Shut(y), t.processedHeaders = y.processedHeaders
  PROVE  Mannered(x, t, L, spoke)
BY DEF Mannered, Civil, Formal


\* What e has sent and its peer has not been given.
Line(e) == channel[Peer(e)] \o Content(stream[e].upstream)

Manners == \A e \in Ends : Mannered(stream[e], stream[Peer(e)], Line(e), said[e])

\* A stream of which nobody has spoken.
Fresh(s) == Content(s.upstream) = <<>> /\ Held(s) = 0 /\ ~s.processedHeaders

\* A opens the stream: what B hears first is headers.
Opened ==
  /\ \A e \in Ends :
       stream[e].state = "IDLE" => Fresh(stream[e]) /\ channel[Peer(e)] = <<>>
  /\ stream["A"].state = "IDLE" => stream["B"].state = "IDLE"
  /\ stream["B"].state = "IDLE" /\ stream["A"].state # "IDLE" =>
       Leads(channel["B"] \o stream["A"].upstream.buffer)

Polite == Manners /\ Opened

\* The manners of the two ends make those of the dialogue.
LEMMA MannersMade ==
  ASSUME NEW e \in Ends,
         Mannered(stream'[e], stream'[Peer(e)],
                  channel'[Peer(e)] \o Content(stream'[e].upstream), said'[e]),
         Mannered(stream'[Peer(e)], stream'[e],
                  channel'[e] \o Content(stream'[Peer(e)].upstream), said'[Peer(e)])
  PROVE  Manners'
<1>. SUFFICES ASSUME NEW d \in Ends
              PROVE  Mannered(stream'[d], stream'[Peer(d)],
                              channel'[Peer(d)] \o Content(stream'[d].upstream), said'[d])
  BY DEF Manners, Line
<1>1. (d = e \/ d = Peer(e)) /\ Peer(Peer(e)) = e
  BY PeerEnds
<1>2. CASE d = e
  BY <1>2, Zenon
<1>3. CASE d = Peer(e)
  BY <1>1, <1>3, Zenon
<1>. QED
  BY <1>1, <1>2, <1>3

\* The manners of one end and of its peer.
LEMMA MannersOf ==
  ASSUME Manners, NEW e \in Ends
  PROVE  LET p == Peer(e)
         IN  /\ Mannered(stream[e], stream[p], channel[p] \o Content(stream[e].upstream), said[e])
             /\ Mannered(stream[p], stream[e], channel[e] \o Content(stream[p].upstream), said[p])
<1>. DEFINE p == Peer(e)
<1>1. p \in Ends /\ Peer(p) = e
  BY PeerEnds
<1>2. Mannered(stream[e], stream[p], channel[p] \o Content(stream[e].upstream), said[e])
  BY DEF Manners, Line
<1>3. Mannered(stream[p], stream[Peer(p)], channel[Peer(p)] \o Content(stream[p].upstream), said[p])
  BY <1>1, Zenon DEF Manners, Line
<1>. QED
  BY <1>1, <1>2, <1>3, Zenon

\* Both ends are open, or B waits for the headers that A has sent.
LEMMA OpenedBoth ==
  ASSUME NEW e \in Ends, stream'[e].state # "IDLE", stream'[Peer(e)].state # "IDLE"
  PROVE  Opened'
<1>1. /\ stream'["A"].state # "IDLE" /\ stream'["B"].state # "IDLE"
      /\ \A d \in Ends : stream'[d].state # "IDLE"
  BY PeerEnds
<1>. QED
  BY <1>1 DEF Opened

\* The streams and the channels after a turn of e.
TurnOf(e, t, b) ==
  /\ stream' = [stream EXCEPT ![e] = t] /\ channel' = channel
  /\ said' = [said EXCEPT ![e] = b]

\* What the turn leaves.
LEMMA TurnValues ==
  ASSUME Typed, NEW e \in Ends, NEW t, NEW b, TurnOf(e, t, b)
  PROVE  /\ stream'[e] = t /\ stream'[Peer(e)] = stream[Peer(e)]
         /\ said'[e] = b /\ said'[Peer(e)] = said[Peer(e)] /\ channel' = channel
         /\ Peer(e) \in Ends
BY PeerEnds DEF Typed, TurnOf

\* A turn in which nobody opens the stream but A, with headers.
LEMMA OpenedTurn ==
  ASSUME Typed, Opened, NEW e \in Ends, NEW t \in Streams, NEW b, TurnOf(e, t, b),
         NEW Y \in Seq(Frames), Orderly(stream[e].upstream, t.upstream, Y),
         Held(t) = Held(stream[e]), t.processedHeaders = stream[e].processedHeaders,
         t.state = "IDLE" => stream[e].state = "IDLE" /\ Y = <<>>,
         stream[e].state = "IDLE" /\ t.state # "IDLE" => e = "A" /\ Leads(Y)
  PROVE  Opened'
<1>. DEFINE s == stream[e]
            p == Peer(e)
<1>0. /\ stream'[e] = t /\ stream'[p] = stream[p] /\ channel' = channel /\ p \in Ends
  BY TurnValues
<1>1. (e = "A" /\ p = "B") \/ (e = "B" /\ p = "A")
  BY PeerEnds
<1>2. \A d \in Ends : d = e \/ d = p
  BY PeerEnds
<1>3. t.state = "IDLE" => Fresh(t) /\ channel[p] = <<>> /\ s.state = "IDLE"
  <2>. SUFFICES ASSUME t.state = "IDLE" PROVE Fresh(t) /\ channel[p] = <<>> /\ s.state = "IDLE"
    OBVIOUS
  <2>1. s.state = "IDLE" /\ Y = <<>> /\ Fresh(s) /\ channel[p] = <<>>
    BY DEF Opened
  <2>2. Content(t.upstream) = <<>>
    BY <2>1 DEF Orderly, Fresh
  <2>. QED
    BY <2>1, <2>2 DEF Fresh
<1>. HIDE DEF p
<1>4. ASSUME NEW d \in Ends, stream'[d].state = "IDLE"
      PROVE  Fresh(stream'[d]) /\ channel[Peer(d)] = <<>>
  <2>1. CASE d = e
    BY <1>0, <1>3, <1>4, <2>1 DEF p
  <2>2. CASE d = p
    <3>1. stream[d].state = "IDLE" /\ stream'[d] = stream[d]
      BY <1>0, <1>4, <2>2
    <3>. QED
      BY <3>1 DEF Opened
  <2>. QED
    BY <1>2, <2>1, <2>2
<1>5. CASE e = "A" /\ p = "B"
  <2>1. t.state = "IDLE" => stream[p].state = "IDLE"
    BY <1>3, <1>5 DEF Opened
  <2>2. ASSUME stream[p].state = "IDLE", t.state # "IDLE"
        PROVE  Leads(channel[p] \o t.upstream.buffer)
    <3>1. channel[p] \in Seq(Frames) /\ s \in Streams /\ p \in Ends
      BY <1>0, TypedEnd
    <3>2. s.upstream.buffer \in Seq(Frames) /\ t.upstream.buffer \in Seq(Frames)
      BY <3>1, StreamTypes, FlowTypes
    <3>3. CASE s.state = "IDLE"
      <4>1. channel[p] = <<>> /\ Content(s.upstream) = <<>> /\ Leads(Y)
        BY <2>2, <3>3 DEF Opened, Fresh, p
      <4>2. Leads(t.upstream.buffer)
        BY <4>1 DEF Orderly
      <4>3. channel[p] \o t.upstream.buffer = t.upstream.buffer
        BY <3>1, <3>2, <4>1, LeadsOn
      <4>. QED
        BY <4>2, <4>3, Zenon
    <3>4. CASE s.state # "IDLE"
      <4>1. Leads(channel[p] \o s.upstream.buffer)
        BY <1>5, <2>2, <3>4 DEF Opened
      <4>2. CASE channel[p] = <<>>
        <5>1. Leads(s.upstream.buffer)
          BY <3>1, <3>2, <4>1, <4>2, LeadsOn
        <5>2. Leads(t.upstream.buffer)
          BY <5>1 DEF Orderly
        <5>3. channel[p] \o t.upstream.buffer = t.upstream.buffer
          BY <3>1, <3>2, <4>2, LeadsOn
        <5>. QED
          BY <5>2, <5>3, Zenon
      <4>3. CASE channel[p] # <<>>
        <5>1. Leads(channel[p])
          BY <3>1, <3>2, <4>1, <4>3, LeadsOn
        <5>. QED
          BY <3>1, <3>2, <5>1, LeadsOn
      <4>. QED
        BY <4>2, <4>3
    <3>. QED
      BY <3>3, <3>4
  <2>. QED
    BY <1>0, <1>4, <1>5, <2>1, <2>2 DEF Opened
<1>6. CASE e = "B" /\ p = "A"
  <2>1. t.state = "IDLE" <=> s.state = "IDLE"
    BY <1>3, <1>6
  <2>2. stream[p].state = "IDLE" => t.state = "IDLE"
    BY <1>6, <2>1 DEF Opened
  <2>3. ASSUME t.state = "IDLE", stream[p].state # "IDLE"
        PROVE  Leads(channel["B"] \o stream["A"].upstream.buffer)
    BY <1>6, <2>1, <2>3 DEF Opened
  <2>. QED
    BY <1>0, <1>4, <1>6, <2>1, <2>2, <2>3 DEF Opened
<1>. QED
  BY <1>1, <1>5, <1>6

\* What the stream has to send grows by Y.
Speaks(s, t, Y) ==
  /\ s \in Streams /\ t \in Streams /\ Y \in Seq(Frames)
  /\ Alike(Content(t.upstream), Content(s.upstream) \o Y)
  /\ Held(t) = Held(s)
  /\ Orderly(s.upstream, t.upstream, Y)

\* So it does in a turn without hearing.
LEMMA TurnSpeaks == ASSUME NEW s, NEW t, NEW Y, Turns(s, t, <<>>, Y) PROVE Speaks(s, t, Y)
<1>1. /\ Alike(Content(t.upstream), Content(s.upstream) \o Y) /\ Y \in Seq(Frames)
      /\ Held(t) = Held(s) + Len(Bytes(<<>>)) /\ Orderly(s.upstream, t.upstream, Y)
      /\ s \in Streams /\ t \in Streams
  BY DEF Turns
<1>2. Len(Bytes(<<>>)) = 0 /\ Held(s) \in Int
  BY <1>1, EmptyList, EmptySeq, StreamNumbers
<1>. QED
  BY <1>1, <1>2 DEF Speaks

\* A turn in which e says Y.
LEMMA TurnIsPolite ==
  ASSUME Typed, Polite, NEW e \in Ends, NEW t \in Streams, NEW b, TurnOf(e, t, b),
         NEW Y, Speaks(stream[e], t, Y), MayTalk(stream[e], t, Y, said[e], b),
         Shut(t) => Shut(stream[e]), t.processedHeaders = stream[e].processedHeaders,
         t.state = "IDLE" => stream[e].state = "IDLE" /\ Y = <<>>,
         stream[e].state = "IDLE" /\ t.state # "IDLE" => e = "A" /\ Leads(Y)
  PROVE  Polite'
<1>. DEFINE s == stream[e]
            p == Peer(e)
            q == stream[p]
<1>1. /\ stream'[e] = t /\ stream'[p] = q /\ channel' = channel
      /\ said'[e] = b /\ said'[p] = said[p] /\ p \in Ends
  BY TurnValues
<1>2. /\ Alike(Content(t.upstream), Content(s.upstream) \o Y) /\ Y \in Seq(Frames)
      /\ Held(t) = Held(s) /\ Orderly(s.upstream, t.upstream, Y) /\ s \in Streams
  BY DEF Speaks
<1>3. Opened'
  BY <1>2, OpenedTurn DEF Polite
<1>4. /\ Mannered(s, q, channel[p] \o Content(s.upstream), said[e])
      /\ Mannered(q, s, channel[e] \o Content(q.upstream), said[p])
  BY MannersOf DEF Polite
<1>. HIDE DEF s, p, q
<1>5. Mannered(t, q, channel[p] \o Content(t.upstream), b)
  <2>1. channel[p] \in Seq(Frames) /\ Content(s.upstream) \in Seq(Frames)
    BY <1>1, <1>2, TypedEnd, StreamTypes
  <2>2. Alike(channel[p] \o Content(t.upstream), channel[p] \o (Content(s.upstream) \o Y))
    BY <1>2, <2>1, AlikeSelf, AlikeJoin
  <2>3. channel[p] \o (Content(s.upstream) \o Y) = (channel[p] \o Content(s.upstream)) \o Y
    BY <1>2, <2>1, JoinAssociative
  <2>4. Alike(channel[p] \o Content(t.upstream), (channel[p] \o Content(s.upstream)) \o Y)
    BY <2>2, <2>3, Zenon
  <2>. QED
    BY <1>4, <2>4, MannerSays DEF s
<1>6. Mannered(q, t, channel[e] \o Content(q.upstream), said[p])
  BY <1>4, MannerUnheard DEF s
<1>7. Manners'
  BY <1>1, <1>5, <1>6, MannersMade DEF p
<1>. QED
  BY <1>3, <1>7 DEF Polite

\* A turn in which e says nothing.
LEMMA RestIsPolite ==
  ASSUME Typed, Polite, NEW e \in Ends, NEW t, TurnOf(e, t, said[e]),
         Speaks(stream[e], t, <<>>), SameState(stream[e], t),
         t.processedHeaders = stream[e].processedHeaders
  PROVE  Polite'
<1>1. t \in Streams /\ said[e] \in BOOLEAN
  BY TypedEnd DEF Speaks
<1>2. MayTalk(stream[e], t, <<>>, said[e], said[e])
  BY <1>1, EmptyList DEF MayTalk, SameState, Silent, Again, Twice
<1>3. (Shut(t) => Shut(stream[e])) /\ t.state = stream[e].state
  BY DEF Shut, SameState
<1>. QED
  BY <1>1, <1>2, <1>3, TurnIsPolite


\* A turn of the event loop is a turn of the stream.
LEMMA TurnMade ==
  ASSUME Typed, NEW e \in Ends, NEW s, Becomes(e, s), UNCHANGED <<channel, said>>
  PROVE  TurnOf(e, EndTurn(s), said[e])
BY StaysAll DEF TurnOf, Becomes

\* The first headers of A open the stream; those of B come when it is open.
LEMMA SendHeadersPolite ==
  ASSUME DialogueInv, WaysInv, Polite, NEW e \in Ends, SendHeaders(e)
  PROVE  Polite'
<1>. DEFINE s == stream[e]
            t == EndTurn(Headers(s))
<1>1. Typed /\ s \in Streams /\ said[e] = FALSE
  BY TypedEnd DEF WaysInv, SendHeaders
<1>2. /\ SaysState(s, t) /\ Spoken(s, t, "HEADERS", FALSE)
      /\ \E y \in Opening : Turns(s, t, <<>>, <<y>>) /\ y.data = <<>> /\ ~y.end
  BY <1>1, DialogueFacts, HeadersTurns
<1>3. TurnOf(e, t, TRUE)
  BY DEF SendHeaders, Becomes, TurnOf
<1>4. DialogueInv' /\ said'[e] /\ stream'[e] = t
  <2>1. DialogueInv'
    BY NextKeeps DEF Next
  <2>. QED
    BY <1>1, <1>3, <2>1, TurnValues
<1>5. t.state # "IDLE"
  BY <1>4 DEF DialogueInv, EndInv
<1>. HIDE DEF t
<1>6. PICK y \in Opening : Turns(s, t, <<>>, <<y>>) /\ y.data = <<>> /\ ~y.end
  BY <1>2
<1>7. /\ y \in Frames /\ y \notin Ending /\ <<y>> \in Seq(Frames) /\ t \in Streams
      /\ ~Again(<<y>>) /\ ~Twice(<<y>>) /\ ~Some(<<y>>, Ending) /\ Leads(<<y>>)
  <2>1. y \in Frames /\ y \notin Ending
    BY <1>6 DEF Opening, Ending, Ended, Resets
  <2>. QED
    BY <1>6, <2>1, OneFrame, LeadsOne DEF Again, Twice, Turns
<1>8. MayTalk(s, t, <<y>>, said[e], TRUE)
  BY <1>1, <1>2, <1>7 DEF MayTalk, Spoken, Silent
<1>9. s.state = "IDLE" => e = "A"
  <2>1. s.state = "IDLE" => ~s.processedHeaders
    BY DEF Polite, Opened, Fresh
  <2>. QED
    BY <2>1 DEF SendHeaders
<1>10. /\ Speaks(s, t, <<y>>) /\ (Shut(t) => Shut(s))
       /\ t.processedHeaders = s.processedHeaders
  BY <1>2, <1>6, TurnSpeaks DEF SaysState
<1>. QED
  BY <1>1, <1>3, <1>5, <1>7, <1>8, <1>9, <1>10, TurnIsPolite

\* The user's DATA comes before its end.
LEMMA WriteChunkPolite ==
  ASSUME DialogueInv, WaysInv, Polite, NEW e \in Ends, NEW k \in Nat, WriteChunk(e, k)
  PROVE  Polite'
<1>. DEFINE s == stream[e]
            d == [i \in 1 .. k |-> wrote[e] + i]
            t == EndTurn(Write(s, d))
<1>1. Typed /\ s \in Streams /\ said[e] = TRUE /\ wrote[e] \in Nat
  BY TypedEnd DEF WaysInv, WriteChunk
<1>2. d = Interval(wrote[e], wrote[e] + k) /\ d \in Seq(Octet)
  BY <1>1, IntervalPiece
<1>3. Becomes(e, Write(s, d)) /\ UNCHANGED <<channel, said>>
  BY DEF WriteChunk
<1>. HIDE DEF d
<1>4. TurnOf(e, t, said[e])
  BY <1>1, <1>3, TurnMade
<1>5. /\ SaysState(s, t) /\ Spoken(s, t, "DATA", FALSE)
      /\ \E y \in Frames :
           Turns(s, t, <<>>, <<y>>) /\ y.data = d /\ ~y.end /\ y.type = "DATA"
  BY <1>1, <1>2, DialogueFacts, WriteTurns
<1>. HIDE DEF t
<1>6. PICK y \in Frames : Turns(s, t, <<>>, <<y>>) /\ ~y.end /\ y.type = "DATA"
  BY <1>5
<1>7. /\ <<y>> \in Seq(Frames) /\ t \in Streams
      /\ ~Again(<<y>>) /\ ~Twice(<<y>>) /\ ~Some(<<y>>, Ending) /\ ~Some(<<y>>, Opening)
  <2>1. y \notin Ending /\ y \notin Opening
    BY <1>6 DEF Opening, Ending, Ended, Resets
  <2>. QED
    BY <1>6, <2>1, OneFrame DEF Again, Twice, Turns
<1>8. MayTalk(s, t, <<y>>, said[e], said[e])
  BY <1>1, <1>5, <1>7 DEF MayTalk, Spoken, Silent
<1>9. s.state # "IDLE" /\ (t.state = "IDLE" => s.state = "IDLE")
  BY <1>1, <1>5, DialogueFacts DEF SaysState
<1>10. /\ Speaks(s, t, <<y>>) /\ (Shut(t) => Shut(s))
       /\ t.processedHeaders = s.processedHeaders
  BY <1>5, <1>6, TurnSpeaks DEF SaysState
<1>. QED
  BY <1>1, <1>4, <1>7, <1>8, <1>9, <1>10, TurnIsPolite

\* The end closes the side of the user, as a mark or as a frame.
LEMMA FinishPolite ==
  ASSUME DialogueInv, WaysInv, Polite, NEW e \in Ends, Finish(e)
  PROVE  Polite'
<1>. DEFINE s == stream[e]
            p == Peer(e)
            q == stream[p]
            t == EndTurn(Finishing(s))
<1>1. Typed /\ s \in Streams /\ channel[e] \in Seq(Frames) /\ p \in Ends /\ channel[p] \in Seq(Frames)
  <2>1. Typed /\ p \in Ends
    BY PeerEnds DEF WaysInv
  <2>. QED
    BY <2>1, TypedEnd
<1>2. said[e] = TRUE
  BY <1>1, DialogueFacts, TypedEnd DEF Finish
<1>3. Becomes(e, Finishing(s)) /\ UNCHANGED <<channel, said>>
  BY DEF Finish
<1>4. TurnOf(e, t, said[e])
  BY <1>1, <1>3, TurnMade
<1>5. /\ SaysState(s, t) /\ Spoken(s, t, "DATA", TRUE)
      /\ \/ EndMarked(s, t)
         \/ \E y \in Ended : Turns(s, t, <<>>, <<y>>) /\ y.data = <<>> /\ y.type = "DATA"
  BY <1>1, DialogueFacts, FinishTurns
<1>. HIDE DEF t
<1>6. s.state # "IDLE" /\ (t.state = "IDLE" => s.state = "IDLE")
  BY <1>2, <1>5, DialogueFacts DEF SaysState
<1>7. ~t.thrown => ~s.thrown /\ ~Silent(s) /\ Silent(t)
  BY <1>5 DEF Spoken, Silent
<1>8. CASE EndMarked(s, t)
  <2>1. /\ t \in Streams /\ Held(t) = Held(s) /\ Orderly(s.upstream, t.upstream, <<>>)
        /\ \E M : Marked(Content(s.upstream), M) /\ Alike(Content(t.upstream), M)
    BY <1>8 DEF EndMarked
  <2>2. Opened'
    <3>1. t.state # "IDLE" /\ t.processedHeaders = s.processedHeaders /\ <<>> \in Seq(Frames)
      BY <1>5, <1>6, EmptyList DEF SaysState
    <3>. QED
      BY <1>1, <1>4, <1>6, <2>1, <3>1, OpenedTurn DEF Polite
  <2>3. /\ stream'[e] = t /\ stream'[p] = q /\ channel' = channel
        /\ said'[e] = said[e] /\ said'[p] = said[p]
    BY <1>1, <1>4, TurnValues
  <2>4. /\ Mannered(s, q, channel[p] \o Content(s.upstream), said[e])
        /\ Mannered(q, s, channel[e] \o Content(q.upstream), said[p])
    BY MannersOf DEF Polite
  <2>. HIDE DEF s, p, q
  <2>5. PICK M : Marked(Content(s.upstream), M) /\ Alike(Content(t.upstream), M)
    BY <2>1
  <2>6. Mannered(t, q, channel[p] \o M, said[e])
    <3>1. Marked(channel[p] \o Content(s.upstream), channel[p] \o M)
      BY <1>1, <2>5, MarkedJoin
    <3>. QED
      BY <1>7, <2>1, <2>4, <3>1, MannerMarked
  <2>7. Mannered(t, q, channel[p] \o Content(t.upstream), said[e])
    <3>1. Alike(channel[p] \o Content(t.upstream), channel[p] \o M)
      BY <1>1, <2>5, AlikeSelf, AlikeJoin
    <3>2. SameState(t, t)
      BY DEF SameState
    <3>. QED
      BY <2>1, <2>6, <3>1, <3>2, MannerRests
  <2>8. Mannered(q, t, channel[e] \o Content(q.upstream), said[p])
    BY <1>5, <2>1, <2>4, MannerUnheard DEF SaysState
  <2>9. Manners'
    BY <2>3, <2>7, <2>8, MannersMade DEF p
  <2>. QED
    BY <2>2, <2>9 DEF Polite
<1>9. ASSUME NEW y \in Ended, Turns(s, t, <<>>, <<y>>), y.data = <<>>, y.type = "DATA"
      PROVE  Polite'
  <2>1. /\ <<y>> \in Seq(Frames) /\ t \in Streams
        /\ ~Again(<<y>>) /\ ~Twice(<<y>>) /\ ~Some(<<y>>, Opening)
    <3>1. y \in Frames /\ y \notin Opening
      BY <1>9 DEF Opening, Ended
    <3>. QED
      BY <1>9, <3>1, OneFrame DEF Again, Twice, Turns
  <2>2. MayTalk(s, t, <<y>>, said[e], said[e])
    BY <1>2, <1>7, <2>1 DEF MayTalk
  <2>3. /\ Speaks(s, t, <<y>>) /\ (Shut(t) => Shut(s))
        /\ t.processedHeaders = s.processedHeaders
    BY <1>5, <1>9, TurnSpeaks DEF SaysState
  <2>. QED
    BY <1>1, <1>4, <1>6, <2>1, <2>2, <2>3, TurnIsPolite
<1>. QED
  BY <1>5, <1>8, <1>9

\* A reset closes both sides.
LEMMA ResetPolite ==
  ASSUME DialogueInv, WaysInv, Polite, NEW e \in Ends, ResetStream(e)
  PROVE  Polite'
<1>. DEFINE s == stream[e]
            t == EndTurn(Reset(s))
<1>1. Typed /\ s \in Streams /\ said[e] = TRUE /\ ~s.resetSent
  BY TypedEnd DEF WaysInv, ResetStream
<1>2. Becomes(e, Reset(s)) /\ UNCHANGED <<channel, said>>
  BY DEF ResetStream
<1>3. TurnOf(e, t, said[e])
  BY <1>1, <1>2, TurnMade
<1>4. /\ Spoken(s, t, "RST_STREAM", FALSE) /\ (Shut(t) => Shut(s))
      /\ (t.state = "IDLE" => s.state = "IDLE") /\ t.processedHeaders = s.processedHeaders
      /\ \E y \in Resets : Turns(s, t, <<>>, <<y>>) /\ y.data = <<>> /\ ~y.end
  BY <1>1, DialogueFacts, ResetTurns
<1>. HIDE DEF t
<1>5. PICK y \in Resets : Turns(s, t, <<>>, <<y>>) /\ y.data = <<>> /\ ~y.end
  BY <1>4
<1>6. /\ <<y>> \in Seq(Frames) /\ t \in Streams
      /\ ~Again(<<y>>) /\ ~Twice(<<y>>) /\ ~Some(<<y>>, Opening) /\ ~Some(<<y>>, Talk)
  <2>1. y \in Frames /\ y \notin Opening /\ y \notin Talk
    BY <1>5 DEF Opening, Resets, Talk
  <2>. QED
    BY <1>5, <2>1, OneFrame DEF Again, Twice, Turns
<1>7. MayTalk(s, t, <<y>>, said[e], said[e])
  BY <1>1, <1>4, <1>6 DEF MayTalk, Spoken, Silent
<1>8. s.state # "IDLE"
  BY <1>1, DialogueFacts
<1>9. Speaks(s, t, <<y>>)
  BY <1>5, TurnSpeaks
<1>. QED
  BY <1>1, <1>3, <1>4, <1>6, <1>7, <1>8, <1>9, TurnIsPolite


\* What the user reads is no business of its peer.
LEMMA ReadBodyPolite ==
  ASSUME WaysInv, Polite, NEW e \in Ends, ReadBody(e)
  PROVE  Polite'
<1>. DEFINE s == stream[e]
            r == Readied(s)
            z == [r EXCEPT !.user = <<>>]
            t == EndTurn(UserRead(s))
<1>1. Typed /\ s \in Streams
  BY TypedEnd DEF WaysInv
<1>2. Becomes(e, UserRead(s)) /\ UNCHANGED <<channel, said>>
  BY DEF ReadBody
<1>3. TurnOf(e, t, said[e])
  BY <1>1, <1>2, TurnMade
<1>4. /\ Turns(s, r, <<>>, <<>>) /\ SameState(s, r)
      /\ SameState(r, z) /\ z.input = r.input /\ z.upstream = r.upstream /\ z.busy = r.busy
      /\ Turns(z, t, <<>>, <<>>) /\ SameState(z, t) /\ Calm(s, t, <<>>)
  BY <1>1, UserReadTurns
<1>. HIDE DEF r, z, t
<1>5. SameState(s, t) /\ t.processedHeaders = s.processedHeaders
  BY <1>4 DEF SameState, Calm
<1>6. Speaks(s, r, <<>>) /\ Speaks(z, t, <<>>)
  BY <1>4, TurnSpeaks
<1>7. Speaks(s, t, <<>>)
  <2>1. Held(t) = Held(s)
    BY <1>4, <1>6 DEF Speaks, Held
  <2>2. Orderly(s.upstream, t.upstream, <<>>)
    <3>1. Orderly(s.upstream, r.upstream, <<>>) /\ Orderly(r.upstream, t.upstream, <<>>)
      BY <1>4, <1>6 DEF Speaks
    <3>2. <<>> \o <<>> = <<>> /\ <<>> \in Seq(Frames)
      BY EmptyList, JoinEmpty
    <3>3. Orderly(s.upstream, t.upstream, <<>> \o <<>>)
      BY <3>1, <3>2, OrderlyChain
    <3>. QED
      BY <3>2, <3>3, Zenon
  <2>3. Alike(Content(t.upstream), Content(s.upstream) \o <<>>)
    <3>1. /\ Alike(Content(r.upstream), Content(s.upstream) \o <<>>)
          /\ Alike(Content(t.upstream), Content(r.upstream) \o <<>>)
      BY <1>4, <1>6 DEF Speaks
    <3>2. Content(r.upstream) \in Seq(Frames)
      BY <3>1 DEF Alike
    <3>3. Content(r.upstream) \o <<>> = Content(r.upstream)
      BY <3>2, JoinEmpty
    <3>4. Alike(Content(t.upstream), Content(r.upstream))
      BY <3>1, <3>3, Zenon
    <3>. QED
      BY <3>1, <3>4, AlikeChain
  <2>. QED
    BY <1>6, <2>1, <2>2, <2>3, EmptyList DEF Speaks
<1>. QED
  BY <1>1, <1>3, <1>5, <1>7, RestIsPolite

\* A stream that holds nothing has received nothing.
LEMMA HoldsNothing ==
  ASSUME NEW s \in Streams, Held(s) = 0
  PROVE  s.upstream.received = 0
<1>1. s.upstream \in Flows /\ s.input \in Seq(Frames) /\ s.busy \in Pending
  BY StreamTypes
<1>2. s.upstream.received \in Nat /\ Increments(Content(s.upstream)) \in Nat
  BY <1>1, FlowTypes, IncrementsNat
<1>3. Len(Bytes(s.input)) \in Nat /\ Len(FlattenSeq(s.busy)) \in Nat
  BY <1>1, BytesType, LenProperties, PendingBytes
<1>. DEFINE a == Len(Bytes(s.input))
            b == Len(FlattenSeq(s.busy))
            c == s.upstream.received
            d == Increments(Content(s.upstream))
<1>4. a + b + c + d = 0
  BY Zenon DEF Held
<1>5. a \in Nat /\ b \in Nat /\ c \in Nat /\ d \in Nat
  BY <1>2, <1>3
<1>. HIDE DEF a, b, c, d
<1>6. c = 0
  BY <1>4, <1>5
<1>. QED
  BY <1>6 DEF c

\* A stream gives back what it received, and nothing before it is open.
LEMMA RestorePolite ==
  ASSUME WaysInv, Polite, NEW e \in Ends, Restore(e)
  PROVE  Polite'
<1>. DEFINE s == stream[e]
            r == [s EXCEPT !.upstream = RestoreWindow(@)]
            t == EndTurn(r)
<1>1. Typed /\ s \in Streams /\ said[e] \in BOOLEAN
  BY TypedEnd DEF WaysInv
<1>2. Becomes(e, r) /\ UNCHANGED <<channel, said>>
  BY DEF Restore
<1>3. TurnOf(e, t, said[e])
  BY <1>1, <1>2, TurnMade
<1>4. /\ SameState(s, t) /\ t.processedHeaders = s.processedHeaders
      /\ \E Y : /\ Harmless(Y) /\ Turns(s, t, <<>>, Y)
                /\ s.upstream.received = 0 => Y = <<>>
  BY <1>1, RestoreTurns
<1>. HIDE DEF r, t
<1>5. PICK Y : /\ Harmless(Y) /\ Turns(s, t, <<>>, Y)
               /\ s.upstream.received = 0 => Y = <<>>
  BY <1>4
<1>6. /\ Y \in Seq(Frames) /\ t \in Streams /\ ~Again(Y) /\ ~Twice(Y)
      /\ ~Some(Y, Ending) /\ ~Some(Y, Opening) /\ ~Some(Y, Talk)
  BY <1>5, EmptyList DEF Harmless, Marks, SameTalk, Turns, Again, Twice
<1>7. MayTalk(s, t, Y, said[e], said[e])
  BY <1>1, <1>4, <1>6 DEF MayTalk, SameState, Silent
<1>8. t.state = s.state /\ (Shut(t) => Shut(s))
  BY <1>4 DEF Shut, SameState
<1>9. s.state = "IDLE" => Y = <<>>
  <2>1. s.state = "IDLE" => Held(s) = 0
    BY DEF Polite, Opened, Fresh
  <2>. QED
    BY <1>1, <1>5, <2>1, HoldsNothing
<1>10. Speaks(s, t, Y)
  BY <1>5, TurnSpeaks
<1>. QED
  BY <1>1, <1>3, <1>4, <1>6, <1>7, <1>8, <1>9, <1>10, TurnIsPolite

\* SETTINGS say nothing on the stream.
LEMMA ChangeWindowPolite ==
  ASSUME WaysInv, Polite, NEW e \in Ends, NEW size \in Int, ChangeWindow(e, size)
  PROVE  Polite'
<1>. DEFINE s == stream[e]
            r == Send([s EXCEPT !.upstream = SetInitialWindow(@, size)])
            t == EndTurn(r)
<1>1. Typed /\ s \in Streams
  BY TypedEnd DEF WaysInv
<1>2. Becomes(e, r) /\ UNCHANGED <<channel, said>>
  BY DEF ChangeWindow
<1>3. TurnOf(e, t, said[e])
  BY <1>1, <1>2, TurnMade
<1>4. /\ SameState(s, t) /\ t.processedHeaders = s.processedHeaders /\ Turns(s, t, <<>>, <<>>)
  BY <1>1, SettingsTurns
<1>. HIDE DEF r, t
<1>. QED
  BY <1>1, <1>3, <1>4, TurnSpeaks, RestIsPolite

\* end() moves neither the streams nor the channels.
LEMMA UnmovedPolite ==
  ASSUME Polite, UNCHANGED <<stream, channel, said>>
  PROVE  Polite'
BY DEF Polite, Manners, Opened, Line

\* A frame leaves the flow for the channel in its turn.
LEMMA ForwardPolite ==
  ASSUME WaysInv, Polite, NEW e \in Ends, NEW limit \in Nat \ {0}, Forward(e, limit)
  PROVE  Polite'
<1>. DEFINE p == Peer(e)
            s == stream[e]
            q == stream[p]
            f == Polled(s.upstream)
            found == f.buffer # <<>>
            y == TakeFrame(f, limit).frame
            r == Send([s EXCEPT !.upstream = IF found THEN Taken(f, limit) ELSE f])
            t == EndTurn(r)
<1>0. Typed /\ p \in Ends /\ p # e /\ ((e = "A" /\ p = "B") \/ (e = "B" /\ p = "A"))
  BY PeerEnds DEF WaysInv
<1>1. /\ s \in Streams /\ q \in Streams /\ said[e] \in BOOLEAN
      /\ channel[e] \in Seq(Frames) /\ channel[p] \in Seq(Frames)
  BY <1>0, TypedEnd
<1>2. /\ Becomes(e, r) /\ said' = said
      /\ found => channel' = [channel EXCEPT ![p] = Append(channel[p], y)]
      /\ ~found => channel' = channel
  BY DEF Forward
<1>3. /\ SameState(s, t) /\ t.processedHeaders = s.processedHeaders
      /\ ~found => Turns(s, t, <<>>, <<>>)
      /\ found => Forwarded(s, t, y)
  BY <1>1, ForwardTurns
<1>4. stream' = [stream EXCEPT ![e] = t]
  BY <1>2 DEF Becomes
<1>. HIDE DEF found, y, r, t, f
<1>5. CASE ~found
  <2>1. TurnOf(e, t, said[e])
    BY <1>0, <1>2, <1>4, <1>5, StaysAll DEF TurnOf
  <2>. QED
    BY <1>0, <1>3, <1>5, <2>1, TurnSpeaks, RestIsPolite
<1>6. CASE found
  <2>. DEFINE a == channel[p]
              c == Append(a, y)
  <2>1. /\ stream'[e] = t /\ stream'[p] = q /\ channel'[p] = c /\ channel'[e] = channel[e]
        /\ said' = said
    BY <1>0, <1>2, <1>4, <1>6 DEF Typed
  <2>2. /\ t \in Streams /\ y \in Frames
        /\ Alike(<<y>> \o Content(t.upstream), Content(s.upstream))
        /\ Leads(s.upstream.buffer) => y \in Opening
        /\ Content(s.upstream) # <<>>
    BY <1>3, <1>6 DEF Forwarded
  <2>3. c = a \o <<y>> /\ c \in Seq(Frames) /\ <<y>> \in Seq(Frames)
    BY <1>1, <2>2, AppendJoin, AppendProperties, OneFrame
  <2>4. /\ Mannered(s, q, a \o Content(s.upstream), said[e])
        /\ Mannered(q, s, channel[e] \o Content(q.upstream), said[p])
    BY MannersOf DEF Polite
  <2>5. s.state # "IDLE" /\ t.state = s.state
    BY <1>3, <2>2 DEF Polite, Opened, Fresh, SameState
  <2>6. Manners'
    <3>. HIDE DEF c, a, s, q
    <3>1. Mannered(t, q, c \o Content(t.upstream), said[e])
      <4>1. Alike(a \o (<<y>> \o Content(t.upstream)), a \o Content(s.upstream))
        BY <1>1, <2>2, AlikeSelf, AlikeJoin DEF a
      <4>2. Content(t.upstream) \in Seq(Frames)
        BY <2>2, StreamTypes
      <4>3. Regroups(a, <<y>>, Content(t.upstream))
        BY <1>1, <2>3, <4>2, ListsRegroup DEF a
      <4>4. Alike(c \o Content(t.upstream), a \o Content(s.upstream))
        BY <2>3, <4>1, <4>3, Zenon DEF Regroups
      <4>. QED
        BY <1>3, <2>2, <2>4, <4>4, MannerRests
    <3>2. Mannered(q, t, channel[e] \o Content(q.upstream), said[p])
      <4>1. Shut(t) => Shut(s)
        BY <1>3 DEF Shut, SameState
      <4>. QED
        BY <1>3, <2>2, <2>4, <4>1, MannerUnheard
    <3>. HIDE DEF p
    <3>. QED
      BY <2>1, <3>1, <3>2, MannersMade DEF p
  <2>7. Opened'
    <3>1. \A d \in Ends : d = e \/ d = p
      BY PeerEnds
    <3>2. Peer(p) = e
      BY PeerEnds
    <3>3. ASSUME NEW d \in Ends, stream'[d].state = "IDLE"
          PROVE  Fresh(stream'[d]) /\ channel'[Peer(d)] = <<>>
      <4>1. d = p /\ stream'[d] = stream[p] /\ channel'[Peer(d)] = channel[Peer(p)]
        BY <2>1, <2>5, <3>1, <3>2, <3>3
      <4>2. stream[p].state = "IDLE"
        BY <3>3, <4>1
      <4>3. Fresh(stream[p]) /\ channel[Peer(p)] = <<>>
        BY <1>0, <4>2 DEF Polite, Opened
      <4>. QED
        BY <4>1, <4>3, Zenon
    <3>4. CASE e = "A" /\ p = "B"
      <4>1. ASSUME q.state = "IDLE" PROVE Leads(c \o t.upstream.buffer)
        <5>1. Leads(a \o s.upstream.buffer)
          BY <2>5, <3>4, <4>1 DEF Polite, Opened
        <5>2. s.upstream.buffer \in Seq(Frames) /\ t.upstream.buffer \in Seq(Frames)
          BY <1>1, <2>2, StreamTypes, FlowTypes
        <5>3. Leads(c)
          <6>1. CASE a = <<>>
            <7>1. Leads(s.upstream.buffer)
              BY <1>1, <5>1, <5>2, <6>1, LeadsOn
            <7>2. Leads(<<y>>)
              BY <2>2, <7>1, LeadsOne
            <7>. QED
              BY <1>1, <2>2, <2>3, <6>1, <7>2, LeadsBehind
          <6>2. CASE a # <<>>
            <7>1. Leads(a)
              BY <1>1, <5>1, <5>2, <6>2, LeadsOn
            <7>. QED
              BY <1>1, <2>2, <2>3, <7>1, LeadsBehind
          <6>. QED
            BY <6>1, <6>2
        <5>. HIDE DEF c
        <5>. QED
          BY <2>3, <5>2, <5>3, LeadsOn
      <4>. HIDE DEF c
      <4>. QED
        BY <2>1, <2>5, <3>3, <3>4, <4>1 DEF Opened
    <3>5. CASE e = "B" /\ p = "A"
      <4>1. q.state # "IDLE"
        BY <2>5, <3>5 DEF Polite, Opened
      <4>. QED
        BY <2>1, <2>5, <3>3, <3>5, <4>1 DEF Opened
    <3>. QED
      BY <1>0, <3>4, <3>5
  <2>. QED
    BY <2>6, <2>7 DEF Polite
<1>. QED
  BY <1>5, <1>6


\* What is delivered opens the stream, or it is open.
LEMMA DeliveredOpen ==
  ASSUME Typed, Opened, NEW e \in Ends, channel[e] # <<>>
  PROVE  /\ stream[Peer(e)].state # "IDLE"
         /\ stream[e].state = "IDLE" => Head(channel[e]) \in Opening
<1>. DEFINE p == Peer(e)
            c == channel[e]
<1>1. p \in Ends /\ Peer(p) = e /\ ((e = "A" /\ p = "B") \/ (e = "B" /\ p = "A"))
  BY PeerEnds
<1>2. stream[p].state # "IDLE"
  <2>1. channel[Peer(p)] # <<>>
    BY <1>1, Zenon
  <2>. QED
    BY <1>1, <2>1 DEF Opened
<1>3. ASSUME stream[e].state = "IDLE" PROVE Head(c) \in Opening
  <2>1. e = "B" /\ p = "A"
    BY <1>1, <1>2, <1>3 DEF Opened
  <2>2. Leads(c \o stream[p].upstream.buffer)
    BY <1>2, <1>3, <2>1 DEF Opened
  <2>3. c \in Seq(Frames) /\ stream[p] \in Streams
    BY <1>1, TypedEnd
  <2>4. stream[p].upstream.buffer \in Seq(Frames)
    BY <2>3, StreamTypes, FlowTypes
  <2>5. Leads(c)
    BY <2>2, <2>3, <2>4, LeadsOn
  <2>. QED
    BY <2>5 DEF Leads
<1>. QED
  BY <1>2, <1>3

\* A frame that is delivered is heard, and answered only on a closed stream.
LEMMA DeliverPolite ==
  ASSUME DialogueInv, WaysInv, Polite, NEW e \in Ends, Deliver(e)
  PROVE  Polite'
<1>. DEFINE p == Peer(e)
            s == stream[e]
            q == stream[p]
            a == channel[p]
            f == Head(channel[e])
            c == Tail(channel[e])
            r == Process(WriteUpstream(s, f), f)
            t == EndTurn(r)
<1>0. Typed /\ p \in Ends /\ p # e
  BY PeerEnds DEF WaysInv
<1>1. /\ s \in Streams /\ q \in Streams /\ said[e] \in BOOLEAN
      /\ channel[e] \in Seq(Frames) /\ a \in Seq(Frames)
  BY <1>0, TypedEnd
<1>2. /\ Becomes(e, r) /\ channel' = [channel EXCEPT ![e] = c] /\ channel[e] # <<>>
      /\ said' = said
  BY <1>0 DEF Deliver, Typed
<1>3. f \in Frames /\ c \in Seq(Frames) /\ channel[e] = <<f>> \o c
  BY <1>1, <1>2, HeadLeaves
<1>4. q.state # "IDLE" /\ (s.state = "IDLE" => f \in Opening)
  BY <1>0, <1>2, DeliveredOpen DEF Polite
<1>. HIDE DEF f, c
<1>5. PICK Y \in Answers : Delivered(s, t, f, Y)
  BY <1>1, <1>3, DialogueFacts, DeliverTurns
<1>6. /\ stream'[e] = t /\ stream'[p] = q /\ channel'[e] = c /\ channel'[p] = a
      /\ said' = said
  <2>1. stream' = [stream EXCEPT ![e] = t]
    BY <1>2 DEF Becomes
  <2>. HIDE DEF t, r
  <2>. QED
    BY <1>0, <1>2, <2>1 DEF Typed
<1>. HIDE DEF r, t
<1>7. /\ Turns(s, t, <<f>>, Y) /\ HearsState(s, t, f) /\ Heeds(s, t, f)
      /\ Y # <<>> => s.state = "CLOSED"
      /\ t.processedHeaders <=> s.processedHeaders \/ f.type = "HEADERS"
  BY <1>5 DEF Delivered
<1>8. /\ Alike(Content(t.upstream), Content(s.upstream) \o Y) /\ t \in Streams
      /\ Y \in Seq(Frames) /\ Content(s.upstream) \in Seq(Frames)
      /\ Content(q.upstream) \in Seq(Frames)
  BY <1>1, <1>7, StreamTypes DEF Turns
<1>9. t.state # "IDLE"
  BY <1>4, <1>7 DEF HearsState, Opening
<1>10. Opened'
  BY <1>4, <1>6, <1>9, OpenedBoth
<1>11. /\ Mannered(s, q, a \o Content(s.upstream), said[e])
       /\ Mannered(q, s, channel[e] \o Content(q.upstream), said[p])
  BY MannersOf DEF Polite
<1>. HIDE DEF s, q, a
<1>12. MayTalk(s, t, Y, said[e], said[e])
  <2>1. /\ ~Again(Y) /\ ~Twice(Y) /\ ~Some(Y, Opening) /\ ~Some(Y, Talk)
    <3>1. CASE Y = <<>>
      BY <3>1, EmptyList DEF Again, Twice
    <3>2. CASE Y # <<>>
      <4>. DEFINE y == F("RST_STREAM")
      <4>1. Y = <<y>> /\ y \in Frames /\ y.type = "RST_STREAM"
        BY <1>7, <3>2, ResetFrame DEF Answers
      <4>. HIDE DEF y
      <4>2. y \notin Opening /\ y \notin Talk
        BY <4>1 DEF Opening, Talk
      <4>3. /\ ~Again(<<y>>) /\ ~Twice(<<y>>) /\ ~Some(<<y>>, Opening) /\ ~Some(<<y>>, Talk)
        BY <4>1, <4>2, OneFrame DEF Again, Twice
      <4>. QED
        BY <4>1, <4>3, Zenon
    <3>. QED
      BY <3>1, <3>2
  <2>2. Some(Y, Ending) => s.state = "CLOSED"
    BY <1>7, EmptyList
  <2>3. /\ t.thrown = s.thrown
        /\ Silent(s) => Silent(t)
        /\ s.state = "CLOSED" => Silent(t)
    BY <1>7 DEF Heeds, Silent
  <2>. QED
    BY <1>1, <1>8, <2>1, <2>2, <2>3 DEF MayTalk
<1>13. Mannered(q, t, c \o Content(q.upstream), said[p])
  <2>1. Regroups(<<f>>, c, Content(q.upstream)) /\ c \o Content(q.upstream) \in Seq(Frames)
    BY <1>3, <1>8, OneFrame, ListsRegroup, JoinList
  <2>2. Mannered(q, s, <<f>> \o (c \o Content(q.upstream)), said[p])
    BY <1>3, <1>11, <2>1, Zenon DEF Regroups
  <2>. QED
    BY <1>3, <1>7, <1>8, <2>1, <2>2, MannerHears
<1>14. Mannered(t, q, a \o Content(t.upstream), said[e])
  <2>1. Alike(a \o Content(t.upstream), a \o (Content(s.upstream) \o Y))
    BY <1>1, <1>8, AlikeSelf, AlikeJoin
  <2>2. a \o (Content(s.upstream) \o Y) = (a \o Content(s.upstream)) \o Y
    BY <1>1, <1>8, JoinAssociative, ZenonT(60)
  <2>3. Alike(a \o Content(t.upstream), (a \o Content(s.upstream)) \o Y)
    BY <2>1, <2>2, Zenon
  <2>. QED
    BY <1>8, <1>11, <1>12, <2>3, MannerSays
<1>. HIDE DEF p
<1>15. Manners'
  BY <1>6, <1>13, <1>14, MannersMade DEF p
<1>. QED
  BY <1>10, <1>15 DEF Polite


\* At the beginning nothing was said.
LEMMA PoliteStart == Init => Polite
<1>. SUFFICES ASSUME Init PROVE Polite
  OBVIOUS
<1>. DEFINE s == NewStream
<1>1. WaysInv
  BY WaysStart
<1>2. "A" \in Ends /\ (\A e \in Ends : Peer(e) \in Ends)
  BY PeerEnds DEF Ends
<1>3. /\ Content(s.upstream) = <<>> /\ ~s.processedHeaders /\ s.state = "IDLE"
      /\ ~s.thrown
  BY NewFlowHolds DEF NewStream
<1>4. \A e \in Ends : stream[e] = s /\ channel[e] = <<>> /\ said[e] = FALSE
  BY DEF Init
<1>5. s \in Streams /\ Typed
  <2>1. Typed
    BY <1>1 DEF WaysInv
  <2>. QED
    BY <1>2, <1>4, <2>1, TypedEnd
<1>6. Held(s) = 0
  <2>1. s.input = <<>> /\ s.busy = <<>> /\ s.upstream.received = 0
    BY NewFlowHolds DEF NewStream
  <2>2. Len(<<>>) = 0 /\ Bytes(<<>>) = <<>> /\ Increments(<<>>) = 0 /\ FlattenSeq(<<>>) = <<>>
    BY EmptyList, PendingBytes, EmptySeq
  <2>3. Held(s) = 0 + 0 + 0 + 0
    BY <1>3, <2>1, <2>2, Zenon DEF Held
  <2>. QED
    BY <2>3
<1>. HIDE DEF s
<1>7. Mannered(s, s, <<>>, FALSE)
  <2>1. Civil(s, s, <<>>)
    BY <1>3, EmptyList DEF Civil, Shut, Again
  <2>2. Formal(FALSE, s, <<>>)
    BY <1>3, EmptyList DEF Formal, Twice
  <2>. QED
    BY <1>5, <2>1, <2>2, EmptyList DEF Mannered
<1>8. Manners
  <2>. SUFFICES ASSUME NEW e \in Ends
                PROVE  Mannered(stream[e], stream[Peer(e)], Line(e), said[e])
    BY DEF Manners
  <2>1. Line(e) = <<>>
    <3>1. Line(e) = <<>> \o <<>>
      BY <1>2, <1>3, <1>4, Zenon DEF Line
    <3>. QED
      BY <3>1
  <2>. QED
    BY <1>2, <1>4, <1>7, <2>1, Zenon
<1>9. Opened
  BY <1>2, <1>3, <1>4, <1>6 DEF Opened, Fresh, Ends
<1>. QED
  BY <1>8, <1>9 DEF Polite

\* Every step keeps the manners.
LEMMA PoliteStay == DialogueInv /\ WaysInv /\ Polite /\ [Next]_vars => Polite'
<1>. SUFFICES ASSUME DialogueInv, WaysInv, Polite, [Next]_vars PROVE Polite'
  OBVIOUS
<1>1. ASSUME NEW e \in Ends, SendHeaders(e) PROVE Polite'
  BY <1>1, SendHeadersPolite
<1>2. ASSUME NEW e \in Ends, NEW n \in Chunks, WriteChunk(e, n) PROVE Polite'
  BY <1>2, WriteChunkPolite, DialogueAssumption
<1>3. ASSUME NEW e \in Ends, End(e) PROVE Polite'
  BY <1>3, UnmovedPolite DEF End
<1>4. ASSUME NEW e \in Ends, Finish(e) PROVE Polite'
  BY <1>4, FinishPolite
<1>5. ASSUME NEW e \in Ends, ResetStream(e) PROVE Polite'
  BY <1>5, ResetPolite
<1>6. ASSUME NEW e \in Ends, ReadBody(e) PROVE Polite'
  BY <1>6, ReadBodyPolite
<1>7. ASSUME NEW e \in Ends, NEW limit \in Limits, Forward(e, limit) PROVE Polite'
  BY <1>7, ForwardPolite, DialogueAssumption
<1>8. ASSUME NEW e \in Ends, Deliver(e) PROVE Polite'
  BY <1>8, DeliverPolite
<1>9. ASSUME NEW e \in Ends, Restore(e) PROVE Polite'
  BY <1>9, RestorePolite
<1>10. ASSUME NEW e \in Ends, NEW size \in Windows, ChangeWindow(e, size) PROVE Polite'
  <2>1. size \in Int
    BY <1>10, DialogueAssumption
  <2>. QED
    BY <1>10, <2>1, ChangeWindowPolite
<1>11. CASE UNCHANGED vars
  BY <1>11, UnmovedPolite DEF vars
<1>. QED
  BY <1>1, <1>2, <1>3, <1>4, <1>5, <1>6, <1>7, <1>8, <1>9, <1>10, <1>11 DEF Next

\* In every dialogue nothing of a body or of a head comes behind an END_STREAM or a
\* RST_STREAM, or reaches a stream that has seen one, unless the user who sends it got
\* an exception; headers are sent once in each direction, and first of all by A.
THEOREM EndsArePolite == Spec => []Polite
BY PoliteStart, PoliteStay, DialogueInvariant, DialogueIsInOrder, PTL DEF Spec

\* The windows that the peers announce are within the limit of flow.js, which does not
\* look at them before it takes them over from SETTINGS.
WindowsFit ==
  /\ INITIAL_WINDOW_SIZE <= WINDOW_SIZE_LIMIT
  /\ \A size \in Windows : size <= WINDOW_SIZE_LIMIT

Limited == \A e \in Ends : stream[e].upstream.initialWindow <= WINDOW_SIZE_LIMIT

\* The only complaints of a step: what ErrorsAreLateFrames says of one.
Complaints ==
  \A e \in Ends :
    stream'[e].errors # stream[e].errors
      => /\ channel[e] # <<>>
         /\ LateFrame(stream[e], Head(channel[e])) \/ stream[Peer(e)].thrown

\* A stream that gives a window to its peer never gives more than it has received.
LEMMA StaysWithin ==
  ASSUME WaysInv, Limited, NEW e \in Ends
  PROVE  /\ Within(stream[e], <<>>)
         /\ \A f, c : f \in Frames /\ c \in Seq(Frames) /\ channel[e] = <<f>> \o c
                        => Within(stream[e], <<f>>)
<1>. DEFINE s == stream[e]
            q == stream[Peer(e)]
            a == channel[Peer(e)]
            b == channel[e]
<1>1. /\ s \in Streams /\ q \in Streams /\ a \in Seq(Frames) /\ b \in Seq(Frames)
      /\ CreditIs(s, q, a, b)
  BY WayFacts
<1>2. s.upstream.initialWindow <= WINDOW_SIZE_LIMIT
  BY DEF Limited
<1>. HIDE DEF s, q, a, b
<1>3. Given(s) \in Int /\ Held(q) \in Nat
  <2>1. /\ q.upstream \in Flows /\ q.input \in Seq(Frames) /\ q.busy \in Pending
        /\ Given(s) \in Int
    BY <1>1, StreamTypes, StreamNumbers
  <2>2. q.upstream.received \in Nat /\ Increments(Content(q.upstream)) \in Nat
    BY <2>1, FlowTypes, IncrementsNat
  <2>3. Len(Bytes(q.input)) \in Nat /\ Len(FlattenSeq(q.busy)) \in Nat
    BY <2>1, BytesType, LenProperties, PendingBytes
  <2>. QED
    BY <2>1, <2>2, <2>3 DEF Held
<1>4. Len(Bytes(a)) \in Nat
  BY <1>1, BytesType, LenProperties
<1>5. Given(s) + Len(Bytes(a)) + Held(q) + Increments(b) = 0
  BY <1>1 DEF CreditIs
<1>6. Increments(b) \in Nat
  BY <1>1, IncrementsNat
<1>7. Given(s) + Increments(<<>>) <= 0
  BY <1>3, <1>4, <1>5, <1>6, EmptyList
<1>8. ASSUME NEW f \in Frames, NEW c \in Seq(Frames), b = <<f>> \o c
      PROVE  Given(s) + Increments(<<f>>) <= 0
  <2>1. <<f>> \in Seq(Frames)
    BY OneFrame
  <2>2. Increments(b) = Increments(<<f>>) + Increments(c)
    BY <1>8, <2>1, ChannelCut
  <2>3. Increments(<<f>>) \in Nat /\ Increments(c) \in Nat
    BY <1>8, <2>1, IncrementsNat
  <2>. QED
    BY <1>3, <1>4, <1>5, <2>2, <2>3
<1>. QED
  BY <1>2, <1>7, <1>8 DEF Within, s, b

\* A frame of a peer whose user got no exception is legal, or late.
LEMMA LegalOrLate ==
  ASSUME Typed, Polite, NEW e \in Ends, channel[e] # <<>>, ~stream[Peer(e)].thrown
  PROVE  LET s == stream[e] f == Head(channel[e])
         IN  /\ Legal(s, FALSE, f) \/ LateFrame(s, f)
             /\ ~(f.type = "HEADERS" /\ s.processedHeaders)
<1>. DEFINE s == stream[e]
            f == Head(channel[e])
            c == Tail(channel[e])
            q == stream[Peer(e)]
            r == Content(q.upstream)
            L == c \o r
<1>1. /\ Mannered(q, s, channel[e] \o r, said[Peer(e)])
      /\ s.state = "IDLE" => f \in Opening
  BY MannersOf, DeliveredOpen DEF Polite
<1>2. /\ f \in Frames /\ c \in Seq(Frames) /\ channel[e] = <<f>> \o c
      /\ q \in Streams /\ s \in Streams
  BY HeadLeaves, TypedEnd, PeerEnds
<1>. HIDE DEF f, c, q, s
<1>3. r \in Seq(Frames) /\ <<f>> \in Seq(Frames)
  BY <1>2, StreamTypes, OneFrame
<1>. HIDE DEF r
<1>4. L \in Seq(Frames) /\ channel[e] \o r = <<f>> \o L
  BY <1>2, <1>3, JoinList, JoinAssociative
<1>. HIDE DEF L
<1>5. Civil(q, s, <<f>> \o L) /\ Formal(said[Peer(e)], s, <<f>> \o L)
  BY <1>1, <1>4, Zenon DEF Mannered
<1>6. \A S : f \in S => Some(<<f>> \o L, S)
  BY <1>2, <1>3, <1>4, OneFrame, SomeJoin
<1>7. Shut(s) => f \notin Talk
  BY <1>5, <1>6 DEF Civil, q
<1>8. ~(f.type = "HEADERS" /\ s.processedHeaders)
  BY <1>2, <1>5, <1>6 DEF Formal, Opening
<1>9. f.type \in FrameTypes /\ (f.type \in {"DATA", "HEADERS"} => f \in Talk)
  BY <1>2 DEF Frames, Talk
<1>10. s.state \in StateNames
  BY <1>2, StreamTypes
<1>11. s.state = "IDLE" => f.type = "HEADERS"
  BY <1>1 DEF Opening
<1>12. CASE s.state \in {"IDLE", "OPEN", "HALF_CLOSED_LOCAL"}
  BY <1>8, <1>11, <1>12 DEF Legal, s, f
<1>13. CASE s.state = "HALF_CLOSED_REMOTE"
  <2>1. f.type \in {"RST_STREAM", "WINDOW_UPDATE", "BLOCKED"}
    BY <1>7, <1>9, <1>13 DEF Shut, FrameTypes
  <2>. QED
    BY <1>8, <1>13, <2>1 DEF Legal, s, f
<1>14. CASE s.state = "CLOSED"
  <2>1. CASE s.closedByUs /\ s.closedWithRst
    BY <1>8, <1>14, <2>1 DEF Legal, LegalWhenClosed, s, f
  <2>2. CASE ~(s.closedByUs /\ s.closedWithRst)
    <3>1. f.type \in {"RST_STREAM", "WINDOW_UPDATE", "BLOCKED"}
      BY <1>7, <1>9, <1>14, <2>2 DEF Shut, FrameTypes
    <3>2. LegalWhenClosed(s, FALSE, f) \/ LateFrame(s, f)
      BY <1>14, <3>1 DEF LegalWhenClosed, LateFrame
    <3>3. LegalWhenClosed(s, FALSE, f) => Legal(s, FALSE, f)
      BY <1>14 DEF Legal
    <3>. QED
      BY <1>8, <3>2, <3>3 DEF s, f
  <2>. QED
    BY <2>1, <2>2
<1>. QED
  BY <1>10, <1>12, <1>13, <1>14 DEF StateNames

\* A turn without a complaint.
LEMMA CalmTurn ==
  ASSUME Typed, Limited, NEW e \in Ends, NEW s, Becomes(e, s),
         EndTurn(s).errors = stream[e].errors,
         EndTurn(s).upstream.initialWindow <= WINDOW_SIZE_LIMIT
  PROVE  Limited' /\ Complaints
<1>. DEFINE t == EndTurn(s)
<1>1. stream' = [stream EXCEPT ![e] = t]
  BY DEF Becomes
<1>. HIDE DEF t
<1>2. stream'[e] = t /\ \A d \in Ends : d # e => stream'[d] = stream[d]
  BY <1>1 DEF Typed
<1>3. Limited'
  BY <1>2 DEF Limited, t
<1>4. Complaints
  BY <1>2 DEF Complaints, t
<1>. QED
  BY <1>3, <1>4

\* A frame that is delivered raises an error only when it is late or its sender threw.
LEMMA DeliverComplains ==
  ASSUME DialogueInv, WaysInv, Polite, Limited, NEW e \in Ends, Deliver(e)
  PROVE  Limited' /\ Complaints
<1>. DEFINE s == stream[e]
            f == Head(channel[e])
            c == Tail(channel[e])
            r == Process(WriteUpstream(s, f), f)
            t == EndTurn(r)
<1>1. Typed /\ s \in Streams /\ channel[e] \in Seq(Frames) /\ channel[e] # <<>> /\ Becomes(e, r)
  BY TypedEnd DEF WaysInv, Deliver
<1>2. f \in Frames /\ c \in Seq(Frames) /\ channel[e] = <<f>> \o c
  BY <1>1, HeadLeaves
<1>3. Within(s, <<f>>)
  BY <1>2, StaysWithin
<1>4. ~stream[Peer(e)].thrown =>
        /\ Legal(s, FALSE, f) \/ LateFrame(s, f)
        /\ ~(f.type = "HEADERS" /\ s.processedHeaders)
  BY <1>1, LegalOrLate
<1>. HIDE DEF f, c
<1>5. PICK Y \in Answers : Delivered(s, t, f, Y)
  BY <1>1, <1>2, DialogueFacts, DeliverTurns
<1>6. stream' = [stream EXCEPT ![e] = t]
  BY <1>1 DEF Becomes
<1>. HIDE DEF r, t
<1>7. stream'[e] = t /\ \A d \in Ends : d # e => stream'[d] = stream[d]
  BY <1>1, <1>6 DEF Typed
<1>8. /\ t.upstream.initialWindow = s.upstream.initialWindow
      /\ /\ Legal(s, FALSE, f)
         /\ ~(f.type = "HEADERS" /\ s.processedHeaders)
         => t.errors = s.errors
  BY <1>3, <1>5 DEF Delivered
<1>9. Limited'
  BY <1>7, <1>8 DEF Limited
<1>10. Complaints
  BY <1>1, <1>4, <1>7, <1>8 DEF Complaints, f
<1>. QED
  BY <1>9, <1>10

\* No step complains of anything else.
LEMMA StepsComplain ==
  ASSUME WindowsFit, DialogueInv, WaysInv, Polite, Limited, [Next]_vars
  PROVE  Limited' /\ [Complaints]_vars
<1>0. Typed
  BY DEF WaysInv
<1>. DEFINE Fine == Limited' /\ Complaints
<1>1. ASSUME NEW e \in Ends
      PROVE  /\ stream[e] \in Streams /\ (stream[e].closedWithRst => stream[e].state = "CLOSED")
             /\ stream[e].upstream.initialWindow <= WINDOW_SIZE_LIMIT
  BY <1>0, TypedEnd, DialogueFacts DEF Limited
<1>2. ASSUME NEW e \in Ends, SendHeaders(e) PROVE Fine
  <2>1. Becomes(e, Headers(stream[e]))
    BY <1>2 DEF SendHeaders
  <2>2. SaysState(stream[e], EndTurn(Headers(stream[e])))
    BY <1>1, HeadersTurns
  <2>. QED
    BY <1>0, <1>1, <2>1, <2>2, CalmTurn DEF SaysState
<1>3. ASSUME NEW e \in Ends, NEW n \in Chunks, WriteChunk(e, n) PROVE Fine
  <2>. DEFINE d == [i \in 1 .. n |-> wrote[e] + i]
  <2>1. Becomes(e, Write(stream[e], d))
    BY <1>3 DEF WriteChunk
  <2>2. d \in Seq(Octet)
    BY <1>0, TypedEnd, IntervalPiece, DialogueAssumption
  <2>. HIDE DEF d
  <2>3. SaysState(stream[e], EndTurn(Write(stream[e], d)))
    BY <1>1, <2>2, WriteTurns
  <2>. QED
    BY <1>0, <1>1, <2>1, <2>3, CalmTurn DEF SaysState
<1>4. ASSUME NEW e \in Ends, End(e) PROVE Fine
  BY <1>4 DEF End, Limited, Complaints
<1>5. ASSUME NEW e \in Ends, Finish(e) PROVE Fine
  <2>1. Becomes(e, Finishing(stream[e]))
    BY <1>5 DEF Finish
  <2>2. SaysState(stream[e], EndTurn(Finishing(stream[e])))
    BY <1>1, FinishTurns
  <2>. QED
    BY <1>0, <1>1, <2>1, <2>2, CalmTurn DEF SaysState
<1>6. ASSUME NEW e \in Ends, ResetStream(e) PROVE Fine
  <2>1. Becomes(e, Reset(stream[e])) /\ ~stream[e].resetSent
    BY <1>6 DEF ResetStream
  <2>2. /\ EndTurn(Reset(stream[e])).errors = stream[e].errors
        /\ EndTurn(Reset(stream[e])).upstream.initialWindow = stream[e].upstream.initialWindow
    BY <1>1, <2>1, ResetTurns
  <2>. QED
    BY <1>0, <1>1, <2>1, <2>2, CalmTurn
<1>7. ASSUME NEW e \in Ends, ReadBody(e) PROVE Fine
  <2>1. Becomes(e, UserRead(stream[e]))
    BY <1>7 DEF ReadBody
  <2>2. Calm(stream[e], EndTurn(UserRead(stream[e])), <<>>)
    BY <1>1, UserReadTurns
  <2>3. Within(stream[e], <<>>)
    BY StaysWithin
  <2>. QED
    BY <1>0, <1>1, <2>1, <2>2, <2>3, CalmTurn DEF Calm
<1>8. ASSUME NEW e \in Ends, NEW limit \in Limits, Forward(e, limit) PROVE Fine
  <2>. DEFINE f == Polled(stream[e].upstream)
              found == f.buffer # <<>>
              r == Send([stream[e] EXCEPT !.upstream = IF found THEN Taken(f, limit) ELSE f])
  <2>1. Becomes(e, r) /\ limit \in Nat \ {0}
    BY <1>8, DialogueAssumption DEF Forward
  <2>2. /\ EndTurn(r).errors = stream[e].errors
        /\ EndTurn(r).upstream.initialWindow = stream[e].upstream.initialWindow
    BY <1>1, <2>1, ForwardTurns
  <2>. HIDE DEF r
  <2>. QED
    BY <1>0, <1>1, <2>1, <2>2, CalmTurn
<1>9. ASSUME NEW e \in Ends, Deliver(e) PROVE Fine
  BY <1>9, DeliverComplains
<1>10. ASSUME NEW e \in Ends, Restore(e) PROVE Fine
  <2>. DEFINE r == [stream[e] EXCEPT !.upstream = RestoreWindow(@)]
  <2>1. Becomes(e, r)
    BY <1>10 DEF Restore
  <2>2. /\ EndTurn(r).errors = stream[e].errors
        /\ EndTurn(r).upstream.initialWindow = stream[e].upstream.initialWindow
    BY <1>1, RestoreTurns
  <2>. HIDE DEF r
  <2>. QED
    BY <1>0, <1>1, <2>1, <2>2, CalmTurn
<1>11. ASSUME NEW e \in Ends, NEW size \in Windows, ChangeWindow(e, size) PROVE Fine
  <2>. DEFINE r == Send([stream[e] EXCEPT !.upstream = SetInitialWindow(@, size)])
  <2>1. Becomes(e, r)
    BY <1>11 DEF ChangeWindow
  <2>2. size \in Int /\ size <= WINDOW_SIZE_LIMIT
    BY <1>11, DialogueAssumption DEF WindowsFit
  <2>3. EndTurn(r).errors = stream[e].errors /\ EndTurn(r).upstream.initialWindow = size
    BY <1>1, <2>2, SettingsTurns
  <2>. HIDE DEF r
  <2>. QED
    BY <1>0, <2>1, <2>2, <2>3, CalmTurn
<1>12. CASE UNCHANGED vars
  BY <1>12 DEF vars, Limited
<1>. QED
  BY <1>2, <1>3, <1>4, <1>5, <1>6, <1>7, <1>8, <1>9, <1>10, <1>11, <1>12 DEF Next

\* A stream reports an error of its peer only for a late frame or after an exception of
\* the peer's user, in every dialogue whose windows stay within the limit of flow.js:
\* no credit comes back twice, no body or head behind an end.
THEOREM ErrorsComeLate == ASSUME WindowsFit PROVE Spec => ErrorsAreLateFrames
<1>1. Init => Limited
  <2>1. NewStream.upstream.initialWindow = INITIAL_WINDOW_SIZE
    BY DEF NewStream, NewFlow
  <2>. QED
    BY <2>1 DEF Init, Limited, WindowsFit
<1>2. DialogueInv /\ WaysInv /\ Polite /\ Limited /\ [Next]_vars => Limited'
  BY StepsComplain
<1>3. DialogueInv /\ WaysInv /\ Polite /\ Limited /\ [Next]_vars =>
        [\A e \in Ends :
           stream'[e].errors # stream[e].errors
             => /\ channel[e] # <<>>
                /\ LateFrame(stream[e], Head(channel[e])) \/ stream[Peer(e)].thrown]_vars
  BY StepsComplain DEF Complaints
<1>. QED
  BY <1>1, <1>2, <1>3, DialogueInvariant, DialogueIsInOrder, EndsArePolite, PTL
     DEF Spec, ErrorsAreLateFrames
=============================================================================
