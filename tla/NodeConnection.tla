--------------------------- MODULE NodeConnection ---------------------------
(***************************************************************************)
(* connection.js of the node server: class Connection, which multiplexes   *)
(* the streams of one end.  A connection is a record; an operation takes a *)
(* connection and gives the one it leaves.                                 *)
(*                                                                         *)
(*   flow                the Flow it is itself: control frames and what    *)
(*                       the streams have sent, for the transport          *)
(*   streams             its streams, in the order of their creation, each *)
(*                       with its id (0: not allocated) and a tag that     *)
(*                       tells which user has created it                   *)
(*   order, priority     the streams in _streamPriorities, in the order of *)
(*                       insertion; 0 is the default, 1 a promised stream  *)
(*   next, last          _nextStreamId, _lastIncomingStream                *)
(*   slots, limit        _streamSlotsFree, _streamLimit                    *)
(*   counted             the sum of the changes of _changeStreamCount      *)
(*   scheduled, sleeping _sendScheduled; a once('wakeup') is set           *)
(*   initial             _initialStreamWindowSize                          *)
(*   unacked             _settingsAckCallbacks, the settings they are for  *)
(*   acked               the settings whose callback ran                   *)
(*   pings, answered     _pings; the pings whose callback ran              *)
(*   unseen              _firstFrameReceived is not set                    *)
(*   closed, eof         _closed; null was pushed                          *)
(*   errors              the error events emitted                          *)
(***************************************************************************)
EXTENDS NodeStream, FiniteSets

\* Numbers as the language has them.
Number(n) == [kind |-> "finite", value |-> n]
Infinity == [kind |-> "infinite", value |-> 1]
NaN == [kind |-> "NaN", value |-> 0]

Plus(x, y) ==
  CASE x.kind = "finite" /\ y.kind = "finite" -> Number(x.value + y.value)
    [] x.kind = "finite" -> y
    [] y.kind = "finite" \/ x = y -> x
    [] OTHER -> NaN
Minus(x, y) == Plus(x, [y EXCEPT !.value = -@])

\* A comparison with NaN is false.
MoreThan(x, y) ==
  x.kind # "NaN" /\ y.kind # "NaN" /\ y.kind = "finite" /\ (x.kind = "infinite" \/ x.value > y.value)

\* A frame on the wire carries the id of its stream, and the tag of the stream
\* for the properties; a control frame has id 0.
Addressed(frame, id, tag) == frame @@ [stream |-> id, tag |-> tag]
Control(type, ack, value) ==
  F(type) @@ [stream |-> 0, tag |-> <<>>, ack |-> ack, value |-> value]
Setting(name, value) == [name |-> name, value |-> value]
NoSetting == Setting("none", 0)
PushPromise(k) == F("PUSH_PROMISE") @@ [promised |-> k]

NewConnection(firstStreamId) ==
  [flow |-> NewFlow, streams |-> <<>>, order |-> <<>>, priority |-> <<>>,
   next |-> firstStreamId, last |-> 0, slots |-> Infinity, limit |-> Infinity, counted |-> 0,
   scheduled |-> FALSE, sleeping |-> FALSE, initial |-> INITIAL_WINDOW_SIZE, unseen |-> TRUE,
   unacked |-> <<>>, acked |-> <<>>, pings |-> {}, answered |-> <<>>,
   closed |-> FALSE, eof |-> FALSE, errors |-> {}]

NewEntry(tag) == [s |-> NewStream, id |-> 0, tag |-> tag]
WithId(c, id) == {k \in DOMAIN c.streams : c.streams[k].id = id}
StreamOf(c, id) == CHOOSE k \in WithId(c, id) : TRUE

-----------------------------------------------------------------------------
(* Turns of the event loop.                                                *)

Wakeup(c) == IF c.sleeping THEN [c EXCEPT !.sleeping = FALSE, !.scheduled = TRUE] ELSE c

\* The stream k becomes s; frames in its output buffer are 'readable'.
Place(c, k, s) ==
  LET placed == [c EXCEPT !.streams[k].s = s]
  IN  IF s.upstream.buffer # <<>> /\ k \in Range(c.order) THEN Wakeup(placed) ELSE placed

\* The same, with the end of the turn of the stream.
Touch(c, k, s) == Place(c, k, EndTurn(s))

\* _send(), when the flow of the connection wants more frames.
SendSoon(c) ==
  IF c.flow.asked THEN [c EXCEPT !.flow.asked = FALSE, !.scheduled = @ \/ ~c.closed] ELSE c

\* After null nothing is read from the child any more.
EndOfConnectionTurn(c) ==
  IF c.eof THEN c ELSE SendSoon([c EXCEPT !.flow = EndOfTurn(@)])

PushFrame(c, frame) ==
  IF c.eof THEN [c EXCEPT !.errors = @ \cup {<<"push after EOF", frame.type>>}]
  ELSE [c EXCEPT !.flow = Push(@, frame)]

PushNull(c) ==
  IF c.eof THEN [c EXCEPT !.errors = @ \cup {<<"push after EOF", "null">>}]
  ELSE [c EXCEPT !.eof = TRUE]

-----------------------------------------------------------------------------
(* Streams.                                                                *)

\* _allocatePriority
AllocatePriority(c, k, priority) ==
  Wakeup([c EXCEPT !.order = Append(@, k), !.priority = (k :> priority) @@ @])

\* Mutant of OnNewStream: a new stream keeps the default window.
NewStreamAsItIs(c, k) == c

\* The handler of 'new_stream'.
OnNewStream(c, k) == Touch(c, k, Send([c.streams[k].s EXCEPT !.upstream = SetInitialWindow(@, c.initial)]))

\* Mutant of AllocateId: the next id stays.
AllocateSameId(c, k) == OnNewStream([c EXCEPT !.streams[k].id = c.next], k)

\* _allocateId for a stream without an id.
AllocateId(c, k) ==
  OnNewStream([c EXCEPT !.streams[k].id = c.next, !.next = @ + 2], k)

Legitim(c, id) == id > c.last /\ (id - c.next) % 2 # 0

\* _createIncomingStream: the stream is used even if its id is not legitim.
CreateIncomingStream(c, id, tag) ==
  LET k == Len(c.streams) + 1
      created == [c EXCEPT !.streams = Append(@, NewEntry(tag))]
      known == IF Legitim(c, id)
               THEN OnNewStream([created EXCEPT !.streams[k].id = id, !.last = id], k)
               ELSE [created EXCEPT !.errors = @ \cup {<<"Invalid incoming stream ID", id>>}]
  IN  AllocatePriority(known, k, 0)

\* createStream
CreateStream(c, tag) ==
  AllocatePriority([c EXCEPT !.streams = Append(@, NewEntry(tag))], Len(c.streams) + 1, 0)

\* stream.promise: the frame refers to the new stream, which has no id and no
\* priority until the frame is forwarded.
Promise(c, k, tag) ==
  LET p == Len(c.streams) + 1
      reserved == [NewStream EXCEPT !.state = "RESERVED_LOCAL", !.initiated = "us"]
  IN  Touch([c EXCEPT !.streams = Append(@, [NewEntry(tag) EXCEPT !.s = reserved])],
            k, PushUpstream(c.streams[k].s, PushPromise(p)))

-----------------------------------------------------------------------------
(* The slots for streams.                                                  *)

\* _updateStreamLimit
UpdateStreamLimit(c, limit) ==
  LET changed == [c EXCEPT !.slots = Plus(@, Minus(Number(limit), c.limit)),
                           !.limit = Number(limit)]
  IN  IF c.slots = Number(0) /\ MoreThan(Number(limit), c.limit) THEN Wakeup(changed) ELSE changed

\* _changeStreamCount
ChangeStreamCount(c, change) ==
  LET changed == [c EXCEPT !.counted = @ + change, !.slots = Minus(@, Number(change))]
  IN  IF change = 0 THEN c
      ELSE IF c.slots = Number(0) /\ change < 0 THEN Wakeup(changed) ELSE changed

-----------------------------------------------------------------------------
(* Sending: _send reads frames from the streams into the output buffer.    *)

\* upstream.read with what the window of the connection allows: no DATA, not
\* even an empty frame, when it allows nothing.
Offered(c, s) ==
  LET taken == TakeFrame(s.upstream, c.flow.window)
  IN  IF \/ s.upstream.buffer = <<>>
         \/ Head(s.upstream.buffer).type = "DATA" /\ c.flow.window <= 0
         \/ MoreThan(Number(taken.frame.count), c.slots)
      THEN [s |-> s, frames |-> <<>>]
      ELSE [s |-> [s EXCEPT !.upstream = taken.flow], frames |-> <<taken.frame>>]
Available(c, k) == Offered(c, Send([c.streams[k].s EXCEPT !.upstream = Polled(@)]))

\* Only when a frame is forwarded its stream gets an id, and the stream that a
\* PUSH_PROMISE promises.
Named(c, k) == IF c.streams[k].id = 0 THEN AllocateId(c, k) ELSE c
NamePromised(c, frame) ==
  IF frame.type = "PUSH_PROMISE"
  THEN AllocateId(AllocatePriority(c, frame.promised, 1), frame.promised)
  ELSE c

\* A frame of stream k goes to the output buffer.
PushForStream(c, k, frame) ==
  LET entry == c.streams[k]
      onWire == IF frame.type = "PUSH_PROMISE"
                THEN [frame EXCEPT !.promised = [id |-> c.streams[@].id, tag |-> c.streams[@].tag]]
                ELSE frame
  IN  ChangeStreamCount(PushFrame(c, Addressed(onWire, entry.id, entry.tag)), frame.count)

ForwardFrame(c, k, frame) == PushForStream(NamePromised(Named(c, k), frame), k, frame)

\* The frame that is available on stream k is forwarded, if there is one.
ServeStream(c, k, available) ==
  LET polled == Touch(c, k, available.s)
  IN  IF available.frames = <<>> THEN polled ELSE ForwardFrame(polled, k, available.frames[1])

\* Frames were forwarded: none is larger than the window, so push puts it into the
\* output buffer (the assertion in line 326).  Full: no more are needed.
Forwarded(before, after) == after.flow.buffer # before.flow.buffer
Full(before, after) == Forwarded(before, after) /\ ~MoreNeeded(after.flow)

\* The loops of _send over a bucket: rounds over the streams that had a frame.
\* Those that had one in this round are in next.
RECURSIVE Rounds(_, _, _)
Rounds(c, bucket, next) ==
  IF bucket = <<>> THEN IF next = <<>> THEN c ELSE Rounds(c, next, <<>>)
  ELSE LET k == Head(bucket)
           served == ServeStream(c, k, Available(c, k))
       IN  IF Full(c, served) THEN served
           ELSE Rounds(served, Tail(bucket), IF Forwarded(c, served) THEN Append(next, k) ELSE next)

Bucket(c, priority) == SelectSeq(c.order, LAMBDA k : c.priority[k] = priority)

\* The deferred call of _send.
SendFrames(c) ==
  LET start == [c EXCEPT !.scheduled = FALSE]
      SendBucket(d, priority) ==
        IF Full(c, d) THEN d ELSE Rounds(d, Bucket(d, priority), <<>>)
      SleepUnlessSent(d) ==
        IF Forwarded(c, d) THEN d ELSE [d EXCEPT !.sleeping = TRUE]
  IN  IF c.closed THEN start ELSE SleepUnlessSent(FoldLeft(SendBucket, start, <<0, 1>>))

-----------------------------------------------------------------------------
(* Receiving.                                                              *)

\* The user reads when there is something to read.
ReadIfAny(s) == IF s.user # <<>> THEN UserRead(s) ELSE s

\* Mutant of ReceiveOnStream: only frames that are sent are counted.
ReceiveUncounted(c, k, frame) == Touch(c, k, ReadIfAny(Arrive(c.streams[k].s, frame)))

\* A frame for the stream k reaches its upstream, and its user reads.
ReceiveOnStream(c, k, frame) ==
  LET before == c.streams[k].s
      arrived == Arrive(before, frame)
  IN  ChangeStreamCount(Touch(c, k, ReadIfAny(arrived)), CountChange(before, arrived))

\* The stream that a PUSH_PROMISE reserves.
ReservePromised(c, frame) ==
  LET created == CreateIncomingStream(c, frame.promised.id, frame.promised.tag)
      p == Len(created.streams)
  IN  [created EXCEPT !.streams[p].s.state = "RESERVED_REMOTE", !.streams[p].s.initiated = "peer"]

\* _setInitialStreamWindowSize, for the streams with an id.
SetInitialStreamWindowSize(c, size) ==
  FoldLeft(LAMBDA d, k : Touch(d, k, Send([d.streams[k].s EXCEPT !.upstream = SetInitialWindow(@, size)])),
           [c EXCEPT !.initial = size],
           SelectSeq([k \in DOMAIN c.streams |-> k], LAMBDA k : c.streams[k].id # 0))

Apply(c, setting) ==
  CASE setting.name = "INITIAL_WINDOW_SIZE" -> SetInitialStreamWindowSize(c, setting.value)
    [] setting.name = "MAX_CONCURRENT_STREAMS" -> UpdateStreamLimit(c, setting.value)
    [] OTHER -> c

\* Mutant of ReceiveSettings: the last callback is called first.
ReceiveLastSettings(c, frame) ==
  IF frame.ack THEN [c EXCEPT !.acked = Append(@, Last(c.unacked)), !.unacked = Front(@)]
  ELSE Apply(PushFrame(c, Control("SETTINGS", TRUE, NoSetting)), frame.value)

\* _receiveSettings: the acknowledgement is queued before the settings apply.
ReceiveSettings(c, frame) ==
  IF frame.ack THEN [c EXCEPT !.acked = Append(@, Head(c.unacked)), !.unacked = Tail(@)]
  ELSE Apply(IF c.closed THEN c ELSE PushFrame(c, Control("SETTINGS", TRUE, NoSetting)), frame.value)

\* _receivePing
ReceivePing(c, frame) ==
  IF ~frame.ack THEN PushFrame(c, Control("PING", TRUE, frame.value))
  ELSE IF frame.value \in c.pings
       THEN [c EXCEPT !.pings = @ \ {frame.value}, !.answered = Append(@, frame.value)]
       ELSE c

\* Mutant of GrowConnection: _send stays asleep.
GrowSilently(c, size) == [c EXCEPT !.flow = IncreaseWindow(@, size)]

\* A WINDOW_UPDATE of the connection wakes _send.
GrowConnection(c, size) ==
  LET grown == [c EXCEPT !.flow = IncreaseWindow(@, size)]
  IN  IF TooLarge(c.flow, size) THEN [grown EXCEPT !.errors = @ \cup {<<"FLOW_CONTROL_ERROR">>}]
      ELSE Wakeup(grown)

\* _writeControlFrame
ReceiveControl(c, frame) ==
  CASE frame.type = "SETTINGS" -> ReceiveSettings(c, frame)
    [] frame.type = "PING" -> ReceivePing(c, frame)
    [] frame.type = "GOAWAY" -> [PushNull(c) EXCEPT !.closed = TRUE]
    [] frame.type = "WINDOW_UPDATE" -> GrowConnection(c, frame.inc)
    [] OTHER -> [c EXCEPT !.errors = @ \cup {<<"PROTOCOL_ERROR">>}]

\* _receive for a frame of a stream, which may be a new one.
ReceiveForStream(c, frame) ==
  LET new == WithId(c, frame.stream) = {}
      known == IF new THEN CreateIncomingStream(c, frame.stream, frame.tag) ELSE c
      k == IF new THEN Len(known.streams) ELSE StreamOf(c, frame.stream)
      reserved == IF frame.type = "PUSH_PROMISE" THEN ReservePromised(known, frame) ELSE known
  IN  ReceiveOnStream(reserved, k, frame)

\* Flow._write with Connection._receive.
ReceiveFrame(c, frame) ==
  LET first == IF c.unseen /\ frame.type # "SETTINGS"
               THEN [c EXCEPT !.errors = @ \cup {<<"PROTOCOL_ERROR">>}, !.unseen = FALSE]
               ELSE [c EXCEPT !.unseen = FALSE]
      received == IF frame.stream = 0 THEN ReceiveControl(first, frame)
                  ELSE ReceiveForStream(first, frame)
  IN  [received EXCEPT !.flow = Received(@, Len(frame.data))]

-----------------------------------------------------------------------------
(* The operations of the connection.                                       *)

\* set
Set(c, setting) ==
  [PushFrame(c, Control("SETTINGS", FALSE, setting)) EXCEPT !.unacked = Append(@, setting)]

\* ping
Ping(c, data) ==
  [PushFrame(c, Control("PING", FALSE, data)) EXCEPT !.pings = @ \cup {data}]

\* close
Close(c) ==
  IF c.closed THEN c
  ELSE [PushNull(PushFrame(c, Control("GOAWAY", FALSE, c.last))) EXCEPT !.closed = TRUE]

\* Mutant of RestoreConnection: the count of received bytes is kept.
RestoreConnectionAgain(c) ==
  [PushFrame(c, [Control("WINDOW_UPDATE", FALSE, 0) EXCEPT !.inc = c.flow.received])
     EXCEPT !.flow.timer = FALSE]

\* _restoreWindow of the connection: the increment goes on the wire as stream 0.
RestoreConnection(c) ==
  [PushFrame(c, [Control("WINDOW_UPDATE", FALSE, 0) EXCEPT !.inc = c.flow.received])
     EXCEPT !.flow.received = 0, !.flow.timer = FALSE]
=============================================================================
