------------------------------ MODULE NodeFlow ------------------------------
(***************************************************************************)
(* flow.js of the node server: class Flow, the queue and the windows that  *)
(* a stream and a connection share.  A flow is a record; an operation      *)
(* takes a flow and gives the flow it leaves.                              *)
(*                                                                         *)
(*   window, initialWindow   what may still be sent                        *)
(*   queue                   _queue, the flow control buffer               *)
(*   buffer                  _readableState.buffer, the output buffer      *)
(*   ended, received, timer  _ended, _received, _restoreWindowTimer        *)
(*   blocked, waiting        _blocked; a once('window_update') is set      *)
(*   reading                 _readableState.reading                        *)
(*   asked                   _send was called: more frames are wanted      *)
(*   failed                  an assertion of flow.js did not hold          *)
(*                                                                         *)
(* A frame carries data (a sequence of bytes), the END_STREAM flag, the    *)
(* increment of a WINDOW_UPDATE, and count_change, what sending it adds    *)
(* to the active streams.                                                  *)
(***************************************************************************)
EXTENDS Integers, Sequences, SequencesExt

CONSTANTS INITIAL_WINDOW_SIZE, WINDOW_SIZE_LIMIT, MAX_PAYLOAD_SIZE, HighWaterMark

ASSUME FlowAssumption ==
  /\ INITIAL_WINDOW_SIZE \in Nat /\ WINDOW_SIZE_LIMIT \in Nat
  /\ MAX_PAYLOAD_SIZE \in Nat \ {0} /\ HighWaterMark \in Nat \ {0}

F(type) == [type |-> type, data |-> <<>>, end |-> FALSE, inc |-> 0, count |-> 0]
Data(bytes) == [F("DATA") EXCEPT !.data = bytes]
WindowUpdate(size) == [F("WINDOW_UPDATE") EXCEPT !.inc = size]

NewFlow ==
  [window |-> INITIAL_WINDOW_SIZE, initialWindow |-> INITIAL_WINDOW_SIZE,
   queue |-> <<>>, buffer |-> <<>>, ended |-> FALSE, received |-> 0, timer |-> FALSE,
   blocked |-> FALSE, waiting |-> FALSE, reading |-> FALSE,
   asked |-> FALSE, failed |-> FALSE]

-----------------------------------------------------------------------------
(* Sending.                                                                *)

\* What Duplex.push returns for the last push.
MoreNeeded(f) == Len(f.buffer) < HighWaterMark

ParentPush(f, frame) ==
  LET left == f.window - Len(frame.data)
  IN  [f EXCEPT !.buffer = Append(@, frame), !.reading = FALSE,
                !.window = left,
                !.failed = @ \/ (frame.type = "DATA" /\ left < 0)]

\* Mutant of SplitAt: the first part takes the flags, as the frame has them.
SplitEndsFirst(frame, n) ==
  <<[frame EXCEPT !.data = SubSeq(@, 1, n)],
    [frame EXCEPT !.data = SubSeq(@, n + 1, Len(@)), !.end = FALSE]>>

\* A DATA frame in two: the flags stay with the second part.
SplitAt(frame, n) ==
  <<Data(SubSeq(frame.data, 1, n)), [frame EXCEPT !.data = SubSeq(@, n + 1, Len(@))]>>

\* Mutant of Fits: the whole frame goes when any of it may.
FitsPartly(f, frame) == frame.data = <<>> \/ f.window > 0

Fits(f, frame) == frame.type # "DATA" \/ Len(frame.data) <= f.window

\* _push: the flow, and the part of the frame that has to wait (a sequence of
\* one or none).
TryPush(f, frame) ==
  LET parts == SplitAt(frame, f.window)
  IN  IF Fits(f, frame) THEN [flow |-> ParentPush(f, frame), left |-> <<>>]
      ELSE IF f.window <= 0 THEN [flow |-> f, left |-> <<frame>>]
      ELSE [flow |-> ParentPush(f, parts[1]), left |-> <<parts[2]>>]

\* Mutant of Push: the queue is not looked at, so a small frame may pass.
PushPasses(f, frame) ==
  LET t == TryPush(f, frame) IN [t.flow EXCEPT !.queue = @ \o t.left]

Push(f, frame) ==
  IF f.queue = <<>>
  THEN LET t == TryPush(f, frame) IN [t.flow EXCEPT !.queue = t.left]
  ELSE [f EXCEPT !.queue = Append(@, frame)]

\* The loop of _read: frames leave the queue until one of them has to wait or
\* the output buffer is full.
Refill(f) ==
  LET Next(g, frame) ==
        LET t == TryPush(g, frame)
        IN  IF g.queue # <<>> \/ (g.buffer # f.buffer /\ ~MoreNeeded(g))
            THEN [g EXCEPT !.queue = Append(@, frame)]
            ELSE [t.flow EXCEPT !.queue = t.left]
      after == FoldLeft(Next, [f EXCEPT !.queue = <<>>, !.blocked = FALSE], f.queue)
  IN  [after EXCEPT !.failed =
         @ \/ ~(\/ ~MoreNeeded(after) \/ after.queue = <<>>
                \/ after.window = 0 /\ Head(after.queue).type = "DATA")]

\* _read: with an empty queue it calls _send, which is the child's.
Read(f) ==
  IF f.queue = <<>> THEN [f EXCEPT !.asked = TRUE]
  ELSE IF f.window > 0 THEN Refill(f)
  ELSE IF f.blocked THEN f
  ELSE [ParentPush(f, F("BLOCKED")) EXCEPT !.blocked = TRUE, !.waiting = TRUE]

\* A call of _read by the Readable: not again before the next push.
ReadMore(f) ==
  IF f.reading \/ ~MoreNeeded(f) THEN f ELSE Read([f EXCEPT !.reading = TRUE])

\* maybeReadMore, at the end of the turn of a push: it goes on while frames
\* come, which is a refill, a BLOCKED frame, and a call without effect.
EndOfTurn(f) == FoldLeft(LAMBDA g, i : ReadMore(g), f, <<1, 2, 3>>)

\* read(limit) with a limit of at least 1, when the buffer is not empty: the
\* frame and the flow it leaves.
TakeFrame(f, limit) ==
  LET head == Head(f.buffer)
      most == IF limit > MAX_PAYLOAD_SIZE THEN MAX_PAYLOAD_SIZE ELSE limit
      parts == SplitAt(head, most)
  IN  IF head.type = "DATA" /\ Len(head.data) > most
      THEN [frame |-> parts[1], flow |-> [f EXCEPT !.buffer = <<parts[2]>> \o Tail(@)]]
      ELSE [frame |-> head, flow |-> [f EXCEPT !.buffer = Tail(@)]]

\* read() with an empty buffer calls _read first.
Polled(f) == IF f.buffer = <<>> THEN Read(f) ELSE f

\* The reader takes frames until it finds the buffer empty, which calls _read.
Taken(f, limit) == Polled(TakeFrame(f, limit).flow)

\* getLastQueuedFrame().flags.END_STREAM = true.
LastQueued(f) == f.buffer \o f.queue
MarkLast(f) ==
  IF f.queue # <<>> THEN [f EXCEPT !.queue[Len(f.queue)].end = TRUE]
  ELSE [f EXCEPT !.buffer[Len(f.buffer)].end = TRUE]

-----------------------------------------------------------------------------
(* Windows.                                                                *)

TooLarge(f, size) == f.window + size > WINDOW_SIZE_LIMIT

\* _increaseWindow up to the event; size is negative when SETTINGS lower the
\* initial window.
Grow(f, size) == [f EXCEPT !.window = @ + size]

\* The listener set by a blocked _read: it is there for one event only.
Wake(f) == IF f.waiting THEN Read([f EXCEPT !.waiting = FALSE]) ELSE f

IncreaseWindow(f, size) ==
  IF TooLarge(f, size) THEN Grow(f, size) ELSE Wake(Grow(f, size))

SetInitialWindow(f, size) ==
  [IncreaseWindow(f, size - f.initialWindow) EXCEPT !.initialWindow = size]

\* Mutant of RestoreWindow: the count of received bytes is kept.
RestoreAgain(f) ==
  IF f.ended \/ f.received = 0 THEN [f EXCEPT !.timer = FALSE]
  ELSE Push([f EXCEPT !.timer = FALSE], WindowUpdate(f.received))

\* _restoreWindow, some turns after DATA was taken.
RestoreWindow(f) ==
  IF f.ended \/ f.received = 0 THEN [f EXCEPT !.timer = FALSE]
  ELSE [Push([f EXCEPT !.timer = FALSE], WindowUpdate(f.received)) EXCEPT !.received = 0]

Received(f, n) == IF n = 0 THEN f ELSE [f EXCEPT !.received = @ + n, !.timer = TRUE]
=============================================================================
