---------------------------- MODULE NodeDialogue ----------------------------
(***************************************************************************)
(* One stream of the node server between two peers: A opens it, B answers. *)
(* Each end is a Stream of NodeStream with its upstream Flow; their        *)
(* connections carry frames in order.  The users write chunks of bytes,    *)
(* end, read and may reset; a peer may change the initial window.          *)
(***************************************************************************)
EXTENDS NodeStream

CONSTANTS Chunks,      \* the sizes of the chunks that a user writes
          MaxBytes,    \* [Ends -> Nat], what a user writes at most
          Resetters,   \* the ends whose user may reset the stream
          Windows,     \* the initial windows that SETTINGS may set
          MaxSettings, \* how often they do
          Limits       \* what the window of the connection leaves for a frame

\* Connection.write reads only while its window is above zero; SETTINGS hold numbers.
ASSUME DialogueAssumption ==
  Chunks \subseteq Nat /\ Windows \subseteq Nat /\ Limits \subseteq Nat \ {0}

VARIABLES stream,      \* [Ends -> stream]
          channel,     \* [Ends -> frames on their way to this end]
          said,        \* [Ends -> the user has sent its headers]
          named,       \* [Ends -> the stream has its identifier here]
          wrote,       \* [Ends -> bytes the user has written]
          got,         \* [Ends -> bytes the user has read]
          user,        \* [Ends -> "open", "ending" or "ended"]
          settings     \* how often the initial window was changed

vars == <<stream, channel, said, named, wrote, got, user, settings>>

Ends == {"A", "B"}
Peer(e) == IF e = "A" THEN "B" ELSE "A"

Init ==
  /\ stream = [e \in Ends |-> NewStream]
  /\ channel = [e \in Ends |-> <<>>]
  /\ said = [e \in Ends |-> FALSE]
  /\ named = [e \in Ends |-> FALSE]
  /\ wrote = [e \in Ends |-> 0]
  /\ got = [e \in Ends |-> 0]
  /\ user = [e \in Ends |-> "open"]
  /\ settings = 0

\* A turn of the event loop leaves s as the stream of e.
Becomes(e, s) == \E t \in {s} : stream' = [stream EXCEPT ![e] = EndTurn(t)]

-----------------------------------------------------------------------------
(* The users.                                                              *)

\* A opens the stream, B answers when it has seen the headers.
SendHeaders(e) ==
  /\ ~said[e] /\ ~stream[e].thrown
  /\ e = "A" \/ stream[e].processedHeaders
  /\ Becomes(e, Headers(stream[e]))
  /\ said' = [said EXCEPT ![e] = TRUE]
  /\ UNCHANGED <<channel, named, wrote, got, user, settings>>

\* A user that has not ended or reset the stream writes, once its last write
\* is done.
WriteChunk(e, n) ==
  /\ said[e] /\ user[e] = "open"
  /\ ~stream[e].writing /\ ~stream[e].resetSent /\ ~stream[e].thrown
  /\ wrote[e] + n <= MaxBytes[e]
  /\ Becomes(e, Write(stream[e], [i \in 1..n |-> wrote[e] + i]))
  /\ wrote' = [wrote EXCEPT ![e] = @ + n]
  /\ UNCHANGED <<channel, said, named, got, user, settings>>

\* end(): the event 'finish' comes when the last write is done.
End(e) ==
  /\ said[e] /\ user[e] = "open" /\ ~stream[e].resetSent
  /\ user' = [user EXCEPT ![e] = "ending"]
  /\ UNCHANGED <<stream, channel, said, named, wrote, got, settings>>

Finish(e) ==
  /\ user[e] = "ending" /\ ~stream[e].writing /\ ~stream[e].thrown
  /\ Becomes(e, Finishing(stream[e]))
  /\ user' = [user EXCEPT ![e] = "ended"]
  /\ UNCHANGED <<channel, said, named, wrote, got, settings>>

ResetStream(e) ==
  /\ e \in Resetters /\ said[e] /\ ~stream[e].resetSent /\ ~stream[e].thrown
  /\ Becomes(e, Reset(stream[e]))
  /\ UNCHANGED <<channel, said, named, wrote, got, user, settings>>

ReadBody(e) ==
  /\ stream[e].user # <<>>
  /\ Becomes(e, UserRead(stream[e]))
  /\ got' = [got EXCEPT ![e] = @ + Len(Readied(stream[e]).user)]
  /\ UNCHANGED <<channel, said, named, wrote, user, settings>>

-----------------------------------------------------------------------------
(* The flow and the connection.                                            *)

\* The connection reads a frame of the stream and forwards it.  It is woken by
\* 'readable', and by whatever else it has to send: then the buffer may be empty.
Forward(e, limit) ==
  LET f == Polled(stream[e].upstream)
      found == f.buffer # <<>>
  IN  /\ Becomes(e, Send([stream[e] EXCEPT !.upstream = IF found THEN Taken(f, limit) ELSE f]))
      /\ channel' = IF found THEN [channel EXCEPT ![Peer(e)] = Append(@, TakeFrame(f, limit).frame)]
                    ELSE channel
      /\ named' = [named EXCEPT ![e] = @ \/ found]
      /\ UNCHANGED <<said, wrote, got, user, settings>>

Deliver(e) ==
  /\ channel[e] # <<>>
  /\ \E written \in {WriteUpstream(stream[e], Head(channel[e]))} :
       Becomes(e, Process(written, Head(channel[e])))
  /\ channel' = [channel EXCEPT ![e] = Tail(@)]
  /\ named' = [named EXCEPT ![e] = TRUE]
  /\ UNCHANGED <<said, wrote, got, user, settings>>

\* The timer of _restoreWindow.
Restore(e) ==
  /\ stream[e].upstream.timer
  /\ Becomes(e, [stream[e] EXCEPT !.upstream = RestoreWindow(@)])
  /\ UNCHANGED <<channel, said, named, wrote, got, user, settings>>

\* SETTINGS of the peer change the initial window of the streams in use.
ChangeWindow(e, size) ==
  /\ named[e] /\ settings < MaxSettings /\ size # stream[e].upstream.initialWindow
  /\ Becomes(e, Send([stream[e] EXCEPT !.upstream = SetInitialWindow(@, size)]))
  /\ settings' = settings + 1
  /\ UNCHANGED <<channel, said, named, wrote, got, user>>

Next ==
  \E e \in Ends :
    \/ SendHeaders(e) \/ (\E n \in Chunks : WriteChunk(e, n))
    \/ End(e) \/ Finish(e) \/ ResetStream(e)
    \/ ReadBody(e)
    \/ (\E limit \in Limits : Forward(e, limit))
    \/ Deliver(e) \/ Restore(e)
    \/ (\E size \in Windows : ChangeWindow(e, size))

Spec == Init /\ [][Next]_vars

\* The event loop runs what is pending, and both users read what they get; to
\* write, to end or to reset is up to them.
Work(e) ==
  \/ Finish(e) \/ ReadBody(e) \/ Deliver(e) \/ Restore(e)
  \/ stream[e].upstream.buffer # <<>> /\ \E limit \in Limits : Forward(e, limit)

Fairness == WF_vars(\E e \in Ends : Work(e))

FairSpec == Spec /\ Fairness

-----------------------------------------------------------------------------
(* Safety.                                                                 *)

Bytes(frames) == FlattenSeq([i \in 1..Len(frames) |-> frames[i].data])

\* The bytes between the user of e, who writes them, and the user of its peer.
OnTheWay(e) ==
  LET s == stream[e] p == stream[Peer(e)]
  IN  p.user \o Bytes(p.input) \o Bytes(channel[Peer(e)])
      \o Bytes(s.upstream.buffer) \o Bytes(s.upstream.queue)

\* What a user reads is what the other has written, from its first byte on and
\* in order, however the flow control buffer, the two splits of a frame, the
\* windows and the back pressure of the user cut and hold the body.
BytesInOrder ==
  \A e \in Ends :
    OnTheWay(e) = [i \in 1..(wrote[e] - got[Peer(e)]) |-> got[Peer(e)] + i]

\* A stream that has seen END_STREAM, and no RST_STREAM, has the whole body:
\* the mark that 'finish' puts on the last queued frame never overtakes data,
\* and no frame gets it twice.
WholeBody ==
  \A e \in Ends :
    stream[e].ended /\ ~stream[e].closedWithRst
      => /\ user[Peer(e)] = "ended"
         /\ got[e] + Len(stream[e].user) = wrote[Peer(e)]

Increments(frames) == FoldLeft(LAMBDA n, f : n + f.inc, 0, frames)

\* What e has sent and not been given back.
Outstanding(e) ==
  LET s == stream[e].upstream p == stream[Peer(e)]
  IN  Len(Bytes(s.buffer)) + Len(Bytes(channel[Peer(e)])) + Len(Bytes(p.input))
      + Len(FlattenSeq(p.busy)) + p.upstream.received
      + Increments(p.upstream.queue) + Increments(p.upstream.buffer)
      + Increments(channel[e]) + Increments(stream[e].input)

\* Every byte of the initial window is in the window of the sender or on a way
\* that gives it back: _restoreWindow gives back each byte once, also after
\* SETTINGS have moved the window, even below zero, and after either end ended.
CreditConserved ==
  \A e \in Ends :
    stream[e].upstream.window + Outstanding(e) = stream[e].upstream.initialWindow

\* The assertions of flow.js: a frame is pushed within the window (line 239), and
\* _read leaves either enough frames, no queue, or a window of exactly 0
\* (lines 171-173).
NoAssertionFails == \A e \in Ends : ~stream[e].upstream.failed

\* The user sees an exception of _transition only when the stream was reset.
ThrowsOnlyAfterReset == \A e \in Ends : stream[e].thrown => stream[e].closedWithRst

\* A frame that a closed stream may still get: one sent before the peer knew, on a
\* stream closed by the peer's END_STREAM or RST_STREAM; and BLOCKED, which _read may
\* push after END_STREAM and which is not legal on a closed stream (lines 569-571).
LateFrame(s, frame) ==
  /\ s.state = "CLOSED"
  /\ frame.type = "BLOCKED" \/ (~s.closedByUs /\ frame.type \in {"WINDOW_UPDATE", "RST_STREAM"})

\* A stream reports an error of its peer only for a late frame, or for a frame
\* that was queued before _transition threw at the peer's user.
ErrorsAreLateFrames ==
  [][\A e \in Ends :
       stream'[e].errors # stream[e].errors
         => /\ channel[e] # <<>>
            /\ LateFrame(stream[e], Head(channel[e])) \/ stream[Peer(e)].thrown]_vars

\* The state of the other end.
Dual(state) ==
  CASE state = "HALF_CLOSED_LOCAL" -> "HALF_CLOSED_REMOTE"
    [] state = "HALF_CLOSED_REMOTE" -> "HALF_CLOSED_LOCAL"
    [] OTHER -> state

Quiet ==
  \A e \in Ends :
    /\ channel[e] = <<>> /\ stream[e].input = <<>>
    /\ stream[e].upstream.buffer = <<>> /\ stream[e].upstream.queue = <<>>

\* When nothing is on its way the two state machines agree, although each moves
\* when a frame is queued and the other when it arrives.
StatesDual ==
  Quiet /\ (\A e \in Ends : ~stream[e].thrown)
    => Dual(stream["A"].state) = stream["B"].state

-----------------------------------------------------------------------------
(* Liveness.                                                               *)

\* The three ways in which a dialogue stands still for ever.

\* The last DATA, which has END_STREAM, filled the buffer of the user: after the
\* end the Duplex calls _read no more, and what comes after it waits.
InputStuck(e) == stream[e].ended /\ stream[e].busy # <<>>

\* Frames wait in the flow control buffer, nothing in the output buffer makes the
\* connection look, and no listener waits for 'window_update': a write found the
\* window at 0 after the last _read, or the listener went with an update that left
\* the window at 0 while _blocked keeps the next _read from setting another.
NobodyListens(e) ==
  LET f == stream[e].upstream IN f.queue # <<>> /\ f.buffer = <<>> /\ ~f.waiting

\* Each has its WINDOW_UPDATE behind DATA that waits for the other's.
BothBlocked ==
  \A e \in Ends :
    LET f == stream[e].upstream
    IN  f.queue # <<>> /\ f.window <= 0 /\ Head(f.queue).type = "DATA"

Stalled == BothBlocked \/ \E e \in Ends : InputStuck(e) \/ NobodyListens(e)

WasReset == \E e \in Ends : stream[e].resetSent \/ stream[e].closedWithRst

\* A user that ends has its whole body read by the other, unless the stream is
\* reset or stalls in one of the three ways.
BodyArrives ==
  \A e \in Ends :
    user[e] = "ending" ~>
      WasReset \/ []Stalled \/ (stream[Peer(e)].ended /\ got[Peer(e)] = wrote[e])
=============================================================================
