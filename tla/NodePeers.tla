------------------------------ MODULE NodePeers ------------------------------
(***************************************************************************)
(* Two connections of the node server, the client A and the server B, over *)
(* a transport that keeps the order.  What the users do on each stream is  *)
(* a script; when they do it is open.                                      *)
(***************************************************************************)
EXTENDS NodeConnection

CONSTANT Plans   \* what the users may want, a set of records with the fields
                 \*   creates  [Ends -> Nat], how many streams an end creates
                 \*   scripts  [Ends -> [Tags -> sequence of steps]]
                 \*   settings [Ends -> sequence of settings], what an end sets
                 \*   pingers, closers   the ends that send a PING, that close

VARIABLES conn,      \* [Ends -> connection]
          channel,   \* [Ends -> frames on their way to this end]
          steps,     \* [Ends -> [Tags -> how many steps the user has done]]
          plan       \* the plan of the users

vars == <<conn, channel, steps, plan>>

Ends == {"A", "B"}
Peer(e) == IF e = "A" THEN "B" ELSE "A"

\* A turn of the event loop leaves c as the connection of e.
Becomes(e, c) == \E d \in {c} : conn' = [conn EXCEPT ![e] = EndOfConnectionTurn(d)]

\* The constructor sends the first SETTINGS.
Init ==
  /\ conn = [e \in Ends |->
               EndOfConnectionTurn(Set(NewConnection(IF e = "A" THEN 1 ELSE 2), NoSetting))]
  /\ channel = [e \in Ends |-> <<>>]
  /\ plan \in Plans
  /\ steps = [e \in Ends |-> [tag \in DOMAIN plan.scripts[e] |-> 0]]

-----------------------------------------------------------------------------
(* The users.                                                              *)

Created(e) == Cardinality({k \in DOMAIN conn[e].streams : conn[e].streams[k].tag[1] = e})

Create(e) ==
  /\ Created(e) < plan.creates[e] /\ ~conn[e].closed
  /\ Becomes(e, CreateStream(conn[e], <<e, Created(e) + 1>>))
  /\ UNCHANGED <<channel, steps, plan>>

\* The next step of the script for the stream k.
Do(e, k, step) ==
  LET c == conn[e]
      entry == c.streams[k]
      s == entry.s
  IN  CASE step = "headers" -> Touch(c, k, Headers(s))
        [] step = "data" -> Touch(c, k, Write(s, <<1>>))
        [] step = "end" -> Touch(c, k, Finishing(s))
        [] step = "reset" -> Touch(c, k, Reset(s))
        [] step = "promise" -> Promise(c, k, <<e, Created(e) + 1>>)

StepOnStream(e, k) ==
  LET entry == conn[e].streams[k]
      script == plan.scripts[e][entry.tag]
      done == steps[e][entry.tag]
  IN  /\ done < Len(script)
      /\ ~entry.s.writing /\ ~entry.s.thrown
      /\ entry.tag[1] = e \/ entry.s.processedHeaders
      /\ Becomes(e, Do(e, k, script[done + 1]))
      /\ steps' = [steps EXCEPT ![e][entry.tag] = @ + 1]
      /\ UNCHANGED <<channel, plan>>

SetNext(e) ==
  LET done == Len(conn[e].acked) + Len(conn[e].unacked) - 1
  IN  /\ done < Len(plan.settings[e]) /\ ~conn[e].closed
      /\ Becomes(e, Set(conn[e], plan.settings[e][done + 1]))
      /\ UNCHANGED <<channel, steps, plan>>

SendPing(e) ==
  /\ e \in plan.pingers /\ ~conn[e].closed /\ conn[e].pings = {} /\ conn[e].answered = <<>>
  /\ Becomes(e, Ping(conn[e], e))
  /\ UNCHANGED <<channel, steps, plan>>

CloseConnection(e) ==
  /\ e \in plan.closers /\ ~conn[e].closed
  /\ Becomes(e, Close(conn[e]))
  /\ UNCHANGED <<channel, steps, plan>>

-----------------------------------------------------------------------------
(* The event loop and the transport.                                       *)

RunSend(e) ==
  /\ conn[e].scheduled
  /\ Becomes(e, SendFrames(conn[e]))
  /\ UNCHANGED <<channel, steps, plan>>

\* The transport reads a frame.
Transmit(e) ==
  LET f == conn[e].flow
      left == IF conn[e].eof THEN TakeFrame(f, MAX_PAYLOAD_SIZE).flow ELSE Taken(f, MAX_PAYLOAD_SIZE)
  IN  /\ f.buffer # <<>>
      /\ Becomes(e, SendSoon([conn[e] EXCEPT !.flow = left]))
      /\ channel' = [channel EXCEPT ![Peer(e)] = Append(@, TakeFrame(f, MAX_PAYLOAD_SIZE).frame)]
      /\ UNCHANGED <<steps, plan>>

Deliver(e) ==
  /\ channel[e] # <<>>
  /\ Becomes(e, ReceiveFrame(conn[e], Head(channel[e])))
  /\ channel' = [channel EXCEPT ![e] = Tail(@)]
  /\ UNCHANGED <<steps, plan>>

RestoreStream(e, k) ==
  LET s == conn[e].streams[k].s
  IN  /\ s.upstream.timer
      /\ Becomes(e, Touch(conn[e], k, [s EXCEPT !.upstream = RestoreWindow(@)]))
      /\ UNCHANGED <<channel, steps, plan>>

Restore(e) ==
  /\ conn[e].flow.timer
  /\ Becomes(e, RestoreConnection(conn[e]))
  /\ UNCHANGED <<channel, steps, plan>>

Next ==
  \E e \in Ends :
    \/ Create(e) \/ SetNext(e) \/ SendPing(e) \/ CloseConnection(e)
    \/ RunSend(e) \/ Transmit(e) \/ Deliver(e) \/ Restore(e)
    \/ \E k \in DOMAIN conn[e].streams : StepOnStream(e, k) \/ RestoreStream(e, k)

Spec == Init /\ [][Next]_vars

-----------------------------------------------------------------------------
\* A frame reaches the stream of its sender: both ends know an id for the same stream.
\* Ids are given late, when the first frame of a stream is forwarded, and a promised
\* stream gets its id while the frame of another stream is sent.
FramesReachTheirStream ==
  \A e \in Ends :
    /\ \A i \in DOMAIN channel[e] :
         LET frame == channel[e][i]
         IN  frame.stream # 0 =>
               \A k \in WithId(conn[e], frame.stream) : conn[e].streams[k].tag = frame.tag
    /\ \A k, l \in DOMAIN conn[e].streams :
         conn[e].streams[k].id = conn[e].streams[l].id => k = l \/ conn[e].streams[k].id = 0

Bytes(frames) == FlattenSeq([i \in 1..Len(frames) |-> frames[i].data])
On(frames, id) == SelectSeq(frames, LAMBDA frame : frame.stream = id)
Increments(frames) == FoldLeft(LAMBDA n, f : n + f.inc, 0, frames)

\* The window of the connection, the DATA under way on any stream, what the peer has
\* not yet given back and the increments under way add up to the initial window: no
\* credit is lost or doubled by the restore timer, split frames or streams that close.
ConnectionCredit ==
  \A e \in Ends :
    LET c == conn[e] p == conn[Peer(e)]
    IN  ~p.eof =>
          c.flow.window + Len(Bytes(c.flow.buffer)) + Len(Bytes(channel[Peer(e)])) + p.flow.received
            + Increments(On(p.flow.buffer, 0)) + Increments(On(channel[e], 0))
          = INITIAL_WINDOW_SIZE

\* What stream k of e has sent and not been given back.
Outstanding(e, k) ==
  LET c == conn[e] p == conn[Peer(e)]
      id == c.streams[k].id
      f == c.streams[k].s.upstream
      there == {p.streams[l].s.upstream : l \in WithId(p, id)}
  IN  Len(Bytes(f.buffer)) + Len(Bytes(On(c.flow.buffer, id))) + Len(Bytes(On(channel[Peer(e)], id)))
      + Increments(On(p.flow.buffer, id)) + Increments(On(channel[e], id))
      + MapThenSumSet(LAMBDA g : g.received + Increments(g.queue) + Increments(g.buffer), there)

\* The same for each stream and the initial window in force, though SETTINGS change it
\* while DATA and WINDOW_UPDATE frames are under way, and streams that get an id later
\* start from the new one.
StreamCredit ==
  \A e \in Ends : \A k \in DOMAIN conn[e].streams :
    LET c == conn[e] p == conn[Peer(e)]
        id == c.streams[k].id
    IN  id # 0 /\ ~p.eof /\ (\A l \in WithId(p, id) : ~p.streams[l].s.upstream.ended)
          => c.streams[k].s.upstream.window + Outstanding(e, k) = c.initial

Windows(settings) ==
  LET chosen == SelectSeq(settings, LAMBDA setting : setting.name = "INITIAL_WINDOW_SIZE")
  IN  [i \in DOMAIN chosen |-> chosen[i].value]

\* When the callback of set has run, the peer works with these settings, or with later
\* ones that were also sent: acknowledgements are matched to the callbacks in order.
AcknowledgedIsApplied ==
  \A e \in Ends :
    LET old == <<INITIAL_WINDOW_SIZE>> \o Windows(conn[e].acked)
        new == Windows(conn[e].unacked)
    IN  conn[Peer(e)].initial \in {Last(old)} \cup Range(new)

\* Nothing is under way.
Idle ==
  \A e \in Ends :
    /\ channel[e] = <<>> /\ ~conn[e].scheduled /\ conn[e].flow.buffer = <<>> /\ ~conn[e].flow.timer
    /\ \A k \in DOMAIN conn[e].streams : ~conn[e].streams[k].s.upstream.timer

\* When nothing is under way, no frame waits in the output buffer of a stream, and no
\* ping or SETTINGS waits for its answer, unless an end has closed: _send, which sleeps
\* until 'wakeup', was woken for everything that could be sent.
NothingLeftBehind ==
  Idle => \A e \in Ends :
            \/ conn[e].closed
            \/ /\ \A k \in Range(conn[e].order) : conn[e].streams[k].s.upstream.buffer = <<>>
               /\ conn[Peer(e)].closed \/ (conn[e].unacked = <<>> /\ conn[e].pings = {})

Ours(c) == {k \in DOMAIN c.streams : c.streams[k].s.initiated = "us"}
Counts(frames) == FoldLeft(LAMBDA n, f : n + f.count, 0, frames)

\* The sum of the changes given to _changeStreamCount is the number of active streams
\* that this end has opened, but for the changes that frames in the output buffers still
\* carry, and for streams closed by END_STREAM set on a frame that was already queued,
\* whose change is lost.
ActiveCounted ==
  \A e \in Ends :
    LET c == conn[e]
        active == MapThenSumSet(LAMBDA k : activeState(c.streams[k].s.state), Ours(c))
        waiting == MapThenSumSet(LAMBDA k : LET f == c.streams[k].s.upstream
                                            IN Counts(f.buffer) + Counts(f.queue), Ours(c))
        lost == Cardinality({k \in Ours(c) : c.streams[k].s.closedByUs /\ ~c.streams[k].s.closedWithRst})
        more == c.counted - (active - waiting)
    IN  0 <= more /\ more <= lost

\* With a limit on the concurrent streams of this end (MAX_CONCURRENT_STREAMS of the
\* peer), no frame is sent that makes more of them active, as the comment on _send says.
LimitRespected ==
  [][\A e \in Ends :
       conn'[e].counted > conn[e].counted /\ conn[e].limit.kind = "finite"
         => conn'[e].counted <= conn[e].limit.value]_vars
=============================================================================
