------------------------------ MODULE Exchange ------------------------------
(***************************************************************************)
(* Requests and their responses: the calls of Http2Client.Send, the Write  *)
(* task (ProcessSentFrame after the bytes left), the Read task             *)
(* (ProcessReceivedFrames and the handler Send subscribed), the dictionary *)
(* of StreamManager, and the count of received bytes that FreeUpWindowSpace*)
(* gives back to the server.                                               *)
(*                                                                         *)
(* The queue between Send and the Write task is what FrameQueue implements *)
(* (module RequestChannels): each request's frames leave in their order,   *)
(* requests interleave.  Send windows are the business of FrameQueue.      *)
(*                                                                         *)
(* Stream objects live on a heap, objects: the dictionary, a Send and the  *)
(* tasks may hold different objects for one identifier.                    *)
(***************************************************************************)
EXTENDS Http2Stream, Sequences, FiniteSets, SequencesExt

CONSTANTS Senders,   \* the calls of Send
          Request,   \* Request[s]: the frames s queues, in order
          Response   \* Response[s]: the frames the server answers with

ExchangeFrame == [type : FrameTypes, length : Nat,
                  endHeaders : BOOLEAN, endStream : BOOLEAN]

\* A process makes finitely many calls.
ASSUME SendersAssumption == IsFiniteSet(Senders)

ASSUME ExchangeAssumption ==
  /\ Request \in [Senders -> Seq(ExchangeFrame)]
  /\ Response \in [Senders -> Seq(ExchangeFrame)]
  /\ \A s \in Senders : Len(Request[s]) > 0
  /\ \A s \in Senders : \A k \in DOMAIN Request[s] :
       Request[s][k].type \in {"Headers", "Continuation", "Data"}

VARIABLES
  pc,                 \* where each Send is
  own,                \* own[s]: the stream object s got
  queued,             \* queued[s]: how many frames of its request s has queued
  released,           \* semaphoreClose of s was released
  collected,          \* the frames s copied out of ReceivedFrames
  amount,             \* sizeToFree of s, or Count of the list it iterates
  objects,            \* every Http2Stream created, in order
  streams,            \* StreamManager: identifier -> place in objects
  nextStreamId,
  connected,
  written,            \* written[s]: how many frames of s's request were written
  writer,             \* the Write task
  answered,           \* answered[s]: how many frames of its response were read
  reader,             \* the Read task
  receivedDataCount,
  freed               \* history: the WINDOW_UPDATE increments queued

senderVars == <<pc, own, queued, collected, amount>>
streamVars == <<objects, streams, nextStreamId>>
taskVars   == <<connected, written, writer, answered, reader>>
creditVars == <<receivedDataCount, freed>>
vars == <<senderVars, released, streamVars, taskVars, creditVars>>

NoObject == 0
StreamId(s) == objects[own[s]].id

\* A new Http2Stream for identifier id.
NewStream(id) == [id |-> id, state |-> "Idle", received |-> <<>>]

\* nextStreamId after GetNextIdentifier.
Identifiers(n) == n + 2

\* StreamManager.Get(id), under lockStreams: found, or created and added.
GetById(id, object) ==
  IF id \in DOMAIN streams
  THEN object = streams[id] /\ UNCHANGED <<objects, streams>>
  ELSE /\ object = Len(objects) + 1
       /\ objects' = Append(objects, NewStream(id))
       /\ streams' = [i \in DOMAIN streams \union {id} |->
                        IF i = id THEN Len(objects) + 1 ELSE streams[i]]

Init ==
  /\ pc = [s \in Senders |-> "start"]
  /\ own = [s \in Senders |-> NoObject]
  /\ queued = [s \in Senders |-> 0]
  /\ released = [s \in Senders |-> FALSE]
  /\ collected = [s \in Senders |-> <<>>]
  /\ amount = [s \in Senders |-> 0]
  /\ objects = <<>>
  /\ streams = [i \in {} |-> NoObject]
  /\ nextStreamId = 1
  /\ connected = TRUE
  /\ written = [s \in Senders |-> 0]
  /\ writer = [at |-> "take"]
  /\ answered = [s \in Senders |-> 0]
  /\ reader = [at |-> "read"]
  /\ receivedDataCount = 0
  /\ freed = <<>>

Move(s, from, to) == pc[s] = from /\ pc' = [pc EXCEPT ![s] = to]

-----------------------------------------------------------------------------
(* Send.                                                                   *)

\* StreamManager.Get(), and the subscription: no frame can arrive between
\* the two, as the server has not seen the identifier.
GetStream(s) ==
  /\ Move(s, "start", "queue")
  /\ objects' = Append(objects, NewStream(nextStreamId))
  /\ streams' = [i \in DOMAIN streams \union {nextStreamId} |->
                   IF i = nextStreamId THEN Len(objects) + 1 ELSE streams[i]]
  /\ own' = [own EXCEPT ![s] = Len(objects) + 1]
  /\ nextStreamId' = Identifiers(nextStreamId)
  /\ UNCHANGED <<queued, collected, amount, released, taskVars, creditVars>>

\* Enqueue waits for semaphoreFrames, which nothing gives back after the
\* Write task has died inside Dequeue.
EnqueueReturns == writer.at # "faulted"

QueueFrame(s) ==
  /\ pc[s] = "queue"
  /\ EnqueueReturns
  /\ queued' = [queued EXCEPT ![s] = @ + 1]
  /\ pc' = [pc EXCEPT ![s] = IF queued'[s] = Len(Request[s]) THEN "wait" ELSE @]
  /\ UNCHANGED <<own, collected, amount, released, streamVars, taskVars, creditVars>>

WaitReturns(s) ==
  /\ Move(s, "wait", "enumerate")
  /\ released[s]
  /\ UNCHANGED <<own, queued, collected, amount, released, streamVars, taskVars, creditVars>>

\* Mutant of TimesOut: WaitAsync without a timeout.
TimesOutNever(s) == FALSE /\ UNCHANGED vars

\* WaitAsync returns false, or its token is cancelled, and Send throws: the
\* stream stays in the dictionary.
TimesOut(s) ==
  /\ Move(s, "wait", "timedOut")
  /\ UNCHANGED <<own, queued, collected, amount, released, streamVars, taskVars, creditVars>>

\* foreach takes an enumerator of ReceivedFrames.
Enumerate(s) ==
  /\ Move(s, "enumerate", "collect")
  /\ amount' = [amount EXCEPT ![s] = Len(objects[own[s]].received)]
  /\ UNCHANGED <<own, queued, collected, released, streamVars, taskVars, creditVars>>

\* The enumerator throws if the Read task has added to the list before the
\* loop ends, and UnpackHeaders on a header block it cannot decode: the stream
\* then stays in the dictionary, too.
CollectResponse(s) ==
  /\ pc[s] = "collect"
  /\ \E decodable \in BOOLEAN :
       IF Len(objects[own[s]].received) = amount[s] /\ decodable
       THEN /\ collected' = [collected EXCEPT ![s] = objects[own[s]].received]
            /\ pc' = [pc EXCEPT ![s] = "cleanup"]
       ELSE /\ pc' = [pc EXCEPT ![s] = "failed"]
            /\ UNCHANGED collected
  /\ UNCHANGED <<own, queued, amount, released, streamVars, taskVars, creditVars>>

Cleanup(s) ==
  /\ Move(s, "cleanup", "free")
  /\ streams' = [i \in DOMAIN streams \ {StreamId(s)} |-> streams[i]]
  /\ UNCHANGED <<own, queued, collected, amount, released, objects, nextStreamId,
                 taskVars, creditVars>>

\* Mutant of FreeUpWindowSpace: the counter is read but not exchanged.
FreeUpWindowSpaceRead(s) ==
  /\ pc[s] = "free"
  /\ amount' = [amount EXCEPT ![s] = receivedDataCount]
  /\ pc' = [pc EXCEPT ![s] = IF amount'[s] = 0 THEN "done" ELSE "update"]
  /\ UNCHANGED <<own, queued, collected, released, streamVars, taskVars, creditVars>>

\* Interlocked.Exchange, and the early return.
FreeUpWindowSpace(s) ==
  /\ pc[s] = "free"
  /\ amount' = [amount EXCEPT ![s] = receivedDataCount]
  /\ receivedDataCount' = 0
  /\ pc' = [pc EXCEPT ![s] = IF amount'[s] = 0 THEN "done" ELSE "update"]
  /\ UNCHANGED <<own, queued, collected, released, streamVars, taskVars, freed>>

QueueWindowUpdate(s) ==
  /\ Move(s, "update", "done")
  /\ EnqueueReturns
  /\ freed' = Append(freed, amount[s])
  /\ UNCHANGED <<own, queued, collected, amount, released, streamVars, taskVars,
                 receivedDataCount>>

Send(s) ==
  \/ GetStream(s) \/ QueueFrame(s) \/ WaitReturns(s) \/ TimesOut(s) \/ Enumerate(s)
  \/ CollectResponse(s) \/ Cleanup(s) \/ FreeUpWindowSpace(s) \/ QueueWindowUpdate(s)

-----------------------------------------------------------------------------
(* The Write task: the server has the frame before State knows of it.      *)

WriteFrame(s) ==
  /\ writer.at = "take"
  /\ connected
  /\ written[s] < queued[s]
  /\ written' = [written EXCEPT ![s] = @ + 1]
  /\ writer' = [at |-> "get", id |-> StreamId(s), frame |-> Request[s][written'[s]]]
  /\ UNCHANGED <<senderVars, released, streamVars, connected, answered, reader, creditVars>>

WriterGetsStream ==
  /\ writer.at = "get"
  /\ \E object \in 1 .. Len(objects) + 1 :
       /\ GetById(writer.id, object)
       /\ writer' = [at |-> "read", object |-> object, frame |-> writer.frame]
  /\ UNCHANGED <<senderVars, released, nextStreamId, connected, written, answered,
                 reader, creditVars>>

\* switch (State) of ProcessSentFrame, before the branch assigns.
WriterReadsState ==
  /\ writer.at = "read"
  /\ writer' = [at |-> "set", object |-> writer.object, frame |-> writer.frame,
                state |-> objects[writer.object].state]
  /\ UNCHANGED <<senderVars, released, streamVars, connected, written, answered,
                 reader, creditVars>>

WriterSetsState ==
  /\ writer.at = "set"
  /\ LET new == SentState(writer.state, writer.frame)
     IN  objects' = IF new = writer.state THEN objects
                    ELSE [objects EXCEPT ![writer.object].state = new]
  /\ writer' = [at |-> "take"]
  /\ UNCHANGED <<senderVars, released, streams, nextStreamId, connected, written,
                 answered, reader, creditVars>>

\* Dequeue throws (AddMissingWindow of FrameQueue): its scan looks up the
\* window of a stream for the first time, for DATA, while the Read task handles
\* a WINDOW_UPDATE of a stream the server knows.  No other Write task can
\* dequeue, or a Send enqueue, from here on.
WriterFaults ==
  /\ writer.at = "take"
  /\ \E s \in Senders :
       /\ written[s] > 0
       /\ \A k \in 1 .. written[s] : Request[s][k].type # "Data"
       /\ \E k \in written[s] + 1 .. queued[s] : Request[s][k].type = "Data"
  /\ writer' = [at |-> "faulted"]
  /\ UNCHANGED <<senderVars, released, streamVars, connected, written, answered,
                 reader, creditVars>>

Writer == (\E s \in Senders : WriteFrame(s)) \/ WriterGetsStream \/ WriterReadsState
          \/ WriterSetsState \/ WriterFaults

-----------------------------------------------------------------------------
(* The Read task.                                                          *)

\* What a received frame adds to receivedDataCount.
CountedBytes(frame) == IF frame.type = "Data" THEN frame.length ELSE 0

\* The server may answer as soon as it has the first HEADERS.  The bytes of
\* DATA are counted before the stream is looked up.
ReceiveFrame(s) ==
  /\ reader.at = "read"
  /\ connected
  /\ written[s] > 0
  /\ answered[s] < Len(Response[s])
  /\ answered' = [answered EXCEPT ![s] = @ + 1]
  /\ LET frame == Response[s][answered'[s]]
     IN  /\ reader' = [at |-> "get", sender |-> s, id |-> StreamId(s), frame |-> frame]
         /\ receivedDataCount' = receivedDataCount + CountedBytes(frame)
  /\ UNCHANGED <<senderVars, released, streamVars, connected, written, writer, freed>>

ReaderGetsStream ==
  /\ reader.at = "get"
  /\ \E object \in 1 .. Len(objects) + 1 :
       /\ GetById(reader.id, object)
       /\ reader' = [at |-> "add", sender |-> reader.sender, object |-> object,
                     frame |-> reader.frame]
  /\ UNCHANGED <<senderVars, released, nextStreamId, connected, written, writer,
                 answered, creditVars>>

\* ReceivedFrames.Add, then switch (State), before the branch assigns.
ReaderAddsFrame ==
  /\ reader.at = "add"
  /\ objects' = [objects EXCEPT ![reader.object].received = Append(@, reader.frame)]
  /\ reader' = [at |-> "set", sender |-> reader.sender, object |-> reader.object,
                frame |-> reader.frame, state |-> objects[reader.object].state]
  /\ UNCHANGED <<senderVars, released, streams, nextStreamId, connected, written,
                 writer, answered, creditVars>>

ReaderSetsState ==
  /\ reader.at = "set"
  /\ LET new == ReceivedState(reader.state, reader.frame)
     IN  objects' = IF new = reader.state THEN objects
                    ELSE [objects EXCEPT ![reader.object].state = new]
  /\ reader' = [at |-> "event", sender |-> reader.sender, object |-> reader.object]
  /\ UNCHANGED <<senderVars, released, streams, nextStreamId, connected, written,
                 writer, answered, creditVars>>

\* OnFrameReceived: the handler of the Send that owns the object, if any,
\* reads State again.
RaiseEvent ==
  /\ reader.at = "event"
  /\ released' = [s \in Senders |->
                    released[s] \/ /\ own[s] = reader.object
                                   /\ EndOfStream(objects[reader.object].state)]
  /\ reader' = [at |-> "read"]
  /\ UNCHANGED <<senderVars, streamVars, connected, written, writer, answered, creditVars>>

Reader == (\E s \in Senders : ReceiveFrame(s)) \/ ReaderGetsStream \/ ReaderAddsFrame
          \/ ReaderSetsState \/ RaiseEvent

\* ReadAsync and WriteAsync fail from here on; no Send is told.
ConnectionLost ==
  /\ connected
  /\ connected' = FALSE
  /\ UNCHANGED <<senderVars, released, streamVars, written, writer, answered, reader,
                 creditVars>>

Next == (\E s \in Senders : Send(s)) \/ Writer \/ Reader \/ ConnectionLost

Spec == Init /\ [][Next]_vars

\* What is left of a Send once its request is queued.
Conclude(s) ==
  \/ WaitReturns(s) \/ TimesOut(s) \/ Enumerate(s) \/ CollectResponse(s)
  \/ Cleanup(s) \/ FreeUpWindowSpace(s) \/ QueueWindowUpdate(s)

\* A Send is a task of the thread pool and its timer fires.  Nothing is asked
\* of the server, of the connection, or of a Send that still connects, reads
\* the data of its caller or queues its frames: no timer covers those.
FairSpec == Spec /\ \A s \in Senders : WF_vars(Conclude(s))

-----------------------------------------------------------------------------
(* Properties.                                                             *)

Places == {"start", "queue", "wait", "enumerate", "collect", "cleanup",
           "free", "update", "done", "timedOut", "failed"}
Started(s)   == pc[s] # "start"
CleanedUp(s) == pc[s] \in {"free", "update", "done"}
Returning(s) == pc[s] \in {"cleanup", "free", "update", "done"}

\* Nothing more is expected after such a frame of a response.
Ends(frame) == IsEndStream(frame) \/ frame.type = "RstStream"
Ended(object) ==
  \E k \in DOMAIN objects[object].received : Ends(objects[object].received[k])

\* frames is the beginning of the response to s.
Begins(frames, s) ==
  /\ Len(frames) <= Len(Response[s])
  /\ \A k \in 1 .. Len(frames) : frames[k] = Response[s][k]

StreamObject == [id : Nat, state : StreamStates, received : Seq(ExchangeFrame)]

\* The variables stay in their types; in particular every identifier the
\* client opens is odd (the comment in GetNextIdentifier), and the dictionary
\* maps an identifier to an object that has it.
TypeOK ==
  /\ pc \in [Senders -> Places]
  /\ own \in [Senders -> Nat]
  /\ queued \in [Senders -> Nat]
  /\ released \in [Senders -> BOOLEAN]
  /\ collected \in [Senders -> Seq(ExchangeFrame)]
  /\ amount \in [Senders -> Nat]
  /\ objects \in Seq(StreamObject)
  /\ nextStreamId \in Nat /\ nextStreamId % 2 = 1
  /\ DOMAIN streams \subseteq 1 .. nextStreamId - 1
  /\ \A id \in DOMAIN streams :
       id % 2 = 1 /\ streams[id] \in DOMAIN objects /\ objects[streams[id]].id = id
  /\ connected \in BOOLEAN
  /\ written \in [Senders -> Nat] /\ answered \in [Senders -> Nat]
  /\ \A s \in Senders : /\ written[s] <= queued[s] /\ queued[s] <= Len(Request[s])
                        /\ pc[s] \in {"start", "queue"} => queued[s] < Len(Request[s])
                        /\ answered[s] <= Len(Response[s])
  /\ receivedDataCount \in Nat /\ freed \in Seq(Nat)

WriterOK ==
  /\ writer.at \in {"take", "get", "read", "set", "faulted"}
  /\ writer.at = "get" => writer.id \in 1 .. nextStreamId - 1 /\ writer.id % 2 = 1
  /\ writer.at \in {"get", "read", "set"} =>
       writer.frame.type \in {"Headers", "Continuation", "Data"}
  /\ writer.at \in {"read", "set"} => writer.object \in DOMAIN objects
  /\ writer.at = "set" => writer.state \in StreamStates

ReaderOK ==
  /\ reader.at \in {"read", "get", "add", "set", "event"}
  /\ reader.at \in {"get", "add"} => reader.sender \in Senders
  /\ reader.at \in {"get", "add", "set"} => reader.frame \in ExchangeFrame
  /\ reader.at \in {"add", "set", "event"} => reader.object \in DOMAIN objects
  /\ reader.at = "set" => reader.state \in StreamStates

\* Every Send has an object of its own, under an identifier of its own, and
\* until its Cleanup the dictionary leads to it.
OwnStream ==
  \A s \in Senders :
    IF Started(s)
    THEN /\ own[s] \in DOMAIN objects
         /\ StreamId(s) < nextStreamId /\ StreamId(s) % 2 = 1
         /\ \A t \in Senders : Started(t) /\ t # s => StreamId(t) # StreamId(s)
         /\ ~CleanedUp(s) => StreamId(s) \in DOMAIN streams /\ streams[StreamId(s)] = own[s]
    ELSE own[s] = NoObject /\ queued[s] = 0 /\ answered[s] = 0

\* The frame the Read task is handling goes to the Send it answers.
RightStream ==
  reader.at \in {"get", "add"} =>
    LET s == reader.sender
    IN  /\ Started(s)
        /\ answered[s] > 0 /\ reader.frame = Response[s][answered[s]]
        /\ reader.at = "get" => reader.id = StreamId(s)
        /\ reader.at = "add" => /\ objects[reader.object].id = StreamId(s)
                                /\ ~CleanedUp(s) => reader.object = own[s]

\* Until its Cleanup, every frame the server sent on a stream reaches the
\* object whose frames Send will read, in the order of the wire, but for the
\* one the Read task is handling.
Delivered ==
  \A s \in Senders :
    Started(s) /\ ~CleanedUp(s) =>
      LET handling == reader.at \in {"get", "add"} /\ reader.sender = s
      IN  /\ Len(objects[own[s]].received) = answered[s] - (IF handling THEN 1 ELSE 0)
          /\ Begins(objects[own[s]].received, s)

\* A stream is in a state that releases its Send only after a frame that
\* ends its response, whatever the two tasks that assign State make of it, and
\* so is what either of them has read of it.  ReservedLocal, from which a sent
\* HEADERS releases, is never reached: Send queues no PUSH_PROMISE.
EndIsReal ==
  /\ \A o \in DOMAIN objects :
       /\ objects[o].state # "ReservedLocal"
       /\ EndOfStream(objects[o].state) => Ended(o)
  /\ writer.at = "set" => /\ writer.state # "ReservedLocal"
                          /\ EndOfStream(writer.state) => Ended(writer.object)
  /\ reader.at = "set" => /\ reader.state # "ReservedLocal"
                          /\ EndOfStream(reader.state) => Ended(reader.object)
                          /\ Ends(reader.frame) => Ended(reader.object)
  /\ \A s \in Senders : released[s] => Started(s) /\ Ended(own[s])
  /\ \A s \in Senders : pc[s] \in {"enumerate", "collect"} => released[s]

\* A Send that goes on to build its response has all frames of it up to the
\* one that ends it, in order and none of another request, whatever the
\* interleaving of its tasks with the Write and the Read task: it is never
\* released by the state of an unfinished stream.
WholeResponse ==
  \A s \in Senders :
    Returning(s) => /\ Begins(collected[s], s)
                    /\ \E k \in DOMAIN collected[s] : Ends(collected[s][k])

ExchangeInv == TypeOK /\ WriterOK /\ ReaderOK /\ OwnStream /\ RightStream
               /\ Delivered /\ EndIsReal /\ WholeResponse

\* Bytes of DATA the Read task has counted, and those a Send has exchanged
\* out of the counter and not yet queued as an increment.
BytesRead ==
  SumFunction([s \in Senders |->
    SumFunction([k \in 1 .. answered[s] |-> CountedBytes(Response[s][k])])])
BytesInHand ==
  SumFunction([s \in Senders |-> IF pc[s] = "update" THEN amount[s] ELSE 0])

\* Every byte counted is given back to the server once: it is in a queued
\* WINDOW_UPDATE, in the hands of one Send, or still in the counter, however
\* the Sends that finish at one time interleave with the Read task.  None of
\* the WINDOW_UPDATE frames has an increment of zero, an error to the server,
\* nor is one about to: a Send that finds the counter emptied by another one
\* queues nothing.
CreditConserved ==
  /\ BytesRead = SumFunction(freed) + BytesInHand + receivedDataCount
  /\ \A k \in DOMAIN freed : freed[k] > 0
  /\ \A s \in Senders : pc[s] = "update" => amount[s] > 0

Concluded(s) == pc[s] \in {"done", "timedOut", "failed"}

\* The response is there, the stream is gone, and the WINDOW_UPDATE waits for
\* a queue that is locked for ever.
LockedOut(s) == pc[s] = "update" /\ ~EnqueueReturns

\* A Send that has queued its request ends, with its response or an exception,
\* even if the server never answers, the connection is lost, its release is
\* missed or the Write task dies, but for one that has its response and bytes
\* to give back when the Write task has died inside Dequeue: it never returns.
SendEnds == \A s \in Senders : pc[s] = "wait" ~> (Concluded(s) \/ LockedOut(s))

=============================================================================
