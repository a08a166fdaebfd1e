--------------------------- MODULE ExchangeProofs ---------------------------
(***************************************************************************)
(* Proofs about requests and responses, for any number of Sends and any    *)
(* frames of their requests and responses.                                 *)
(*                                                                         *)
(* The argument: objects are only created, never changed but by a frame    *)
(* added or a state assigned; until Cleanup the dictionary leads from an   *)
(* identifier to the object of its Send, so received frames are a copy of  *)
(* the response; and no task ever computes a state that releases a Send    *)
(* unless an ending frame is already in the list, however stale the state  *)
(* it computes from.                                                       *)
(***************************************************************************)
EXTENDS Exchange, TLAPS, SequenceTheorems, SumLemmas

-----------------------------------------------------------------------------
(* The three ways the heap of stream objects changes.                      *)

LEMMA Created ==
  ASSUME objects \in Seq(StreamObject), NEW id \in Nat,
         objects' = Append(objects, NewStream(id))
  PROVE  /\ objects' \in Seq(StreamObject)
         /\ Len(objects) \in Nat /\ Len(objects') = Len(objects) + 1
         /\ DOMAIN objects = 1 .. Len(objects) /\ DOMAIN objects' = 1 .. Len(objects) + 1
         /\ \A o \in DOMAIN objects : objects'[o] = objects[o]
         /\ objects'[Len(objects) + 1] = NewStream(id)
<1>1. NewStream(id) \in StreamObject
  <2>1. <<>> \in Seq(ExchangeFrame)
    OBVIOUS
  <2>. QED
    BY <2>1 DEF NewStream, StreamObject, StreamStates
<1>. QED
  BY <1>1, AppendProperties, LenProperties

LEMMA StateSet ==
  ASSUME objects \in Seq(StreamObject), NEW o \in DOMAIN objects, NEW new \in StreamStates,
         objects' = [objects EXCEPT ![o].state = new]
  PROVE  /\ objects' \in Seq(StreamObject)
         /\ DOMAIN objects' = DOMAIN objects /\ Len(objects') = Len(objects)
         /\ \A p \in DOMAIN objects : /\ objects'[p].id = objects[p].id
                                      /\ objects'[p].received = objects[p].received
                                      /\ p # o => objects'[p].state = objects[p].state
         /\ objects'[o].state = new
<1>1. o \in 1 .. Len(objects) /\ DOMAIN objects = 1 .. Len(objects)
  BY LenProperties
<1>2. objects[o] \in StreamObject
  BY <1>1, ElementOfSeq
<1>3. [objects[o] EXCEPT !.state = new] \in StreamObject
  BY <1>2 DEF StreamObject
<1>4. objects' = [objects EXCEPT ![o] = [objects[o] EXCEPT !.state = new]]
  OBVIOUS
<1>5. /\ objects' \in Seq(StreamObject) /\ Len(objects') = Len(objects)
      /\ \A p \in 1 .. Len(objects) :
           objects'[p] = IF p = o THEN [objects[o] EXCEPT !.state = new] ELSE objects[p]
  BY <1>1, <1>3, <1>4, ExceptSeq
<1>. QED
  BY <1>1, <1>2, <1>5 DEF StreamObject

LEMMA FrameAdded ==
  ASSUME objects \in Seq(StreamObject), NEW o \in DOMAIN objects, NEW f \in ExchangeFrame,
         objects' = [objects EXCEPT ![o].received = Append(@, f)]
  PROVE  /\ objects' \in Seq(StreamObject)
         /\ DOMAIN objects' = DOMAIN objects /\ Len(objects') = Len(objects)
         /\ \A p \in DOMAIN objects : /\ objects'[p].id = objects[p].id
                                      /\ objects'[p].state = objects[p].state
                                      /\ p # o => objects'[p].received = objects[p].received
         /\ Len(objects[o].received) \in Nat
         /\ DOMAIN objects[o].received = 1 .. Len(objects[o].received)
         /\ DOMAIN objects'[o].received = 1 .. Len(objects[o].received) + 1
         /\ Len(objects'[o].received) = Len(objects[o].received) + 1
         /\ \A k \in DOMAIN objects[o].received :
              objects'[o].received[k] = objects[o].received[k]
         /\ objects'[o].received[Len(objects[o].received) + 1] = f
<1>. DEFINE old == objects[o]
            new == [objects[o] EXCEPT !.received = Append(@, f)]
<1>1. o \in 1 .. Len(objects) /\ DOMAIN objects = 1 .. Len(objects)
  BY LenProperties
<1>2. old \in StreamObject /\ old.received \in Seq(ExchangeFrame)
  <2>1. old \in StreamObject
    BY <1>1, ElementOfSeq
  <2>. QED
    BY <2>1 DEF StreamObject
<1>3. /\ Append(old.received, f) \in Seq(ExchangeFrame)
      /\ Len(Append(old.received, f)) = Len(old.received) + 1
      /\ \A k \in 1 .. Len(old.received) : Append(old.received, f)[k] = old.received[k]
      /\ Append(old.received, f)[Len(old.received) + 1] = f
      /\ Len(old.received) \in Nat
      /\ DOMAIN old.received = 1 .. Len(old.received)
      /\ DOMAIN Append(old.received, f) = 1 .. Len(old.received) + 1
  BY <1>2, AppendProperties, LenProperties
<1>4. /\ new \in StreamObject /\ new.received = Append(old.received, f)
      /\ new.id = old.id /\ new.state = old.state
  BY <1>2, <1>3 DEF StreamObject
<1>5. objects' = [objects EXCEPT ![o] = new]
  OBVIOUS
<1>6. /\ objects' \in Seq(StreamObject) /\ Len(objects') = Len(objects)
      /\ \A p \in 1 .. Len(objects) : objects'[p] = IF p = o THEN new ELSE objects[p]
  BY <1>1, <1>4, <1>5, ExceptSeq
<1>7. DOMAIN objects' = 1 .. Len(objects)
  BY <1>6, LenProperties
<1>. QED
  BY <1>1, <1>3, <1>4, <1>6, <1>7

\* What the two state switches return.
LEMMA StateTypes ==
  ASSUME NEW state \in StreamStates, NEW frame
  PROVE  ReceivedState(state, frame) \in StreamStates /\ SentState(state, frame) \in StreamStates
BY DEF ReceivedState, SentState, StreamStates

\* A releasing state is computed only from one, or from an ending frame.
LEMMA ReleasingStates ==
  ASSUME NEW state \in StreamStates, state # "ReservedLocal", NEW frame
  PROVE  /\ ReceivedState(state, frame) # "ReservedLocal"
         /\ EndOfStream(ReceivedState(state, frame)) => EndOfStream(state) \/ Ends(frame)
         /\ frame.type \in {"Headers", "Continuation", "Data"} =>
              /\ SentState(state, frame) # "ReservedLocal"
              /\ EndOfStream(SentState(state, frame)) => EndOfStream(state)
<1>1. /\ ReceivedState(state, frame) # "ReservedLocal"
      /\ EndOfStream(ReceivedState(state, frame)) => EndOfStream(state) \/ Ends(frame)
  BY DEF ReceivedState, StreamStates, EndOfStream, Ends
<1>2. ASSUME frame.type \in {"Headers", "Continuation", "Data"}
      PROVE  /\ SentState(state, frame) # "ReservedLocal"
             /\ EndOfStream(SentState(state, frame)) => EndOfStream(state)
  BY <1>2 DEF SentState, StreamStates, EndOfStream
<1>. QED
  BY <1>1, <1>2

-----------------------------------------------------------------------------
(* What no step undoes.                                                    *)

LEMMA ObjectTypes ==
  ASSUME ExchangeInv, NEW o \in DOMAIN objects
  PROVE  /\ objects[o].id \in Nat /\ objects[o].state \in StreamStates
         /\ objects[o].received \in Seq(ExchangeFrame)
<1>1. objects \in Seq(StreamObject)
  BY DEF ExchangeInv, TypeOK
<1>2. objects[o] \in StreamObject
  BY <1>1, LenProperties, ElementOfSeq
<1>. QED
  BY <1>2 DEF StreamObject

\* Request frames have the types Send queues.
LEMMA RequestTypes ==
  ASSUME ExchangeInv, NEW s \in Senders, NEW k \in 1 .. Len(Request[s])
  PROVE  Request[s][k].type \in {"Headers", "Continuation", "Data"}
<1>1. Request[s] \in Seq(ExchangeFrame)
  BY ExchangeAssumption
<1>2. k \in DOMAIN Request[s]
  BY <1>1, LenProperties
<1>. QED
  BY <1>2, ExchangeAssumption

LEMMA HeapSteps ==
  ASSUME ExchangeInv, [Next]_vars
  PROVE  \/ objects' = objects
         \/ \E id \in Nat : objects' = Append(objects, NewStream(id))
         \/ /\ ReaderAddsFrame
            /\ \E o \in DOMAIN objects, f \in ExchangeFrame :
                 /\ o = reader.object /\ f = reader.frame
                 /\ objects' = [objects EXCEPT ![o].received = Append(@, f)]
         \/ /\ WriterSetsState \/ ReaderSetsState
            /\ \E o \in DOMAIN objects, new \in StreamStates :
                 objects' = [objects EXCEPT ![o].state = new]
<1>1. ASSUME NEW s \in Senders, Send(s)
      PROVE  objects' = objects \/ \E id \in Nat : objects' = Append(objects, NewStream(id))
  <2>1. CASE GetStream(s)
    BY <2>1 DEF GetStream, ExchangeInv, TypeOK
  <2>2. CASE ~GetStream(s)
    BY <1>1, <2>2 DEF Send, QueueFrame, WaitReturns, TimesOut, Enumerate, CollectResponse,
                      Cleanup, FreeUpWindowSpace, QueueWindowUpdate, streamVars
  <2>. QED
    BY <2>1, <2>2
<1>2. ASSUME Writer
      PROVE  \/ objects' = objects
             \/ \E id \in Nat : objects' = Append(objects, NewStream(id))
             \/ /\ WriterSetsState
                /\ \E o \in DOMAIN objects, new \in StreamStates :
                     objects' = [objects EXCEPT ![o].state = new]
  <2>1. CASE WriterGetsStream
    <3>1. writer.id \in Nat
      BY <2>1 DEF WriterGetsStream, ExchangeInv, WriterOK, TypeOK
    <3>. QED
      BY <2>1, <3>1 DEF WriterGetsStream, GetById
  <2>2. CASE WriterSetsState
    <3>1. writer.object \in DOMAIN objects /\ writer.state \in StreamStates
      BY <2>2 DEF WriterSetsState, ExchangeInv, WriterOK
    <3>2. SentState(writer.state, writer.frame) \in StreamStates
      BY <3>1, StateTypes
    <3>. QED
      BY <2>2, <3>1, <3>2 DEF WriterSetsState
  <2>3. CASE (\E s \in Senders : WriteFrame(s)) \/ WriterReadsState \/ WriterFaults
    BY <2>3 DEF WriteFrame, WriterReadsState, WriterFaults, streamVars
  <2>. QED
    BY <1>2, <2>1, <2>2, <2>3 DEF Writer
<1>3. ASSUME Reader
      PROVE  \/ objects' = objects
             \/ \E id \in Nat : objects' = Append(objects, NewStream(id))
             \/ /\ ReaderAddsFrame
                /\ \E o \in DOMAIN objects, f \in ExchangeFrame :
                     /\ o = reader.object /\ f = reader.frame
                     /\ objects' = [objects EXCEPT ![o].received = Append(@, f)]
             \/ /\ ReaderSetsState
                /\ \E o \in DOMAIN objects, new \in StreamStates :
                     objects' = [objects EXCEPT ![o].state = new]
  <2>1. CASE ReaderGetsStream
    <3>1. reader.id \in Nat
      <4>1. reader.at = "get"
        BY <2>1 DEF ReaderGetsStream
      <4>2. reader.sender \in Senders /\ Started(reader.sender)
              /\ reader.id = StreamId(reader.sender)
        BY <4>1 DEF ExchangeInv, ReaderOK, RightStream
      <4>3. own[reader.sender] \in DOMAIN objects
        BY <4>2 DEF ExchangeInv, OwnStream
      <4>. QED
        BY <4>2, <4>3, ObjectTypes DEF StreamId
    <3>. QED
      BY <2>1, <3>1 DEF ReaderGetsStream, GetById
  <2>2. CASE ReaderAddsFrame
    BY <2>2 DEF ReaderAddsFrame, ExchangeInv, ReaderOK
  <2>3. CASE ReaderSetsState
    <3>1. reader.object \in DOMAIN objects /\ reader.state \in StreamStates
      BY <2>3 DEF ReaderSetsState, ExchangeInv, ReaderOK
    <3>2. ReceivedState(reader.state, reader.frame) \in StreamStates
      BY <3>1, StateTypes
    <3>. QED
      BY <2>3, <3>1, <3>2 DEF ReaderSetsState
  <2>4. CASE (\E s \in Senders : ReceiveFrame(s)) \/ RaiseEvent
    BY <2>4 DEF ReceiveFrame, RaiseEvent, streamVars
  <2>. QED
    BY <1>3, <2>1, <2>2, <2>3, <2>4 DEF Reader
<1>4. CASE ConnectionLost \/ UNCHANGED vars
  BY <1>4 DEF ConnectionLost, vars, streamVars
<1>. QED
  BY <1>1, <1>2, <1>3, <1>4 DEF Next

\* Objects stay, with their identifiers and the frames they have.
LEMMA HeapGrows ==
  ASSUME ExchangeInv, [Next]_vars
  PROVE  /\ objects \in Seq(StreamObject) /\ objects' \in Seq(StreamObject)
         /\ DOMAIN objects = 1 .. Len(objects) /\ Len(objects) \in Nat
         /\ DOMAIN objects \subseteq DOMAIN objects'
         /\ \A o \in DOMAIN objects :
              objects'[o].id = objects[o].id /\ (Ended(o) => Ended(o)')
<1>0. objects \in Seq(StreamObject)
  BY DEF ExchangeInv, TypeOK
<1>1. DOMAIN objects = 1 .. Len(objects) /\ Len(objects) \in Nat
  BY <1>0, LenProperties
<1>2. CASE objects' = objects
  BY <1>0, <1>1, <1>2 DEF Ended
<1>3. ASSUME NEW id \in Nat, objects' = Append(objects, NewStream(id))
      PROVE  /\ objects' \in Seq(StreamObject) /\ DOMAIN objects \subseteq DOMAIN objects'
             /\ \A o \in DOMAIN objects :
                  objects'[o].id = objects[o].id /\ (Ended(o) => Ended(o)')
  <2>1. /\ objects' \in Seq(StreamObject) /\ DOMAIN objects' = 1 .. Len(objects) + 1
        /\ \A o \in DOMAIN objects : objects'[o] = objects[o]
    BY <1>0, <1>3, Created
  <2>2. DOMAIN objects \subseteq DOMAIN objects'
    BY <1>1, <2>1
  <2>. QED
    BY <2>1, <2>2 DEF Ended
<1>4. ASSUME NEW o \in DOMAIN objects, NEW f \in ExchangeFrame,
             objects' = [objects EXCEPT ![o].received = Append(@, f)]
      PROVE  /\ objects' \in Seq(StreamObject) /\ DOMAIN objects \subseteq DOMAIN objects'
             /\ \A p \in DOMAIN objects :
                  objects'[p].id = objects[p].id /\ (Ended(p) => Ended(p)')
  <2>1. /\ objects' \in Seq(StreamObject) /\ DOMAIN objects' = DOMAIN objects
        /\ \A p \in DOMAIN objects : /\ objects'[p].id = objects[p].id
                                     /\ p # o => objects'[p].received = objects[p].received
        /\ Len(objects[o].received) \in Nat
        /\ DOMAIN objects[o].received = 1 .. Len(objects[o].received)
        /\ DOMAIN objects'[o].received = 1 .. Len(objects[o].received) + 1
        /\ \A k \in DOMAIN objects[o].received :
             objects'[o].received[k] = objects[o].received[k]
    BY <1>0, <1>4, FrameAdded
  <2>2. ASSUME NEW p \in DOMAIN objects, Ended(p) PROVE Ended(p)'
    <3>1. CASE p = o
      <4>1. PICK k \in DOMAIN objects[o].received : Ends(objects[o].received[k])
        BY <2>2, <3>1 DEF Ended
      <4>2. k \in DOMAIN objects'[o].received
        BY <2>1, <4>1
      <4>3. Ends(objects'[o].received[k])
        BY <2>1, <4>1
      <4>. QED
        BY <3>1, <4>2, <4>3 DEF Ended
    <3>2. CASE p # o
      BY <2>1, <2>2, <3>2 DEF Ended
    <3>. QED
      BY <3>1, <3>2
  <2>. QED
    BY <2>1, <2>2
<1>5. ASSUME NEW o \in DOMAIN objects, NEW new \in StreamStates,
             objects' = [objects EXCEPT ![o].state = new]
      PROVE  /\ objects' \in Seq(StreamObject) /\ DOMAIN objects \subseteq DOMAIN objects'
             /\ \A p \in DOMAIN objects :
                  objects'[p].id = objects[p].id /\ (Ended(p) => Ended(p)')
  <2>1. /\ objects' \in Seq(StreamObject) /\ DOMAIN objects' = DOMAIN objects
        /\ \A p \in DOMAIN objects : /\ objects'[p].id = objects[p].id
                                     /\ objects'[p].received = objects[p].received
    BY <1>0, <1>5, StateSet
  <2>. QED
    BY <2>1 DEF Ended
<1>. QED
  BY <1>0, <1>1, <1>2, <1>3, <1>4, <1>5, HeapSteps
\* What one step of a Send does to another, and to the identifiers.
LEMMA OtherSends ==
  ASSUME ExchangeInv, NEW t \in Senders, Send(t), NEW s \in Senders, s # t
  PROVE  pc'[s] = pc[s] /\ own'[s] = own[s] /\ queued'[s] = queued[s]
         /\ collected'[s] = collected[s]
<1>1. /\ pc \in [Senders -> Places] /\ own \in [Senders -> Nat] /\ queued \in [Senders -> Nat]
      /\ collected \in [Senders -> Seq(ExchangeFrame)]
  BY DEF ExchangeInv, TypeOK
<1>2. CASE GetStream(t) \/ QueueFrame(t) \/ WaitReturns(t) \/ TimesOut(t) \/ Enumerate(t)
  BY <1>1, <1>2 DEF GetStream, QueueFrame, WaitReturns, TimesOut, Enumerate, Move
<1>3. CASE CollectResponse(t) \/ Cleanup(t) \/ FreeUpWindowSpace(t) \/ QueueWindowUpdate(t)
  BY <1>1, <1>3 DEF CollectResponse, Cleanup, FreeUpWindowSpace, QueueWindowUpdate, Move
<1>. QED
  BY <1>2, <1>3 DEF Send

\* Only Sends change the variables of Sends.
LEMMA TaskSteps ==
  ASSUME Writer \/ Reader \/ ConnectionLost \/ UNCHANGED vars
  PROVE  UNCHANGED senderVars /\ UNCHANGED nextStreamId
<1>1. CASE Writer
  BY <1>1 DEF Writer, WriteFrame, WriterGetsStream, WriterReadsState, WriterSetsState,
              WriterFaults, streamVars
<1>2. CASE Reader
  BY <1>2 DEF Reader, ReceiveFrame, ReaderGetsStream, ReaderAddsFrame, ReaderSetsState,
              RaiseEvent, streamVars
<1>3. CASE ConnectionLost \/ UNCHANGED vars
  BY <1>3 DEF ConnectionLost, vars, streamVars
<1>. QED
  BY <1>1, <1>2, <1>3

\* Only the Read task changes reader and answered.
LEMMA ReaderStays ==
  ASSUME (\E s \in Senders : Send(s)) \/ Writer \/ ConnectionLost \/ UNCHANGED vars
  PROVE  reader' = reader /\ answered' = answered
<1>1. CASE \E s \in Senders : Send(s)
  BY <1>1 DEF Send, GetStream, QueueFrame, WaitReturns, TimesOut, Enumerate, CollectResponse,
              Cleanup, FreeUpWindowSpace, QueueWindowUpdate, taskVars
<1>2. CASE Writer
  BY <1>2 DEF Writer, WriteFrame, WriterGetsStream, WriterReadsState, WriterSetsState,
              WriterFaults
<1>3. CASE ConnectionLost \/ UNCHANGED vars
  BY <1>3 DEF ConnectionLost, vars, taskVars
<1>. QED
  BY <1>1, <1>2, <1>3

\* A Send gets its stream once, and keeps it.
LEMMA OwnStep ==
  ASSUME ExchangeInv, NEW s \in Senders, Send(s)
  PROVE  \/ GetStream(s)
         \/ /\ Started(s) /\ Started(s)' /\ own' = own /\ nextStreamId' = nextStreamId
            /\ CleanedUp(s) => CleanedUp(s)'
            /\ Cleanup(s) \/ CleanedUp(s)' = CleanedUp(s)
<1>1. pc \in [Senders -> Places]
  BY DEF ExchangeInv, TypeOK
<1>2. CASE QueueFrame(s) \/ WaitReturns(s) \/ TimesOut(s) \/ Enumerate(s)
  BY <1>1, <1>2 DEF QueueFrame, WaitReturns, TimesOut, Enumerate, Move, Started, CleanedUp,
                    streamVars
<1>3. CASE CollectResponse(s)
  BY <1>1, <1>3 DEF CollectResponse, Started, CleanedUp, streamVars
<1>4. CASE Cleanup(s)
  BY <1>1, <1>4 DEF Cleanup, Move, Started, CleanedUp
<1>5. CASE FreeUpWindowSpace(s) \/ QueueWindowUpdate(s)
  BY <1>1, <1>5 DEF FreeUpWindowSpace, QueueWindowUpdate, Move, Started, CleanedUp, streamVars
<1>. QED
  BY <1>2, <1>3, <1>4, <1>5 DEF Send

LEMMA Stable ==
  ASSUME ExchangeInv, [Next]_vars, NEW s \in Senders
  PROVE  /\ Started(s) => /\ Started(s)' /\ own'[s] = own[s]
                          /\ StreamId(s)' = StreamId(s) /\ (Ended(own[s]) => Ended(own[s])')
         /\ CleanedUp(s) => CleanedUp(s)'
         /\ ~CleanedUp(s) /\ CleanedUp(s)' => Cleanup(s)
         /\ ~Started(s) /\ Started(s)' => GetStream(s)
         /\ ~Started(s) /\ ~Started(s)' => own'[s] = own[s] /\ queued'[s] = queued[s]
                                          /\ answered'[s] = answered[s]
<1>1. /\ Started(s) => Started(s)' /\ own'[s] = own[s]
      /\ CleanedUp(s) => CleanedUp(s)'
      /\ ~CleanedUp(s) /\ CleanedUp(s)' => Cleanup(s)
      /\ ~Started(s) /\ Started(s)' => GetStream(s)
      /\ ~Started(s) /\ ~Started(s)' => own'[s] = own[s] /\ queued'[s] = queued[s]
  <2>1. CASE GetStream(s)
    <3>1. pc[s] = "start" /\ pc'[s] = "queue"
      BY <2>1 DEF GetStream, Move, ExchangeInv, TypeOK
    <3>. QED
      BY <2>1, <3>1 DEF Started, CleanedUp
  <2>2. CASE Send(s) /\ ~GetStream(s)
    BY <2>2, OwnStep
  <2>3. ASSUME NEW t \in Senders, Send(t), t # s
        PROVE  pc'[s] = pc[s] /\ own'[s] = own[s] /\ queued'[s] = queued[s]
    BY <2>3, OtherSends
  <2>4. CASE Writer \/ Reader \/ ConnectionLost \/ UNCHANGED vars
    <3>1. pc' = pc /\ own' = own /\ queued' = queued
      BY <2>4, TaskSteps DEF senderVars
    <3>. QED
      BY <3>1 DEF Started, CleanedUp
  <2>5. CASE pc'[s] = pc[s] /\ own'[s] = own[s] /\ queued'[s] = queued[s]
    BY <2>5 DEF Started, CleanedUp
  <2>. QED
    BY <2>1, <2>2, <2>3, <2>4, <2>5 DEF Next
<1>2. ASSUME Started(s)
      PROVE  StreamId(s)' = StreamId(s) /\ (Ended(own[s]) => Ended(own[s])')
  <2>1. own[s] \in DOMAIN objects
    BY <1>2 DEF ExchangeInv, OwnStream
  <2>2. objects'[own[s]].id = objects[own[s]].id
        /\ (Ended(own[s]) => \E k \in DOMAIN objects'[own[s]].received :
                                Ends(objects'[own[s]].received[k]))
    BY <2>1, HeapGrows DEF Ended
  <2>. QED
    BY <1>1, <1>2, <2>2 DEF StreamId, Ended
<1>3. ASSUME ~Started(s) PROVE answered'[s] = answered[s]
  <2>1. answered \in [Senders -> Nat] /\ written[s] = 0
    BY <1>3 DEF ExchangeInv, TypeOK, OwnStream
  <2>2. CASE answered' = answered
    BY <2>2
  <2>3. ASSUME NEW t \in Senders, ReceiveFrame(t) PROVE answered'[s] = answered[s]
    BY <2>1, <2>3 DEF ReceiveFrame
  <2>. QED
    BY <2>2, <2>3, ReaderStays DEF Next, Reader, ReaderGetsStream, ReaderAddsFrame,
                                   ReaderSetsState, RaiseEvent
<1>. QED
  BY <1>1, <1>2, <1>3

-----------------------------------------------------------------------------
(* The dictionary.                                                         *)

\* What Get(id) gives, whether or not it finds the identifier.
LEMMA Found ==
  ASSUME ExchangeInv, NEW id \in Nat, NEW o \in 1 .. Len(objects) + 1, GetById(id, o)
  PROVE  /\ DOMAIN streams' = DOMAIN streams \union {id}
         /\ streams'[id] = o /\ o \in DOMAIN objects' /\ objects'[o].id = id
         /\ \A i \in DOMAIN streams : streams'[i] = streams[i]
<1>1. objects \in Seq(StreamObject)
      /\ \A i \in DOMAIN streams : streams[i] \in DOMAIN objects /\ objects[streams[i]].id = i
  BY DEF ExchangeInv, TypeOK
<1>2. CASE id \in DOMAIN streams
  BY <1>1, <1>2 DEF GetById
<1>3. CASE id \notin DOMAIN streams
  <2>1. /\ o = Len(objects) + 1
        /\ objects' = Append(objects, NewStream(id))
        /\ streams' = [i \in DOMAIN streams \union {id} |->
                         IF i = id THEN Len(objects) + 1 ELSE streams[i]]
    BY <1>3 DEF GetById
  <2>2. o \in DOMAIN objects' /\ objects'[o] = NewStream(id)
    <3>1. /\ DOMAIN objects' = 1 .. Len(objects) + 1 /\ Len(objects) \in Nat
          /\ objects'[Len(objects) + 1] = NewStream(id)
      BY <1>1, <2>1, Created
    <3>. QED
      BY <2>1, <3>1
  <2>. QED
    BY <1>3, <2>1, <2>2 DEF NewStream
<1>. QED
  BY <1>2, <1>3

\* The four ways the dictionary and the next identifier change.
LEMMA DictionarySteps ==
  ASSUME ExchangeInv, [Next]_vars
  PROVE  \/ streams' = streams /\ nextStreamId' = nextStreamId
         \/ \E s \in Senders : GetStream(s)
         \/ \E s \in Senders : Cleanup(s)
         \/ /\ nextStreamId' = nextStreamId
            /\ \E id \in DOMAIN streams' :
                 /\ id \in 1 .. nextStreamId - 1 /\ id % 2 = 1
                 /\ \E o \in 1 .. Len(objects) + 1 : GetById(id, o)
<1>1. ASSUME NEW s \in Senders, Send(s), ~GetStream(s), ~Cleanup(s)
      PROVE  streams' = streams /\ nextStreamId' = nextStreamId
  BY <1>1 DEF Send, QueueFrame, WaitReturns, TimesOut, Enumerate, CollectResponse,
              FreeUpWindowSpace, QueueWindowUpdate, streamVars
<1>2. CASE WriterGetsStream
  <2>1. writer.at = "get" /\ nextStreamId' = nextStreamId
        /\ \E o \in 1 .. Len(objects) + 1 : GetById(writer.id, o)
    BY <1>2 DEF WriterGetsStream
  <2>2. writer.id \in 1 .. nextStreamId - 1 /\ writer.id % 2 = 1 /\ nextStreamId \in Nat
    BY <2>1 DEF ExchangeInv, WriterOK, TypeOK
  <2>3. writer.id \in DOMAIN streams'
    <3>1. writer.id \in Nat
      BY <2>2
    <3>2. PICK o \in 1 .. Len(objects) + 1 : GetById(writer.id, o)
      BY <2>1
    <3>. QED
      BY <3>1, <3>2, Found
  <2>. QED
    BY <2>1, <2>2, <2>3
<1>3. CASE ReaderGetsStream
  <2>1. reader.at = "get" /\ nextStreamId' = nextStreamId
        /\ \E o \in 1 .. Len(objects) + 1 : GetById(reader.id, o)
    BY <1>3 DEF ReaderGetsStream
  <2>2. reader.sender \in Senders /\ Started(reader.sender) /\ reader.id = StreamId(reader.sender)
    BY <2>1 DEF ExchangeInv, ReaderOK, RightStream
  <2>3. own[reader.sender] \in DOMAIN objects /\ reader.id < nextStreamId /\ reader.id % 2 = 1
    BY <2>2 DEF ExchangeInv, OwnStream
  <2>4. nextStreamId \in Nat
    BY DEF ExchangeInv, TypeOK
  <2>5. reader.id \in Nat
    BY <2>2, <2>3, ObjectTypes DEF StreamId
  <2>6. reader.id \in 1 .. nextStreamId - 1
    BY <2>3, <2>4, <2>5
  <2>7. reader.id \in DOMAIN streams'
    BY <2>1, <2>5, Found
  <2>. QED
    BY <2>1, <2>3, <2>6, <2>7
<1>4. ASSUME Writer, ~WriterGetsStream
      PROVE  streams' = streams /\ nextStreamId' = nextStreamId
  BY <1>4 DEF Writer, WriteFrame, WriterReadsState, WriterSetsState, WriterFaults, streamVars
<1>5. ASSUME Reader, ~ReaderGetsStream
      PROVE  streams' = streams /\ nextStreamId' = nextStreamId
  BY <1>5 DEF Reader, ReceiveFrame, ReaderAddsFrame, ReaderSetsState, RaiseEvent, streamVars
<1>6. CASE ConnectionLost \/ UNCHANGED vars
  BY <1>6 DEF ConnectionLost, vars, streamVars
<1>. QED
  BY <1>1, <1>2, <1>3, <1>4, <1>5, <1>6 DEF Next

LEMMA FreshIdentifier ==
  ASSUME ExchangeInv, NEW s \in Senders, GetStream(s)
  PROVE  /\ nextStreamId' = nextStreamId + 2 /\ nextStreamId \in Nat
         /\ own'[s] = Len(objects) + 1 /\ own'[s] \in DOMAIN objects'
         /\ objects'[own'[s]] = NewStream(nextStreamId)
         /\ DOMAIN streams' = DOMAIN streams \union {nextStreamId}
         /\ nextStreamId \notin DOMAIN streams
         /\ streams'[nextStreamId] = own'[s]
         /\ \A i \in DOMAIN streams : streams'[i] = streams[i]
<1>1. /\ objects \in Seq(StreamObject) /\ nextStreamId \in Nat
      /\ DOMAIN streams \subseteq 1 .. nextStreamId - 1 /\ own \in [Senders -> Nat]
  BY DEF ExchangeInv, TypeOK
<1>2. /\ own' = [own EXCEPT ![s] = Len(objects) + 1]
      /\ objects' = Append(objects, NewStream(nextStreamId))
      /\ streams' = [i \in DOMAIN streams \union {nextStreamId} |->
                       IF i = nextStreamId THEN Len(objects) + 1 ELSE streams[i]]
      /\ nextStreamId' = nextStreamId + 2
  BY DEF GetStream, Identifiers
<1>3. own'[s] = Len(objects) + 1
  BY <1>1, <1>2
<1>4. nextStreamId \notin DOMAIN streams
  BY <1>1
<1>5. /\ DOMAIN objects' = 1 .. Len(objects) + 1 /\ Len(objects) \in Nat
      /\ objects'[Len(objects) + 1] = NewStream(nextStreamId)
  BY <1>1, <1>2, Created
<1>6. own'[s] \in DOMAIN objects' /\ objects'[own'[s]] = NewStream(nextStreamId)
  BY <1>3, <1>5
<1>. QED
  BY <1>1, <1>2, <1>3, <1>4, <1>6

LEMMA DictionaryStep ==
  ASSUME ExchangeInv, [Next]_vars
  PROVE  /\ nextStreamId' \in Nat /\ nextStreamId' % 2 = 1 /\ nextStreamId <= nextStreamId'
         /\ DOMAIN streams' \subseteq 1 .. nextStreamId' - 1
         /\ \A id \in DOMAIN streams' :
              id % 2 = 1 /\ streams'[id] \in DOMAIN objects' /\ objects'[streams'[id]].id = id
<1>1. /\ nextStreamId \in Nat /\ nextStreamId % 2 = 1
      /\ DOMAIN streams \subseteq 1 .. nextStreamId - 1
      /\ \A id \in DOMAIN streams :
           id % 2 = 1 /\ streams[id] \in DOMAIN objects /\ objects[streams[id]].id = id
  BY DEF ExchangeInv, TypeOK
<1>2. \A o \in DOMAIN objects : o \in DOMAIN objects' /\ objects'[o].id = objects[o].id
  BY HeapGrows
<1>3. CASE streams' = streams /\ nextStreamId' = nextStreamId
  BY <1>1, <1>2, <1>3
<1>4. ASSUME NEW s \in Senders, GetStream(s)
      PROVE  /\ nextStreamId' = nextStreamId + 2
             /\ DOMAIN streams' = DOMAIN streams \union {nextStreamId}
             /\ \A id \in DOMAIN streams' :
                  streams'[id] \in DOMAIN objects' /\ objects'[streams'[id]].id = id
  <2>1. /\ nextStreamId' = nextStreamId + 2
        /\ own'[s] \in DOMAIN objects' /\ objects'[own'[s]] = NewStream(nextStreamId)
        /\ DOMAIN streams' = DOMAIN streams \union {nextStreamId}
        /\ streams'[nextStreamId] = own'[s]
        /\ \A i \in DOMAIN streams : streams'[i] = streams[i]
    BY <1>4, FreshIdentifier
  <2>2. NewStream(nextStreamId).id = nextStreamId
    BY DEF NewStream
  <2>. QED
    BY <1>1, <1>2, <2>1, <2>2
<1>5. ASSUME NEW s \in Senders, Cleanup(s)
      PROVE  /\ nextStreamId' = nextStreamId /\ DOMAIN streams' \subseteq DOMAIN streams
             /\ \A id \in DOMAIN streams' : streams'[id] = streams[id]
  BY <1>5 DEF Cleanup
<1>6. ASSUME NEW id \in DOMAIN streams', id \in 1 .. nextStreamId - 1, id % 2 = 1,
             NEW o \in 1 .. Len(objects) + 1, GetById(id, o)
      PROVE  /\ DOMAIN streams' = DOMAIN streams \union {id}
             /\ \A i \in DOMAIN streams' :
                  streams'[i] \in DOMAIN objects' /\ objects'[streams'[i]].id = i
  <2>1. id \in Nat
    BY <1>1, <1>6
  <2>2. /\ DOMAIN streams' = DOMAIN streams \union {id}
        /\ streams'[id] = o /\ o \in DOMAIN objects' /\ objects'[o].id = id
        /\ \A i \in DOMAIN streams : streams'[i] = streams[i]
    BY <1>6, <2>1, Found
  <2>. QED
    BY <1>1, <1>2, <2>2
<1>7. CASE \E s \in Senders : GetStream(s)
  BY <1>1, <1>4, <1>7
<1>8. CASE \E s \in Senders : Cleanup(s)
  BY <1>1, <1>2, <1>5, <1>8
<1>9. CASE /\ nextStreamId' = nextStreamId
           /\ \E id \in DOMAIN streams' :
                /\ id \in 1 .. nextStreamId - 1 /\ id % 2 = 1
                /\ \E o \in 1 .. Len(objects) + 1 : GetById(id, o)
  <2>1. PICK id \in DOMAIN streams' :
          /\ id \in 1 .. nextStreamId - 1 /\ id % 2 = 1
          /\ \E o \in 1 .. Len(objects) + 1 : GetById(id, o)
    BY <1>9
  <2>2. PICK o \in 1 .. Len(objects) + 1 : GetById(id, o)
    BY <2>1
  <2>3. /\ DOMAIN streams' = DOMAIN streams \union {id}
        /\ \A i \in DOMAIN streams' :
             streams'[i] \in DOMAIN objects' /\ objects'[streams'[i]].id = i
    BY <1>6, <2>1, <2>2
  <2>. QED
    BY <1>1, <1>9, <2>1, <2>3
<1>10. \/ streams' = streams /\ nextStreamId' = nextStreamId
       \/ \E s \in Senders : GetStream(s)
       \/ \E s \in Senders : Cleanup(s)
       \/ /\ nextStreamId' = nextStreamId
          /\ \E id \in DOMAIN streams' :
               /\ id \in 1 .. nextStreamId - 1 /\ id % 2 = 1
               /\ \E o \in 1 .. Len(objects) + 1 : GetById(id, o)
  BY DictionarySteps
<1>. QED
  BY <1>3, <1>7, <1>8, <1>9, <1>10

-----------------------------------------------------------------------------
(* Each part of ExchangeInv is kept.                                       *)

\* The frame the Read task takes is the next one of a response.
LEMMA NextResponse ==
  ASSUME ExchangeInv, NEW s \in Senders, ReceiveFrame(s)
  PROVE  /\ answered[s] \in Nat /\ answered' = [answered EXCEPT ![s] = answered[s] + 1]
         /\ answered'[s] = answered[s] + 1 /\ answered'[s] \in 1 .. Len(Response[s])
         /\ Response[s][answered'[s]] \in ExchangeFrame
         /\ Started(s)
         /\ reader' = [at |-> "get", sender |-> s, id |-> StreamId(s),
                       frame |-> Response[s][answered'[s]]]
<1>1. /\ answered \in [Senders -> Nat] /\ answered[s] < Len(Response[s])
      /\ answered' = [answered EXCEPT ![s] = answered[s] + 1]
      /\ reader' = [at |-> "get", sender |-> s, id |-> StreamId(s),
                    frame |-> Response[s][answered'[s]]]
  BY DEF ReceiveFrame, ExchangeInv, TypeOK
<1>2. Response[s] \in Seq(ExchangeFrame)
  BY ExchangeAssumption
<1>3. answered'[s] = answered[s] + 1 /\ answered[s] \in Nat /\ Len(Response[s]) \in Nat
  BY <1>1, <1>2, LenProperties
<1>4. answered'[s] \in 1 .. Len(Response[s])
  BY <1>1, <1>3
<1>5. Response[s][answered'[s]] \in ExchangeFrame
  BY <1>2, <1>4, ElementOfSeq
<1>6. Started(s)
  BY DEF ReceiveFrame, ExchangeInv, TypeOK, OwnStream
<1>. QED
  BY <1>1, <1>3, <1>4, <1>5, <1>6

LEMMA SenderTypes ==
  ASSUME ExchangeInv, [Next]_vars
  PROVE  /\ pc' \in [Senders -> Places] /\ own' \in [Senders -> Nat]
         /\ queued' \in [Senders -> Nat] /\ collected' \in [Senders -> Seq(ExchangeFrame)]
         /\ amount' \in [Senders -> Nat] /\ released' \in [Senders -> BOOLEAN]
         /\ receivedDataCount' \in Nat /\ freed' \in Seq(Nat) /\ connected' \in BOOLEAN
         /\ answered' \in [Senders -> Nat]
<1>1. /\ pc \in [Senders -> Places] /\ own \in [Senders -> Nat]
      /\ queued \in [Senders -> Nat] /\ collected \in [Senders -> Seq(ExchangeFrame)]
      /\ amount \in [Senders -> Nat] /\ released \in [Senders -> BOOLEAN]
      /\ receivedDataCount \in Nat /\ freed \in Seq(Nat) /\ connected \in BOOLEAN
      /\ answered \in [Senders -> Nat] /\ objects \in Seq(StreamObject)
  BY DEF ExchangeInv, TypeOK
<1>2. ASSUME NEW s \in Senders, Started(s)
      PROVE  objects[own[s]].received \in Seq(ExchangeFrame)
             /\ Len(objects[own[s]].received) \in Nat
  <2>1. own[s] \in DOMAIN objects
    BY <1>2 DEF ExchangeInv, OwnStream
  <2>2. objects[own[s]].received \in Seq(ExchangeFrame)
    BY <2>1, ObjectTypes
  <2>. QED
    BY <2>2, LenProperties
<1>3. ASSUME NEW s \in Senders, GetStream(s) \/ QueueFrame(s) \/ WaitReturns(s) \/ TimesOut(s)
      PROVE  /\ pc' \in [Senders -> Places] /\ own' \in [Senders -> Nat]
             /\ queued' \in [Senders -> Nat]
             /\ UNCHANGED <<collected, amount, released, taskVars, creditVars>>
  <2>1. Len(objects) \in Nat
    BY <1>1, LenProperties
  <2>2. CASE GetStream(s)
    BY <1>1, <2>1, <2>2 DEF GetStream, Move, Places
  <2>3. CASE QueueFrame(s)
    BY <1>1, <2>3 DEF QueueFrame, Places
  <2>4. CASE WaitReturns(s) \/ TimesOut(s)
    BY <1>1, <2>4 DEF WaitReturns, TimesOut, Move, Places
  <2>. QED
    BY <1>3, <2>2, <2>3, <2>4
<1>4. ASSUME NEW s \in Senders, Enumerate(s) \/ CollectResponse(s)
      PROVE  /\ pc' \in [Senders -> Places] /\ collected' \in [Senders -> Seq(ExchangeFrame)]
             /\ amount' \in [Senders -> Nat]
             /\ UNCHANGED <<own, queued, released, taskVars, creditVars>>
  <2>1. Started(s)
    BY <1>4 DEF Enumerate, CollectResponse, Move, Started
  <2>2. objects[own[s]].received \in Seq(ExchangeFrame)
        /\ Len(objects[own[s]].received) \in Nat
    BY <1>2, <2>1
  <2>3. CASE Enumerate(s)
    BY <1>1, <2>2, <2>3 DEF Enumerate, Move, Places
  <2>4. CASE CollectResponse(s)
    BY <1>1, <2>2, <2>4 DEF CollectResponse, Places
  <2>. QED
    BY <1>4, <2>3, <2>4
<1>5. ASSUME NEW s \in Senders, Cleanup(s) \/ FreeUpWindowSpace(s)
      PROVE  /\ pc' \in [Senders -> Places] /\ amount' \in [Senders -> Nat]
             /\ receivedDataCount' \in Nat
             /\ UNCHANGED <<own, queued, collected, released, taskVars, freed>>
  <2>1. CASE Cleanup(s)
    BY <1>1, <2>1 DEF Cleanup, Move, Places, creditVars
  <2>2. CASE FreeUpWindowSpace(s)
    BY <1>1, <2>2 DEF FreeUpWindowSpace, Places
  <2>. QED
    BY <1>5, <2>1, <2>2
<1>6. ASSUME NEW s \in Senders, QueueWindowUpdate(s)
      PROVE  /\ pc' \in [Senders -> Places] /\ freed' \in Seq(Nat)
             /\ UNCHANGED <<own, queued, collected, amount, released, taskVars,
                            receivedDataCount>>
  <2>1. amount[s] \in Nat
    BY <1>1
  <2>2. Append(freed, amount[s]) \in Seq(Nat)
    BY <1>1, <2>1, AppendProperties
  <2>. QED
    BY <1>1, <1>6, <2>2 DEF QueueWindowUpdate, Move, Places
<1>7. ASSUME NEW s \in Senders, ReceiveFrame(s)
      PROVE  /\ answered' \in [Senders -> Nat] /\ receivedDataCount' \in Nat
             /\ UNCHANGED <<senderVars, released, connected, freed>>
  <2>1. answered' = [answered EXCEPT ![s] = answered[s] + 1] /\ answered[s] \in Nat
        /\ Response[s][answered'[s]] \in ExchangeFrame
    BY <1>7, NextResponse
  <2>4. Response[s][answered'[s]].length \in Nat
    BY <2>1 DEF ExchangeFrame
  <2>5. receivedDataCount' = receivedDataCount +
          (IF Response[s][answered'[s]].type = "Data"
           THEN Response[s][answered'[s]].length ELSE 0)
    BY <1>7 DEF ReceiveFrame, CountedBytes
  <2>6. receivedDataCount' \in Nat
    <3>. DEFINE length == Response[s][answered'[s]].length
    <3>1. receivedDataCount' = receivedDataCount + length
            \/ receivedDataCount' = receivedDataCount + 0
      BY <2>5
    <3>2. length \in Nat /\ receivedDataCount \in Nat
      BY <1>1, <2>4
    <3>. HIDE DEF length
    <3>. QED
      BY <3>1, <3>2
  <2>7. answered' \in [Senders -> Nat]
    BY <1>1, <2>1
  <2>. QED
    BY <1>7, <2>6, <2>7 DEF ReceiveFrame
<1>8. CASE RaiseEvent
  BY <1>1, <1>8 DEF RaiseEvent, senderVars, creditVars
<1>9. ASSUME Reader, ~RaiseEvent, \A s \in Senders : ~ReceiveFrame(s)
      PROVE  UNCHANGED <<senderVars, released, creditVars, connected, answered>>
  BY <1>9 DEF Reader, ReaderGetsStream, ReaderAddsFrame, ReaderSetsState
<1>10. ASSUME Writer
       PROVE  UNCHANGED <<senderVars, released, creditVars, connected, answered>>
  BY <1>10 DEF Writer, WriteFrame, WriterGetsStream, WriterReadsState, WriterSetsState,
               WriterFaults
<1>11. CASE ConnectionLost \/ UNCHANGED vars
  BY <1>1, <1>11 DEF ConnectionLost, vars, senderVars, creditVars, taskVars
<1>12. CASE UNCHANGED <<senderVars, released, creditVars, connected, answered>>
  BY <1>1, <1>12 DEF senderVars, creditVars
<1>13. ASSUME NEW s \in Senders, Send(s)
       PROVE  \/ GetStream(s) \/ QueueFrame(s) \/ WaitReturns(s) \/ TimesOut(s)
              \/ Enumerate(s) \/ CollectResponse(s)
              \/ Cleanup(s) \/ FreeUpWindowSpace(s)
              \/ QueueWindowUpdate(s)
  BY <1>13 DEF Send
<1>14. CASE \E s \in Senders : Send(s)
  BY <1>1, <1>3, <1>4, <1>5, <1>6, <1>13, <1>14 DEF taskVars, creditVars
<1>15. CASE \E s \in Senders : ReceiveFrame(s)
  BY <1>1, <1>7, <1>15 DEF senderVars
<1>. QED
  BY <1>8, <1>9, <1>10, <1>11, <1>12, <1>14, <1>15 DEF Next

LEMMA Counts ==
  ASSUME ExchangeInv, [Next]_vars
  PROVE  /\ written' \in [Senders -> Nat]
         /\ \A s \in Senders : /\ written'[s] <= queued'[s] /\ queued'[s] <= Len(Request[s])
                               /\ pc'[s] \in {"start", "queue"} =>
                                    queued'[s] < Len(Request[s])
                               /\ answered'[s] <= Len(Response[s])
<1>1. /\ queued \in [Senders -> Nat] /\ written \in [Senders -> Nat]
      /\ answered \in [Senders -> Nat] /\ pc \in [Senders -> Places]
      /\ \A s \in Senders : /\ written[s] <= queued[s] /\ queued[s] <= Len(Request[s])
                            /\ pc[s] \in {"start", "queue"} => queued[s] < Len(Request[s])
                            /\ answered[s] <= Len(Response[s])
  BY DEF ExchangeInv, TypeOK
<1>2. \A s \in Senders : Len(Request[s]) \in Nat /\ Len(Response[s]) \in Nat
  BY LenProperties, ExchangeAssumption
<1>3. ASSUME NEW s \in Senders, QueueFrame(s)
      PROVE  /\ written' = written /\ answered' = answered
             /\ \A t \in Senders : queued'[t] \in {queued[t], queued[t] + 1}
             /\ \A t \in Senders :
                  /\ queued'[t] <= Len(Request[t])
                  /\ pc'[t] \in {"start", "queue"} => queued'[t] < Len(Request[t])
  <2>1. queued' = [queued EXCEPT ![s] = queued[s] + 1] /\ queued[s] < Len(Request[s])
        /\ pc' = [pc EXCEPT ![s] = IF queued'[s] = Len(Request[s]) THEN "wait" ELSE pc[s]]
    BY <1>1, <1>3 DEF QueueFrame
  <2>2. queued'[s] = queued[s] + 1 /\ \A t \in Senders : t # s => queued'[t] = queued[t]
    BY <1>1, <2>1
  <2>3. queued[s] \in Nat /\ Len(Request[s]) \in Nat
    BY <1>1, <1>2
  <2>4. queued'[s] <= Len(Request[s])
    BY <2>1, <2>2, <2>3
  <2>5. pc'[s] \in {"start", "queue"} => queued'[s] < Len(Request[s])
    BY <1>1, <2>1, <2>2, <2>3, <2>4
  <2>6. \A t \in Senders : t # s => pc'[t] = pc[t]
    BY <1>1, <2>1
  <2>. QED
    BY <1>1, <1>3, <2>2, <2>4, <2>5, <2>6 DEF QueueFrame, taskVars
<1>4. ASSUME NEW s \in Senders, Send(s), ~QueueFrame(s)
      PROVE  /\ queued' = queued /\ written' = written /\ answered' = answered
             /\ \A t \in Senders : pc'[t] \in {"start", "queue"} =>
                                   pc[t] \in {"start", "queue"}
  <2>1. CASE GetStream(s) \/ WaitReturns(s) \/ TimesOut(s) \/ Enumerate(s)
    BY <1>1, <2>1 DEF GetStream, WaitReturns, TimesOut, Enumerate, Move, taskVars
  <2>2. CASE CollectResponse(s)
    BY <1>1, <2>2 DEF CollectResponse, taskVars
  <2>3. CASE Cleanup(s) \/ QueueWindowUpdate(s)
    BY <1>1, <2>3 DEF Cleanup, QueueWindowUpdate, Move, taskVars
  <2>4. CASE FreeUpWindowSpace(s)
    BY <1>1, <2>4 DEF FreeUpWindowSpace, taskVars
  <2>. QED
    BY <1>4, <2>1, <2>2, <2>3, <2>4 DEF Send
<1>5. ASSUME NEW s \in Senders, WriteFrame(s)
      PROVE  /\ written' \in [Senders -> Nat] /\ UNCHANGED <<queued, pc, answered>>
             /\ \A t \in Senders : written'[t] <= queued[t]
  BY <1>1, <1>5 DEF WriteFrame, senderVars
<1>6. ASSUME NEW s \in Senders, ReceiveFrame(s)
      PROVE  /\ UNCHANGED <<written, queued, pc>>
             /\ \A t \in Senders : answered'[t] <= Len(Response[t])
  BY <1>1, <1>2, <1>6 DEF ReceiveFrame, senderVars
<1>7. CASE WriterGetsStream \/ WriterReadsState \/ WriterSetsState \/ WriterFaults
           \/ ReaderGetsStream \/ ReaderAddsFrame \/ ReaderSetsState \/ RaiseEvent
           \/ ConnectionLost \/ UNCHANGED vars
  BY <1>1, <1>7 DEF WriterGetsStream, WriterReadsState, WriterSetsState, WriterFaults,
                    ReaderGetsStream, ReaderAddsFrame, ReaderSetsState, RaiseEvent, ConnectionLost, vars,
                    senderVars, taskVars
<1>8. CASE \E s \in Senders : Send(s)
  <2>1. PICK s \in Senders : Send(s)
    BY <1>8
  <2>2. CASE QueueFrame(s)
    <3>1. written' = written /\ answered' = answered
          /\ \A t \in Senders :
               /\ queued'[t] \in {queued[t], queued[t] + 1}
               /\ queued'[t] <= Len(Request[t])
               /\ pc'[t] \in {"start", "queue"} => queued'[t] < Len(Request[t])
      BY <1>3, <2>2
    <3>2. \A t \in Senders : queued[t] \in Nat /\ written[t] \in Nat
      BY <1>1
    <3>3. ASSUME NEW t \in Senders PROVE written'[t] <= queued'[t]
      <4>1. written[t] <= queued[t] /\ queued[t] \in Nat /\ written[t] \in Nat
        BY <1>1, <3>2
      <4>2. queued'[t] = queued[t] \/ queued'[t] = queued[t] + 1
        BY <3>1
      <4>3. written'[t] = written[t]
        BY <3>1
      <4>. QED
        BY <4>1, <4>2, <4>3
    <3>. QED
      BY <1>1, <3>1, <3>3
  <2>3. CASE ~QueueFrame(s)
    BY <1>1, <1>4, <2>1, <2>3
  <2>. QED
    BY <2>2, <2>3
<1>9. CASE \E s \in Senders : WriteFrame(s)
  BY <1>1, <1>5, <1>9
<1>10. CASE \E s \in Senders : ReceiveFrame(s)
  BY <1>1, <1>6, <1>10
<1>. QED
  BY <1>7, <1>8, <1>9, <1>10 DEF Next, Writer, Reader

LEMMA TypeStep == ASSUME ExchangeInv, [Next]_vars PROVE TypeOK'
<1>1. objects' \in Seq(StreamObject)
  BY HeapGrows
<1>. QED
  BY <1>1, SenderTypes, DictionaryStep, Counts DEF TypeOK

LEMMA WriterStep == ASSUME ExchangeInv, [Next]_vars PROVE WriterOK'
<1>1. WriterOK /\ nextStreamId \in Nat /\ objects \in Seq(StreamObject)
  BY DEF ExchangeInv, TypeOK
<1>2. DOMAIN objects \subseteq DOMAIN objects' /\ nextStreamId' \in Nat
      /\ nextStreamId <= nextStreamId'
  BY HeapGrows, DictionaryStep
<1>3. CASE writer' = writer
  BY <1>1, <1>2, <1>3 DEF WriterOK
<1>4. ASSUME NEW s \in Senders, WriteFrame(s)
      PROVE  WriterOK'
  <2>1. writer' = [at |-> "get", id |-> StreamId(s), frame |-> Request[s][written'[s]]]
        /\ nextStreamId' = nextStreamId
    BY <1>4 DEF WriteFrame, streamVars
  <2>2. /\ written[s] \in Nat /\ queued[s] \in Nat /\ written[s] < queued[s]
        /\ queued[s] <= Len(Request[s]) /\ written'[s] = written[s] + 1
    BY <1>4 DEF WriteFrame, ExchangeInv, TypeOK
  <2>3. Len(Request[s]) \in Nat
    BY LenProperties, ExchangeAssumption
  <2>4. written'[s] \in 1 .. Len(Request[s])
    BY <2>2, <2>3
  <2>5. Request[s][written'[s]].type \in {"Headers", "Continuation", "Data"}
    BY <2>4, RequestTypes
  <2>6. Started(s)
    BY <2>2 DEF ExchangeInv, OwnStream
  <2>7. own[s] \in DOMAIN objects /\ StreamId(s) < nextStreamId /\ StreamId(s) % 2 = 1
    BY <2>6 DEF ExchangeInv, OwnStream
  <2>8. StreamId(s) \in Nat
    BY <2>7, ObjectTypes DEF StreamId
  <2>9. StreamId(s) \in 1 .. nextStreamId - 1
    BY <1>1, <2>7, <2>8
  <2>. QED
    BY <2>1, <2>5, <2>7, <2>9 DEF WriterOK
<1>5. CASE WriterGetsStream
  <2>1. writer.at = "get"
        /\ \E o \in 1 .. Len(objects) + 1 :
             GetById(writer.id, o)
             /\ writer' = [at |-> "read", object |-> o, frame |-> writer.frame]
    BY <1>5 DEF WriterGetsStream
  <2>2. PICK o \in 1 .. Len(objects) + 1 :
          GetById(writer.id, o)
          /\ writer' = [at |-> "read", object |-> o, frame |-> writer.frame]
    BY <2>1
  <2>3. writer.id \in Nat
    BY <1>1, <2>1 DEF WriterOK
  <2>4. o \in DOMAIN objects'
    BY <2>2, <2>3, Found
  <2>. QED
    BY <1>1, <2>1, <2>2, <2>4 DEF WriterOK
<1>6. CASE WriterReadsState
  <2>1. writer.at = "read" /\ writer.object \in DOMAIN objects
    BY <1>1, <1>6 DEF WriterReadsState, WriterOK
  <2>2. objects[writer.object].state \in StreamStates
    BY <2>1, ObjectTypes
  <2>. QED
    BY <1>1, <1>2, <1>6, <2>1, <2>2 DEF WriterReadsState, WriterOK
<1>7. CASE WriterSetsState \/ WriterFaults
  BY <1>7 DEF WriterSetsState, WriterFaults, WriterOK
<1>8. ASSUME NEW s \in Senders, Send(s) PROVE writer' = writer
  BY <1>8 DEF Send, GetStream, QueueFrame, WaitReturns, TimesOut, Enumerate, CollectResponse,
              Cleanup, FreeUpWindowSpace, QueueWindowUpdate, taskVars
<1>9. ASSUME Reader \/ ConnectionLost \/ UNCHANGED vars PROVE writer' = writer
  BY <1>9 DEF Reader, ReceiveFrame, ReaderGetsStream, ReaderAddsFrame, ReaderSetsState,
              RaiseEvent, ConnectionLost, vars, taskVars
<1>. QED
  BY <1>3, <1>4, <1>5, <1>6, <1>7, <1>8, <1>9 DEF Next, Writer

\* Looking up the stream of the frame it handles, the Read task gets an
\* object of that identifier.
LEMMA ReaderFinds ==
  ASSUME ExchangeInv, ReaderGetsStream
  PROVE  /\ reader.at = "get" /\ reader.sender \in Senders /\ Started(reader.sender)
         /\ reader.frame \in ExchangeFrame
         /\ \E o \in 1 .. Len(objects) + 1 :
              /\ reader' = [at |-> "add", sender |-> reader.sender, object |-> o,
                            frame |-> reader.frame]
              /\ GetById(StreamId(reader.sender), o)
              /\ o \in DOMAIN objects' /\ objects'[o].id = StreamId(reader.sender)
              /\ streams'[StreamId(reader.sender)] = o
              /\ \A i \in DOMAIN streams : streams'[i] = streams[i]
<1>1. PICK o \in 1 .. Len(objects) + 1 :
        /\ GetById(reader.id, o)
        /\ reader' = [at |-> "add", sender |-> reader.sender, object |-> o,
                      frame |-> reader.frame]
  BY DEF ReaderGetsStream
<1>2. /\ reader.at = "get" /\ reader.sender \in Senders /\ Started(reader.sender)
      /\ reader.frame \in ExchangeFrame /\ reader.id = StreamId(reader.sender)
  BY DEF ReaderGetsStream, ExchangeInv, ReaderOK, RightStream
<1>3. own[reader.sender] \in DOMAIN objects
  BY <1>2 DEF ExchangeInv, OwnStream
<1>4. reader.id \in Nat
  BY <1>2, <1>3, ObjectTypes DEF StreamId
<1>5. /\ streams'[reader.id] = o /\ o \in DOMAIN objects' /\ objects'[o].id = reader.id
      /\ \A i \in DOMAIN streams : streams'[i] = streams[i]
  BY <1>1, <1>4, Found
<1>6. GetById(StreamId(reader.sender), o)
  BY <1>1, <1>2
<1>. QED
  BY <1>1, <1>2, <1>5, <1>6

LEMMA ReaderStep == ASSUME ExchangeInv, [Next]_vars PROVE ReaderOK'
<1>1. ReaderOK
  BY DEF ExchangeInv
<1>2. DOMAIN objects \subseteq DOMAIN objects'
  BY HeapGrows
<1>3. CASE reader' = reader
  BY <1>1, <1>2, <1>3 DEF ReaderOK
<1>4. ASSUME NEW s \in Senders, ReceiveFrame(s) PROVE ReaderOK'
  <2>1. /\ reader' = [at |-> "get", sender |-> s, id |-> StreamId(s),
                      frame |-> Response[s][answered'[s]]]
        /\ Response[s][answered'[s]] \in ExchangeFrame
    BY <1>4, NextResponse
  <2>. QED
    BY <2>1 DEF ReaderOK
<1>5. CASE ReaderGetsStream
  <2>1. reader.sender \in Senders /\ reader.frame \in ExchangeFrame
        /\ \E o \in DOMAIN objects' :
             reader' = [at |-> "add", sender |-> reader.sender, object |-> o,
                        frame |-> reader.frame]
    BY <1>5, ReaderFinds
  <2>. QED
    BY <2>1 DEF ReaderOK
<1>6. CASE ReaderAddsFrame
  <2>1. reader.at = "add" /\ reader.object \in DOMAIN objects /\ reader.frame \in ExchangeFrame
    BY <1>1, <1>6 DEF ReaderAddsFrame, ReaderOK
  <2>2. objects[reader.object].state \in StreamStates
    BY <2>1, ObjectTypes
  <2>. QED
    BY <1>2, <1>6, <2>1, <2>2 DEF ReaderAddsFrame, ReaderOK
<1>7. CASE ReaderSetsState \/ RaiseEvent
  BY <1>1, <1>2, <1>7 DEF ReaderSetsState, RaiseEvent, ReaderOK
<1>. QED
  BY <1>3, <1>4, <1>5, <1>6, <1>7, ReaderStays DEF Next, Reader

\* Until its Cleanup a Send's stream stays in the dictionary.
LEMMA DictionaryKeeps ==
  ASSUME ExchangeInv, [Next]_vars, NEW s \in Senders, Started(s), ~CleanedUp(s)'
  PROVE  StreamId(s) \in DOMAIN streams' /\ streams'[StreamId(s)] = own[s]
<1>1. /\ ~CleanedUp(s) /\ StreamId(s) \in DOMAIN streams /\ streams[StreamId(s)] = own[s]
      /\ \A t \in Senders : Started(t) /\ t # s => StreamId(t) # StreamId(s)
  <2>1. ~CleanedUp(s)
    BY Stable
  <2>. QED
    BY <2>1 DEF ExchangeInv, OwnStream
<1>2. CASE streams' = streams
  BY <1>1, <1>2
<1>3. ASSUME NEW t \in Senders, GetStream(t)
      PROVE  StreamId(s) \in DOMAIN streams' /\ streams'[StreamId(s)] = own[s]
  BY <1>1, <1>3, FreshIdentifier
<1>4. ASSUME NEW t \in Senders, Cleanup(t)
      PROVE  StreamId(s) \in DOMAIN streams' /\ streams'[StreamId(s)] = own[s]
  <2>1. Started(t) /\ CleanedUp(t)'
    BY <1>4 DEF Cleanup, Move, Started, CleanedUp, ExchangeInv, TypeOK
  <2>2. StreamId(t) # StreamId(s)
    BY <1>1, <2>1
  <2>. QED
    BY <1>1, <1>4, <2>2 DEF Cleanup
<1>5. ASSUME NEW id \in DOMAIN streams', id \in 1 .. nextStreamId - 1,
             NEW o \in 1 .. Len(objects) + 1, GetById(id, o)
      PROVE  StreamId(s) \in DOMAIN streams' /\ streams'[StreamId(s)] = own[s]
  <2>1. id \in Nat
    BY <1>5 DEF ExchangeInv, TypeOK
  <2>. QED
    BY <1>1, <1>5, <2>1, Found
<1>. QED
  BY <1>2, <1>3, <1>4, <1>5, DictionarySteps

LEMMA OwnStreamStep == ASSUME ExchangeInv, [Next]_vars PROVE OwnStream'
<1>. SUFFICES ASSUME NEW s \in Senders
              PROVE  IF Started(s)'
                     THEN /\ own'[s] \in DOMAIN objects'
                          /\ StreamId(s)' < nextStreamId' /\ StreamId(s)' % 2 = 1
                          /\ \A t \in Senders :
                               Started(t)' /\ t # s => StreamId(t)' # StreamId(s)'
                          /\ ~CleanedUp(s)' => /\ StreamId(s)' \in DOMAIN streams'
                                               /\ streams'[StreamId(s)'] = own'[s]
                     ELSE own'[s] = NoObject /\ queued'[s] = 0 /\ answered'[s] = 0
  BY DEF OwnStream
<1>1. /\ own \in [Senders -> Nat] /\ pc \in [Senders -> Places]
      /\ nextStreamId \in Nat /\ nextStreamId % 2 = 1
  BY DEF ExchangeInv, TypeOK
<1>2. nextStreamId' \in Nat /\ nextStreamId <= nextStreamId'
  BY DictionaryStep
<1>3. ASSUME NEW t \in Senders, GetStream(t)
      PROVE  StreamId(t)' = nextStreamId
  <2>1. objects'[own'[t]] = NewStream(nextStreamId)
    BY <1>3, FreshIdentifier
  <2>. QED
    BY <2>1 DEF StreamId, NewStream
<1>4. ASSUME NEW t \in Senders, Started(t)
      PROVE  /\ own[t] \in DOMAIN objects /\ StreamId(t) < nextStreamId
             /\ StreamId(t) % 2 = 1 /\ StreamId(t) \in Nat /\ StreamId(t)' = StreamId(t)
  <2>1. /\ own[t] \in DOMAIN objects /\ StreamId(t) < nextStreamId /\ StreamId(t) % 2 = 1
    BY <1>4 DEF ExchangeInv, OwnStream
  <2>2. StreamId(t) \in Nat
    BY <2>1, ObjectTypes DEF StreamId
  <2>. QED
    BY <1>4, <2>1, <2>2, Stable
<1>5. CASE Started(s)
  <2>1. Started(s)' /\ own'[s] = own[s] /\ StreamId(s)' = StreamId(s)
    BY <1>5, Stable
  <2>2. own'[s] \in DOMAIN objects'
    BY <1>4, <1>5, <2>1, HeapGrows
  <2>3. StreamId(s)' < nextStreamId' /\ StreamId(s)' % 2 = 1
    BY <1>1, <1>2, <1>4, <1>5, <2>1
  <2>4. ASSUME NEW t \in Senders, Started(t)', t # s PROVE StreamId(t)' # StreamId(s)'
    <3>1. CASE Started(t)
      BY <1>4, <1>5, <2>1, <2>4, <3>1 DEF ExchangeInv, OwnStream
    <3>2. CASE ~Started(t)
      <4>1. StreamId(t)' = nextStreamId
        BY <1>3, <2>4, <3>2, Stable
      <4>. QED
        BY <1>1, <1>4, <1>5, <2>1, <4>1
    <3>. QED
      BY <3>1, <3>2
  <2>5. ~CleanedUp(s)' => /\ StreamId(s)' \in DOMAIN streams'
                          /\ streams'[StreamId(s)'] = own'[s]
    BY <1>5, <2>1, DictionaryKeeps
  <2>. QED
    BY <2>1, <2>2, <2>3, <2>4, <2>5
<1>6. CASE ~Started(s) /\ Started(s)'
  <2>1. GetStream(s)
    BY <1>6, Stable
  <2>2. StreamId(s)' = nextStreamId
    BY <1>3, <2>1
  <2>3. /\ nextStreamId' = nextStreamId + 2 /\ own'[s] \in DOMAIN objects'
        /\ nextStreamId \in DOMAIN streams' /\ streams'[nextStreamId] = own'[s]
    BY <2>1, FreshIdentifier
  <2>4. ASSUME NEW t \in Senders, Started(t)', t # s PROVE StreamId(t)' # StreamId(s)'
    <3>1. Send(s)
      BY <2>1 DEF Send
    <3>2. pc'[t] = pc[t]
      BY <2>4, <3>1, OtherSends
    <3>3. Started(t)
      BY <2>4, <3>2 DEF Started
    <3>. QED
      BY <1>1, <1>4, <2>2, <3>3
  <2>. QED
    BY <1>1, <1>6, <2>2, <2>3, <2>4
<1>7. CASE ~Started(s) /\ ~Started(s)'
  BY <1>7, Stable DEF ExchangeInv, OwnStream
<1>. QED
  BY <1>5, <1>6, <1>7

LEMMA RightStreamStep == ASSUME ExchangeInv, [Next]_vars PROVE RightStream'
<1>1. RightStream /\ ReaderOK
  BY DEF ExchangeInv
<1>2. CASE reader' = reader /\ answered' = answered
  <2>. SUFFICES ASSUME NEW s \in Senders, s = reader.sender, reader.at \in {"get", "add"}
                PROVE  /\ Started(s)'
                       /\ answered[s] > 0 /\ reader.frame = Response[s][answered[s]]
                       /\ reader.at = "get" => reader.id = StreamId(s)'
                       /\ reader.at = "add" =>
                            /\ objects'[reader.object].id = StreamId(s)'
                            /\ ~CleanedUp(s)' => reader.object = own'[s]
    BY <1>1, <1>2 DEF RightStream, ReaderOK
  <2>1. /\ Started(s) /\ answered[s] > 0
        /\ reader.frame = Response[s][answered[s]]
        /\ reader.at = "get" => reader.id = StreamId(s)
        /\ reader.at = "add" => /\ reader.object \in DOMAIN objects
                                /\ objects[reader.object].id = StreamId(s)
                                /\ ~CleanedUp(s) => reader.object = own[s]
    BY <1>1 DEF RightStream, ReaderOK
  <2>2. /\ Started(s)' /\ own'[s] = own[s] /\ StreamId(s)' = StreamId(s)
        /\ CleanedUp(s) => CleanedUp(s)'
    BY <2>1, Stable
  <2>3. reader.at = "add" => objects'[reader.object].id = objects[reader.object].id
    BY <2>1, HeapGrows
  <2>. QED
    BY <2>1, <2>2, <2>3
<1>3. ASSUME NEW s \in Senders, ReceiveFrame(s) PROVE RightStream'
  <2>1. /\ answered[s] \in Nat /\ answered'[s] = answered[s] + 1 /\ Started(s)
        /\ reader' = [at |-> "get", sender |-> s, id |-> StreamId(s),
                      frame |-> Response[s][answered'[s]]]
    BY <1>3, NextResponse
  <2>2. Started(s)' /\ StreamId(s)' = StreamId(s)
    BY <2>1, Stable
  <2>3. answered'[s] > 0
    BY <2>1
  <2>. QED
    BY <2>1, <2>2, <2>3 DEF RightStream
<1>4. CASE ReaderGetsStream
  <2>1. PICK s \in Senders : s = reader.sender /\ Started(s)
    BY <1>4, ReaderFinds
  <2>2. PICK o \in 1 .. Len(objects) + 1 :
          /\ reader' = [at |-> "add", sender |-> s, object |-> o, frame |-> reader.frame]
          /\ objects'[o].id = StreamId(s) /\ streams'[StreamId(s)] = o
    <3>1. \E o \in 1 .. Len(objects) + 1 :
            /\ reader' = [at |-> "add", sender |-> reader.sender, object |-> o,
                          frame |-> reader.frame]
            /\ objects'[o].id = StreamId(reader.sender)
            /\ streams'[StreamId(reader.sender)] = o
      BY <1>4, ReaderFinds
    <3>. QED
      BY <2>1, <3>1
  <2>3. Started(s)' /\ own'[s] = own[s] /\ StreamId(s)' = StreamId(s)
    BY <2>1, Stable
  <2>4. ~CleanedUp(s)' => o = own[s]
    BY <2>1, <2>2, DictionaryKeeps
  <2>5. answered' = answered /\ reader.at = "get"
    BY <1>4 DEF ReaderGetsStream
  <2>6. answered[s] > 0 /\ reader.frame = Response[s][answered[s]]
    BY <1>1, <2>1, <2>5 DEF RightStream
  <2>. QED
    BY <2>2, <2>3, <2>4, <2>5, <2>6 DEF RightStream
<1>5. CASE ReaderAddsFrame \/ ReaderSetsState \/ RaiseEvent
  BY <1>5 DEF ReaderAddsFrame, ReaderSetsState, RaiseEvent, RightStream
<1>. QED
  BY <1>2, <1>3, <1>4, <1>5, ReaderStays DEF Next, Reader

\* Only ReaderAddsFrame changes the received frames of an object, and only
\* the two tasks' assignments its state; a new object is idle and empty.
LEMMA ObjectSteps ==
  ASSUME ExchangeInv, [Next]_vars
  PROVE  \A o \in DOMAIN objects' :
           IF o \in DOMAIN objects
           THEN /\ \/ objects'[o].received = objects[o].received
                   \/ ReaderAddsFrame /\ o = reader.object
                /\ \/ objects'[o].state = objects[o].state
                   \/ WriterSetsState \/ ReaderSetsState
           ELSE objects'[o].state = "Idle" /\ objects'[o].received = <<>>
<1>0. objects \in Seq(StreamObject)
  BY DEF ExchangeInv, TypeOK
<1>1. CASE objects' = objects
  BY <1>1
<1>2. ASSUME NEW id \in Nat, objects' = Append(objects, NewStream(id)),
             NEW o \in DOMAIN objects'
      PROVE  IF o \in DOMAIN objects THEN objects'[o] = objects[o]
             ELSE objects'[o].state = "Idle" /\ objects'[o].received = <<>>
  <2>1. /\ DOMAIN objects = 1 .. Len(objects) /\ DOMAIN objects' = 1 .. Len(objects) + 1
        /\ Len(objects) \in Nat
        /\ \A p \in DOMAIN objects : objects'[p] = objects[p]
        /\ objects'[Len(objects) + 1] = NewStream(id)
    BY <1>0, <1>2, Created
  <2>2. o \in DOMAIN objects \/ o = Len(objects) + 1
    BY <1>2, <2>1
  <2>. QED
    BY <2>1, <2>2 DEF NewStream
<1>3. ASSUME ReaderAddsFrame, NEW f \in ExchangeFrame, reader.object \in DOMAIN objects,
             objects' = [objects EXCEPT ![reader.object].received = Append(@, f)]
      PROVE  /\ DOMAIN objects' = DOMAIN objects
             /\ \A o \in DOMAIN objects :
                  /\ objects'[o].state = objects[o].state
                  /\ o # reader.object => objects'[o].received = objects[o].received
  BY <1>0, <1>3, FrameAdded
<1>4. ASSUME WriterSetsState \/ ReaderSetsState,
             NEW o \in DOMAIN objects, NEW new \in StreamStates,
             objects' = [objects EXCEPT ![o].state = new]
      PROVE  /\ DOMAIN objects' = DOMAIN objects
             /\ \A p \in DOMAIN objects : objects'[p].received = objects[p].received
  BY <1>0, <1>4, StateSet
<1>5. CASE \E id \in Nat : objects' = Append(objects, NewStream(id))
  BY <1>2, <1>5
<1>6. CASE /\ ReaderAddsFrame
           /\ \E o \in DOMAIN objects, f \in ExchangeFrame :
                /\ o = reader.object /\ f = reader.frame
                /\ objects' = [objects EXCEPT ![o].received = Append(@, f)]
  BY <1>3, <1>6
<1>7. CASE /\ WriterSetsState \/ ReaderSetsState
           /\ \E o \in DOMAIN objects, new \in StreamStates :
                objects' = [objects EXCEPT ![o].state = new]
  BY <1>4, <1>7
<1>. QED
  BY <1>1, <1>5, <1>6, <1>7, HeapSteps

\* The Read task adds the frame it handles to the object its Send has, and
\* to no other Send's.
LEMMA FrameReachesOwner ==
  ASSUME ExchangeInv, ReaderAddsFrame, NEW s \in Senders, Started(s), ~CleanedUp(s)
  PROVE  IF reader.sender = s
         THEN /\ Len(objects'[own[s]].received) = answered[s]
              /\ Begins(objects'[own[s]].received, s)
         ELSE objects'[own[s]].received = objects[own[s]].received
<1>1. /\ reader.at = "add" /\ reader.sender \in Senders
      /\ reader.object \in DOMAIN objects /\ reader.frame \in ExchangeFrame
      /\ objects' = [objects EXCEPT ![reader.object].received = Append(@, reader.frame)]
  BY DEF ReaderAddsFrame, ExchangeInv, ReaderOK
<1>2. own[s] \in DOMAIN objects /\ objects \in Seq(StreamObject)
  BY DEF ExchangeInv, TypeOK, OwnStream
<1>3. CASE reader.sender = s
  <2>1. /\ reader.object = own[s] /\ reader.frame = Response[s][answered[s]]
        /\ answered[s] > 0
    BY <1>1, <1>3 DEF ExchangeInv, RightStream
  <2>2. /\ Len(objects[own[s]].received) = answered[s] - 1
        /\ \A k \in 1 .. Len(objects[own[s]].received) :
             objects[own[s]].received[k] = Response[s][k]
    BY <1>1, <1>3 DEF ExchangeInv, Delivered, Begins
  <2>3. answered[s] \in Nat /\ answered[s] <= Len(Response[s])
    BY DEF ExchangeInv, TypeOK
  <2>4. /\ Len(objects[own[s]].received) \in Nat
        /\ DOMAIN objects[own[s]].received = 1 .. Len(objects[own[s]].received)
        /\ Len(objects'[own[s]].received) = Len(objects[own[s]].received) + 1
        /\ \A k \in DOMAIN objects[own[s]].received :
             objects'[own[s]].received[k] = objects[own[s]].received[k]
        /\ objects'[own[s]].received[Len(objects[own[s]].received) + 1] = reader.frame
    BY <1>1, <1>2, <2>1, FrameAdded
  <2>5. Len(objects'[own[s]].received) = answered[s]
    BY <2>2, <2>3, <2>4
  <2>6. ASSUME NEW k \in 1 .. answered[s]
        PROVE  objects'[own[s]].received[k] = Response[s][k]
    <3>1. CASE k = answered[s]
      <4>1. Len(objects[own[s]].received) + 1 = answered[s]
        BY <2>2, <2>3
      <4>. QED
        BY <2>1, <2>4, <3>1, <4>1
    <3>2. CASE k # answered[s]
      <4>1. k \in 1 .. Len(objects[own[s]].received)
        BY <2>2, <2>3, <2>6, <3>2
      <4>. QED
        BY <2>2, <2>4, <4>1
    <3>. QED
      BY <3>1, <3>2
  <2>. QED
    BY <1>3, <2>3, <2>5, <2>6 DEF Begins
<1>4. CASE reader.sender # s
  <2>1. Started(reader.sender) /\ objects[reader.object].id = StreamId(reader.sender)
    BY <1>1 DEF ExchangeInv, RightStream
  <2>2. StreamId(reader.sender) # StreamId(s)
    BY <1>1, <1>4, <2>1 DEF ExchangeInv, OwnStream
  <2>3. reader.object # own[s]
    BY <2>1, <2>2 DEF StreamId
  <2>4. \A p \in DOMAIN objects :
          p # reader.object => objects'[p].received = objects[p].received
    BY <1>1, <1>2, FrameAdded
  <2>. QED
    BY <1>2, <1>4, <2>3, <2>4
<1>. QED
  BY <1>3, <1>4

LEMMA DeliveredStep == ASSUME ExchangeInv, [Next]_vars PROVE Delivered'
<1>. DEFINE Handling(s) == reader.at \in {"get", "add"} /\ reader.sender = s
<1>. SUFFICES ASSUME NEW s \in Senders, Started(s)', ~CleanedUp(s)'
              PROVE  /\ Len(objects'[own'[s]].received)
                          = answered'[s] - (IF Handling(s)' THEN 1 ELSE 0)
                     /\ Begins(objects'[own'[s]].received, s)
  BY DEF Delivered, Begins
<1>1. CASE ~Started(s)
  <2>1. GetStream(s)
    BY <1>1, Stable
  <2>2. objects'[own'[s]] = NewStream(nextStreamId)
    BY <2>1, FreshIdentifier
  <2>3. objects'[own'[s]].received = <<>>
    BY <2>2 DEF NewStream
  <2>4. answered[s] = 0 /\ ~Handling(s)
    BY <1>1 DEF ExchangeInv, OwnStream, RightStream
  <2>5. reader' = reader /\ answered' = answered
    BY <2>1, ReaderStays DEF Send
  <2>6. Len(Response[s]) \in Nat
    BY LenProperties, ExchangeAssumption
  <2>. QED
    BY <2>3, <2>4, <2>5, <2>6 DEF Begins
<1>2. CASE Started(s)
  <2>1. /\ own'[s] = own[s] /\ ~CleanedUp(s) /\ own[s] \in DOMAIN objects
        /\ own[s] \in DOMAIN objects'
    BY <1>2, Stable, HeapGrows DEF ExchangeInv, OwnStream
  <2>2. /\ Len(objects[own[s]].received) = answered[s] - (IF Handling(s) THEN 1 ELSE 0)
        /\ Begins(objects[own[s]].received, s)
    BY <1>2, <2>1 DEF ExchangeInv, Delivered
  <2>3. answered \in [Senders -> Nat]
    BY DEF ExchangeInv, TypeOK
  <2>4. ~ReaderAddsFrame => objects'[own[s]].received = objects[own[s]].received
    BY <2>1, ObjectSteps
  <2>5. CASE reader' = reader /\ answered' = answered /\ ~ReaderAddsFrame
    BY <2>1, <2>2, <2>4, <2>5
  <2>6. ASSUME NEW t \in Senders, ReceiveFrame(t)
        PROVE  /\ Len(objects'[own'[s]].received)
                    = answered'[s] - (IF Handling(s)' THEN 1 ELSE 0)
               /\ Begins(objects'[own'[s]].received, s)
    <3>1. /\ reader.at = "read" /\ answered' = [answered EXCEPT ![t] = answered[t] + 1]
          /\ reader'.at = "get" /\ reader'.sender = t
      BY <2>6, NextResponse DEF ReceiveFrame
    <3>2. ~ReaderAddsFrame
      BY <3>1 DEF ReaderAddsFrame
    <3>3. Len(objects[own[s]].received) = answered[s]
      BY <2>2, <2>3, <3>1
    <3>4. CASE t = s
      BY <2>1, <2>2, <2>3, <2>4, <3>1, <3>2, <3>3, <3>4
    <3>5. CASE t # s
      BY <2>1, <2>2, <2>3, <2>4, <3>1, <3>2, <3>3, <3>5
    <3>. QED
      BY <3>4, <3>5
  <2>7. CASE ReaderGetsStream
    <3>1. /\ reader.at = "get" /\ reader'.at = "add" /\ reader'.sender = reader.sender
          /\ answered' = answered
      BY <2>7 DEF ReaderGetsStream
    <3>2. ~ReaderAddsFrame
      BY <3>1 DEF ReaderAddsFrame
    <3>. QED
      BY <2>1, <2>2, <2>4, <3>1, <3>2
  <2>8. CASE ReaderAddsFrame
    <3>1. reader.at = "add" /\ reader'.at = "set" /\ answered' = answered
      BY <2>8 DEF ReaderAddsFrame
    <3>2. CASE reader.sender = s
      BY <1>2, <2>1, <2>3, <2>8, <3>1, <3>2, FrameReachesOwner
    <3>3. CASE reader.sender # s
      BY <1>2, <2>1, <2>2, <2>3, <2>8, <3>1, <3>3, FrameReachesOwner
    <3>. QED
      BY <3>2, <3>3
  <2>9. CASE ReaderSetsState \/ RaiseEvent
    <3>1. /\ reader.at \in {"set", "event"} /\ reader'.at \in {"event", "read"}
          /\ answered' = answered
      BY <2>9 DEF ReaderSetsState, RaiseEvent
    <3>2. ~ReaderAddsFrame
      BY <3>1 DEF ReaderAddsFrame
    <3>. QED
      BY <2>1, <2>2, <2>4, <3>1, <3>2
  <2>. QED
    BY <2>5, <2>6, <2>7, <2>8, <2>9, ReaderStays DEF Next, Reader
<1>. QED
  BY <1>1, <1>2

\* An object the heap has keeps the end it has; a new one is not in a state
\* that releases.
LEMMA EndsStay ==
  ASSUME ExchangeInv, [Next]_vars
  PROVE  /\ \A o \in DOMAIN objects : o \in DOMAIN objects' /\ (Ended(o) => Ended(o)')
         /\ ~WriterSetsState /\ ~ReaderSetsState =>
              \A o \in DOMAIN objects' :
                /\ objects'[o].state # "ReservedLocal"
                /\ EndOfStream(objects'[o].state) => Ended(o)'
<1>1. \A o \in DOMAIN objects : o \in DOMAIN objects' /\ (Ended(o) => Ended(o)')
  BY HeapGrows
<1>2. ASSUME ~WriterSetsState, ~ReaderSetsState, NEW o \in DOMAIN objects'
      PROVE  /\ objects'[o].state # "ReservedLocal"
             /\ EndOfStream(objects'[o].state) => Ended(o)'
  <2>1. CASE o \in DOMAIN objects
    <3>1. objects'[o].state = objects[o].state
      BY <1>2, <2>1, ObjectSteps
    <3>2. /\ objects[o].state # "ReservedLocal"
          /\ EndOfStream(objects[o].state) => Ended(o)
      BY <2>1 DEF ExchangeInv, EndIsReal
    <3>. QED
      BY <1>1, <2>1, <3>1, <3>2
  <2>2. CASE o \notin DOMAIN objects
    <3>1. objects'[o].state = "Idle"
      BY <1>2, <2>2, ObjectSteps
    <3>. QED
      BY <3>1 DEF EndOfStream
  <2>. QED
    BY <2>1, <2>2
<1>. QED
  BY <1>1, <1>2

\* What the assignment of a computed state does to the objects.
LEMMA Assigned ==
  ASSUME ExchangeInv, [Next]_vars, NEW p \in DOMAIN objects, NEW new \in StreamStates,
         \/ objects' = objects
         \/ objects' = [objects EXCEPT ![p].state = new],
         new # "ReservedLocal", EndOfStream(new) => Ended(p)
  PROVE  \A o \in DOMAIN objects' : /\ objects'[o].state # "ReservedLocal"
                                    /\ EndOfStream(objects'[o].state) => Ended(o)'
<1>1. /\ objects \in Seq(StreamObject)
      /\ \A o \in DOMAIN objects : /\ objects[o].state # "ReservedLocal"
                                   /\ EndOfStream(objects[o].state) => Ended(o)
  BY DEF ExchangeInv, TypeOK, EndIsReal
<1>2. \A o \in DOMAIN objects : Ended(o) => Ended(o)'
  BY HeapGrows
<1>3. CASE objects' = objects
  BY <1>1, <1>2, <1>3
<1>4. CASE objects' = [objects EXCEPT ![p].state = new]
  <2>1. /\ DOMAIN objects' = DOMAIN objects /\ objects'[p].state = new
        /\ \A o \in DOMAIN objects : o # p => objects'[o].state = objects[o].state
    BY <1>1, <1>4, StateSet
  <2>. QED
    BY <1>1, <1>2, <2>1
<1>. QED
  BY <1>3, <1>4

LEMMA ObjectsEnd ==
  ASSUME ExchangeInv, [Next]_vars
  PROVE  \A o \in DOMAIN objects' : /\ objects'[o].state # "ReservedLocal"
                                    /\ EndOfStream(objects'[o].state) => Ended(o)'
<1>1. CASE WriterSetsState
  <2>. DEFINE new == SentState(writer.state, writer.frame)
  <2>1. /\ writer.object \in DOMAIN objects /\ writer.state \in StreamStates
        /\ writer.state # "ReservedLocal" /\ (EndOfStream(writer.state) => Ended(writer.object))
        /\ writer.frame.type \in {"Headers", "Continuation", "Data"}
    BY <1>1 DEF WriterSetsState, ExchangeInv, WriterOK, EndIsReal
  <2>2. new \in StreamStates
    BY <2>1, StateTypes
  <2>3. new # "ReservedLocal" /\ (EndOfStream(new) => EndOfStream(writer.state))
    BY <2>1, ReleasingStates
  <2>4. objects' = objects \/ objects' = [objects EXCEPT ![writer.object].state = new]
    BY <1>1 DEF WriterSetsState
  <2>5. EndOfStream(new) => Ended(writer.object)
    BY <2>1, <2>3
  <2>. HIDE DEF new
  <2>. QED
    BY <2>1, <2>2, <2>3, <2>4, <2>5, Assigned
<1>2. CASE ReaderSetsState
  <2>. DEFINE new == ReceivedState(reader.state, reader.frame)
  <2>1. /\ reader.object \in DOMAIN objects /\ reader.state \in StreamStates
        /\ reader.state # "ReservedLocal" /\ (EndOfStream(reader.state) => Ended(reader.object))
        /\ Ends(reader.frame) => Ended(reader.object)
    BY <1>2 DEF ReaderSetsState, ExchangeInv, ReaderOK, EndIsReal
  <2>2. new \in StreamStates
    BY <2>1, StateTypes
  <2>3. new # "ReservedLocal"
        /\ (EndOfStream(new) => EndOfStream(reader.state) \/ Ends(reader.frame))
    BY <2>1, ReleasingStates
  <2>4. objects' = objects \/ objects' = [objects EXCEPT ![reader.object].state = new]
    BY <1>2 DEF ReaderSetsState
  <2>5. EndOfStream(new) => Ended(reader.object)
    BY <2>1, <2>3
  <2>. HIDE DEF new
  <2>. QED
    BY <2>1, <2>2, <2>3, <2>4, <2>5, Assigned
<1>. QED
  BY <1>1, <1>2, EndsStay

\* A Send is released by the handler alone, which saw the end.
LEMMA ReleasedStep ==
  ASSUME ExchangeInv, [Next]_vars, NEW s \in Senders
  PROVE  /\ released'[s] => Started(s)' /\ Ended(own[s])'
         /\ released[s] => released'[s]
         /\ pc'[s] \in {"enumerate", "collect"} => released[s]
<1>1. /\ pc \in [Senders -> Places] /\ own \in [Senders -> Nat]
      /\ released \in [Senders -> BOOLEAN]
      /\ released[s] => Started(s) /\ Ended(own[s])
      /\ pc[s] \in {"enumerate", "collect"} => released[s]
  BY DEF ExchangeInv, TypeOK, EndIsReal
<1>2. Started(s) => Started(s)' /\ (Ended(own[s]) => Ended(own[s])')
  BY Stable
<1>3. pc'[s] \in {"enumerate", "collect"} => released[s]
  <2>1. CASE Send(s)
    <3>1. CASE WaitReturns(s) \/ Enumerate(s)
      BY <1>1, <3>1 DEF WaitReturns, Enumerate, Move
    <3>2. CASE GetStream(s) \/ QueueFrame(s) \/ TimesOut(s)
      BY <1>1, <3>2 DEF GetStream, QueueFrame, TimesOut, Move
    <3>3. CASE CollectResponse(s) \/ Cleanup(s)
      BY <1>1, <3>3 DEF CollectResponse, Cleanup, Move
    <3>4. CASE FreeUpWindowSpace(s) \/ QueueWindowUpdate(s)
      BY <1>1, <3>4 DEF FreeUpWindowSpace, QueueWindowUpdate, Move
    <3>. QED
      BY <2>1, <3>1, <3>2, <3>3, <3>4 DEF Send
  <2>2. ASSUME NEW t \in Senders, Send(t), t # s PROVE pc'[s] = pc[s]
    BY <2>2, OtherSends
  <2>3. CASE Writer \/ Reader \/ ConnectionLost \/ UNCHANGED vars
    BY <1>1, <2>3, TaskSteps DEF senderVars
  <2>. QED
    BY <1>1, <2>1, <2>2, <2>3 DEF Next
<1>4. CASE RaiseEvent
  <2>1. /\ reader.object \in DOMAIN objects /\ reader.object \in Nat /\ reader.object # 0
    BY <1>4, HeapGrows DEF RaiseEvent, ExchangeInv, ReaderOK
  <2>2. /\ released'[s] = (released[s] \/ /\ own[s] = reader.object
                                          /\ EndOfStream(objects[reader.object].state))
    BY <1>4 DEF RaiseEvent
  <2>3. ASSUME own[s] = reader.object, EndOfStream(objects[reader.object].state)
        PROVE  Started(s) /\ Ended(own[s])
    BY <2>1, <2>3 DEF ExchangeInv, OwnStream, EndIsReal, NoObject
  <2>. QED
    BY <1>1, <1>2, <1>3, <2>2, <2>3
<1>5. ASSUME ~RaiseEvent PROVE released' = released
  <2>1. ASSUME NEW t \in Senders, Send(t) PROVE released' = released
    BY <2>1 DEF Send, GetStream, QueueFrame, WaitReturns, TimesOut, Enumerate,
                CollectResponse, Cleanup, FreeUpWindowSpace, QueueWindowUpdate
  <2>2. CASE Writer
    BY <2>2 DEF Writer, WriteFrame, WriterGetsStream, WriterReadsState, WriterSetsState,
                WriterFaults
  <2>3. CASE Reader
    BY <1>5, <2>3 DEF Reader, ReceiveFrame, ReaderGetsStream, ReaderAddsFrame, ReaderSetsState
  <2>4. CASE ConnectionLost \/ UNCHANGED vars
    BY <2>4 DEF ConnectionLost, vars
  <2>. QED
    BY <2>1, <2>2, <2>3, <2>4 DEF Next
<1>. QED
  BY <1>1, <1>2, <1>3, <1>4, <1>5

LEMMA EndIsRealStep == ASSUME ExchangeInv, [Next]_vars PROVE EndIsReal'
<1>1. /\ \A o \in DOMAIN objects : /\ objects[o].state # "ReservedLocal"
                                   /\ EndOfStream(objects[o].state) => Ended(o)
      /\ EndIsReal /\ WriterOK /\ ReaderOK
  BY DEF ExchangeInv, EndIsReal
<1>2. \A o \in DOMAIN objects : Ended(o) => Ended(o)'
  BY EndsStay
<1>. DEFINE WriterEnd == writer.at = "set" =>
                           /\ writer.state # "ReservedLocal"
                           /\ EndOfStream(writer.state) => Ended(writer.object)
            ReaderEnd == reader.at = "set" =>
                           /\ reader.state # "ReservedLocal"
                           /\ EndOfStream(reader.state) => Ended(reader.object)
                           /\ Ends(reader.frame) => Ended(reader.object)
<1>3. WriterEnd'
  <2>1. ASSUME NEW o \in DOMAIN objects, writer.object = o, writer' = writer PROVE WriterEnd'
    BY <1>1, <1>2, <2>1 DEF EndIsReal, Ended
  <2>2. CASE writer' = writer
    <3>1. CASE writer.at = "set"
      <4>1. writer.object \in DOMAIN objects
        BY <1>1, <3>1 DEF WriterOK
      <4>. QED
        BY <2>1, <2>2, <4>1
    <3>2. CASE writer.at # "set"
      BY <2>2, <3>2
    <3>. QED
      BY <3>1, <3>2
  <2>3. CASE WriterReadsState
    <3>1. /\ writer.at = "read" /\ writer.object \in DOMAIN objects /\ objects' = objects
          /\ writer' = [at |-> "set", object |-> writer.object, frame |-> writer.frame,
                        state |-> objects[writer.object].state]
      BY <1>1, <2>3 DEF WriterReadsState, WriterOK, streamVars
    <3>. QED
      BY <1>1, <3>1 DEF Ended
  <2>4. ASSUME NEW s \in Senders, WriteFrame(s) PROVE writer'.at = "get"
    BY <2>4 DEF WriteFrame
  <2>5. CASE WriterGetsStream \/ WriterSetsState \/ WriterFaults
    BY <2>5 DEF WriterGetsStream, WriterSetsState, WriterFaults
  <2>6. ASSUME NEW s \in Senders, Send(s) PROVE writer' = writer
    BY <2>6 DEF Send, GetStream, QueueFrame, WaitReturns, TimesOut, Enumerate,
                CollectResponse, Cleanup, FreeUpWindowSpace, QueueWindowUpdate, taskVars
  <2>7. ASSUME Reader \/ ConnectionLost \/ UNCHANGED vars PROVE writer' = writer
    BY <2>7 DEF Reader, ReceiveFrame, ReaderGetsStream, ReaderAddsFrame, ReaderSetsState,
                RaiseEvent, ConnectionLost, vars, taskVars
  <2>. QED
    BY <2>2, <2>3, <2>4, <2>5, <2>6, <2>7 DEF Next, Writer
<1>4. ReaderEnd'
  <2>1. ASSUME NEW o \in DOMAIN objects, reader.object = o, reader' = reader PROVE ReaderEnd'
    BY <1>1, <1>2, <2>1 DEF EndIsReal, Ended
  <2>2. CASE reader' = reader
    <3>1. CASE reader.at = "set"
      <4>1. reader.object \in DOMAIN objects
        BY <1>1, <3>1 DEF ReaderOK
      <4>. QED
        BY <2>1, <2>2, <4>1
    <3>2. CASE reader.at # "set"
      BY <2>2, <3>2
    <3>. QED
      BY <3>1, <3>2
  <2>3. CASE ReaderAddsFrame
    <3>1. PICK o \in DOMAIN objects, f \in ExchangeFrame :
            /\ o = reader.object /\ f = reader.frame
            /\ objects' = [objects EXCEPT ![o].received = Append(@, f)]
            /\ reader' = [at |-> "set", sender |-> reader.sender, object |-> o, frame |-> f,
                          state |-> objects[o].state]
      BY <1>1, <2>3 DEF ReaderAddsFrame, ReaderOK
    <3>2. objects \in Seq(StreamObject)
      BY DEF ExchangeInv, TypeOK
    <3>3. /\ Len(objects[o].received) \in Nat
          /\ DOMAIN objects'[o].received = 1 .. Len(objects[o].received) + 1
          /\ objects'[o].received[Len(objects[o].received) + 1] = f
      <4>1. objects' = [objects EXCEPT ![o].received = Append(@, f)]
        BY <3>1
      <4>. QED
        BY <3>2, <4>1, FrameAdded
    <3>4. Len(objects[o].received) + 1 \in DOMAIN objects'[o].received
      BY <3>3
    <3>5. Ends(f) => \E k \in DOMAIN objects'[o].received : Ends(objects'[o].received[k])
      BY <3>3, <3>4
    <3>6. EndOfStream(objects[o].state) =>
            \E k \in DOMAIN objects'[o].received : Ends(objects'[o].received[k])
      BY <1>1, <1>2, <3>1 DEF Ended
    <3>. QED
      BY <1>1, <3>1, <3>5, <3>6 DEF Ended
  <2>4. ASSUME NEW s \in Senders, ReceiveFrame(s) PROVE reader'.at = "get"
    BY <2>4 DEF ReceiveFrame
  <2>5. CASE ReaderGetsStream \/ ReaderSetsState \/ RaiseEvent
    BY <2>5 DEF ReaderGetsStream, ReaderSetsState, RaiseEvent
  <2>. QED
    BY <2>2, <2>3, <2>4, <2>5, ReaderStays DEF Next, Reader
<1>5. \A s \in Senders : /\ released'[s] => Started(s)' /\ Ended(own[s])'
                         /\ pc'[s] \in {"enumerate", "collect"} => released'[s]
  BY ReleasedStep
<1>. QED
  BY <1>3, <1>4, <1>5, ObjectsEnd DEF EndIsReal

LEMMA WholeResponseStep == ASSUME ExchangeInv, [Next]_vars PROVE WholeResponse'
<1>. SUFFICES ASSUME NEW s \in Senders, Returning(s)'
              PROVE  /\ Begins(collected'[s], s)
                     /\ \E k \in DOMAIN collected'[s] : Ends(collected'[s][k])
  BY DEF WholeResponse, Begins
<1>1. /\ pc \in [Senders -> Places] /\ collected \in [Senders -> Seq(ExchangeFrame)]
      /\ Returning(s) => /\ Begins(collected[s], s)
                         /\ \E k \in DOMAIN collected[s] : Ends(collected[s][k])
  BY DEF ExchangeInv, TypeOK, WholeResponse
<1>2. CASE Returning(s) /\ collected'[s] = collected[s]
  BY <1>1, <1>2
<1>3. CASE CollectResponse(s)
  <2>1. pc[s] = "collect" /\ pc'[s] \in {"cleanup", "failed"}
        /\ (pc'[s] = "cleanup" => collected'[s] = objects[own[s]].received)
    BY <1>1, <1>3 DEF CollectResponse
  <2>2. collected'[s] = objects[own[s]].received
    BY <2>1 DEF Returning
  <2>3. Started(s) /\ ~CleanedUp(s)
    BY <2>1 DEF Started, CleanedUp
  <2>4. Begins(objects[own[s]].received, s)
    BY <2>3 DEF ExchangeInv, Delivered
  <2>5. Ended(own[s])
    BY <2>1 DEF ExchangeInv, EndIsReal
  <2>. QED
    BY <2>2, <2>4, <2>5 DEF Ended
<1>4. CASE Cleanup(s) \/ QueueWindowUpdate(s)
  BY <1>1, <1>2, <1>4 DEF Cleanup, QueueWindowUpdate, Move, Returning
<1>5. CASE FreeUpWindowSpace(s)
  BY <1>1, <1>2, <1>5 DEF FreeUpWindowSpace, Returning
<1>6. CASE GetStream(s) \/ QueueFrame(s) \/ WaitReturns(s)
  BY <1>1, <1>6 DEF GetStream, QueueFrame, WaitReturns, Move, Returning
<1>7. CASE TimesOut(s) \/ Enumerate(s)
  BY <1>1, <1>7 DEF TimesOut, Enumerate, Move, Returning
<1>8. CASE pc'[s] = pc[s] /\ collected'[s] = collected[s]
  BY <1>2, <1>8 DEF Returning
<1>9. ASSUME NEW t \in Senders, Send(t), t # s
      PROVE  pc'[s] = pc[s] /\ collected'[s] = collected[s]
  BY <1>9, OtherSends
<1>10. CASE Writer \/ Reader \/ ConnectionLost \/ UNCHANGED vars
  <2>1. pc' = pc /\ collected' = collected
    BY <1>10, TaskSteps DEF senderVars
  <2>. QED
    BY <1>8, <2>1
<1>. QED
  BY <1>3, <1>4, <1>5, <1>6, <1>7, <1>8, <1>9, <1>10 DEF Next, Send

-----------------------------------------------------------------------------
(* The credit.  A step moves bytes between the counter, the hands of a     *)
(* Send and the queued increments, or adds to both sides what was read.    *)

HandOf(s) == IF pc[s] = "update" THEN amount[s] ELSE 0
ReadOf(s) == SumFunction([k \in 1 .. answered[s] |-> CountedBytes(Response[s][k])])

\* The sums are of naturals, and finite.
LEMMA CreditTypes ==
  ASSUME ExchangeInv
  PROVE  /\ IsFiniteSet(Senders)
         /\ [s \in Senders |-> HandOf(s)] \in [Senders -> Int]
         /\ \A s \in Senders : \A n \in 0 .. Len(Response[s]) :
              [k \in 1 .. n |-> CountedBytes(Response[s][k])] \in [1 .. n -> Int]
         /\ [s \in Senders |-> ReadOf(s)] \in [Senders -> Int]
         /\ BytesRead \in Int /\ BytesInHand \in Int /\ SumFunction(freed) \in Int
         /\ receivedDataCount \in Nat /\ freed \in Seq(Int)
<1>1. IsFiniteSet(Senders)
  BY SendersAssumption
<1>2. /\ amount \in [Senders -> Nat] /\ answered \in [Senders -> Nat]
      /\ receivedDataCount \in Nat /\ freed \in Seq(Nat)
      /\ \A s \in Senders : answered[s] <= Len(Response[s])
  BY DEF ExchangeInv, TypeOK
<1>3. [s \in Senders |-> HandOf(s)] \in [Senders -> Int]
  BY <1>2 DEF HandOf
<1>4. ASSUME NEW s \in Senders, NEW n \in 0 .. Len(Response[s])
      PROVE  [k \in 1 .. n |-> CountedBytes(Response[s][k])] \in [1 .. n -> Int]
  <2>1. Response[s] \in Seq(ExchangeFrame) /\ Len(Response[s]) \in Nat
    BY ExchangeAssumption, LenProperties
  <2>2. ASSUME NEW k \in 1 .. n
        PROVE  CountedBytes(Response[s][k]) \in Int
    <3>1. k \in 1 .. Len(Response[s])
      BY <2>1
    <3>2. Response[s][k] \in ExchangeFrame
      BY <2>1, <3>1
    <3>. QED
      BY <3>2 DEF CountedBytes, ExchangeFrame
  <2>. QED
    BY <2>2
<1>5. ASSUME NEW s \in Senders
      PROVE  ReadOf(s) \in Int
  <2>1. answered[s] \in Nat /\ answered[s] \in 0 .. Len(Response[s])
    BY <1>2, ExchangeAssumption, LenProperties
  <2>. DEFINE D == 1 .. answered[s]
              f == [k \in D |-> CountedBytes(Response[s][k])]
  <2>2. IsFiniteSet(D)
    BY <2>1, FS_Interval
  <2>3. f \in [D -> Int]
    BY <1>4, <2>1
  <2>4. SumFunctionOnSet(f, D) \in Int
    <3>. HIDE DEF f, D
    <3>. QED
      BY <2>2, <2>3, SumType
  <2>. QED
    BY <2>4, Zenon DEF ReadOf, SumFunction
<1>6. [s \in Senders |-> ReadOf(s)] \in [Senders -> Int]
  BY <1>5
<1>7. ASSUME NEW f \in [Senders -> Int]
      PROVE  SumFunction(f) \in Int
  <2>1. SumFunctionOnSet(f, Senders) \in Int /\ DOMAIN f = Senders
    BY <1>1, SumType
  <2>. QED
    BY <2>1, Zenon DEF SumFunction
<1>8. BytesRead \in Int /\ BytesInHand \in Int
  <2>1. BytesRead = SumFunction([s \in Senders |-> ReadOf(s)])
    BY Zenon DEF BytesRead, ReadOf
  <2>2. BytesInHand = SumFunction([s \in Senders |-> HandOf(s)])
    BY Zenon DEF BytesInHand, HandOf
  <2>. QED
    BY <1>3, <1>6, <1>7, <2>1, <2>2
<1>9. freed \in Seq(Int) /\ SumFunction(freed) \in Int
  <2>1. freed \in Seq(Int)
    BY <1>2
  <2>. QED
    BY <2>1, SumAppend
<1>. QED
  BY <1>1, <1>2, <1>3, <1>4, <1>6, <1>8, <1>9

\* A step of s changes what s has in hand, and nothing else of BytesInHand.
LEMMA HandStep ==
  ASSUME ExchangeInv, NEW s \in Senders,
         pc' = [pc EXCEPT ![s] = pc'[s]], amount' = [amount EXCEPT ![s] = amount'[s]],
         amount'[s] \in Nat
  PROVE  BytesInHand' = BytesInHand + (HandOf(s)' - HandOf(s))
<1>. DEFINE f == [t \in Senders |-> HandOf(t)]
            g == [t \in Senders |-> HandOf(t)']
<1>1. pc \in [Senders -> Places] /\ amount \in [Senders -> Nat]
  BY DEF ExchangeInv, TypeOK
<1>2. IsFiniteSet(Senders) /\ f \in [Senders -> Int]
  BY CreditTypes
<1>3. HandOf(s)' \in Int
  BY DEF HandOf
<1>4. \A t \in Senders : t # s => HandOf(t)' = HandOf(t)
  BY <1>1 DEF HandOf
<1>5. g \in [Senders -> Int] /\ f[s] = HandOf(s) /\ g[s] = HandOf(s)'
        /\ \A t \in Senders : t # s => g[t] = f[t]
  <2>1. \A t \in Senders : HandOf(t)' \in Int
    BY <1>1, <1>3 DEF HandOf
  <2>. QED
    BY <1>4, <2>1
<1>6. SumFunction(g) = SumFunction(f) + (HandOf(s)' - HandOf(s))
  <2>. HIDE DEF f, g
  <2>1. SumFunction(g) = SumFunction(f) + (g[s] - f[s])
    BY <1>2, <1>5, SumFunctionChange
  <2>. QED
    BY <1>5, <2>1, Zenon
<1>7. BytesInHand = SumFunction(f)
  BY Zenon DEF BytesInHand, HandOf
<1>8. BytesInHand' = SumFunction(g)
  BY Zenon DEF BytesInHand, HandOf
<1>. QED
  BY <1>6, <1>7, <1>8, Zenon

\* Reading a frame adds its bytes to BytesRead.
LEMMA ReadStep ==
  ASSUME ExchangeInv, NEW s \in Senders, answered[s] < Len(Response[s]),
         answered' = [answered EXCEPT ![s] = @ + 1]
  PROVE  /\ BytesRead' = BytesRead + CountedBytes(Response[s][answered[s] + 1])
         /\ CountedBytes(Response[s][answered[s] + 1]) \in Int
<1>. DEFINE f == [t \in Senders |-> ReadOf(t)]
            g == [t \in Senders |-> ReadOf(t)']
            n == answered[s]
            x == CountedBytes(Response[s][n + 1])
            upTo(m) == [k \in 1 .. m |-> CountedBytes(Response[s][k])]
<1>1. answered \in [Senders -> Nat] /\ n \in Nat /\ Len(Response[s]) \in Nat
  BY LenProperties, ExchangeAssumption DEF ExchangeInv, TypeOK
<1>2. IsFiniteSet(Senders) /\ f \in [Senders -> Int]
  BY CreditTypes
<1>3. upTo(n) \in [1 .. n -> Int] /\ upTo(n + 1) \in [1 .. n + 1 -> Int]
  <2>1. n \in 0 .. Len(Response[s]) /\ n + 1 \in 0 .. Len(Response[s])
    BY <1>1
  <2>. QED
    BY <2>1, CreditTypes
<1>4. upTo(n + 1)[n + 1] = x /\ x \in Int /\ \A k \in 1 .. n : upTo(n + 1)[k] = upTo(n)[k]
  <2>1. n + 1 \in 1 .. n + 1 /\ \A k \in 1 .. n : k \in 1 .. n + 1
    BY <1>1
  <2>. QED
    BY <1>3, <2>1
<1>5. SumFunction(upTo(n + 1)) = SumFunction(upTo(n)) + x /\ SumFunction(upTo(n)) \in Int
  <2>. HIDE DEF upTo, n, x
  <2>. QED
    BY <1>1, <1>3, <1>4, SumOneMore
<1>6. ReadOf(s) = SumFunction(upTo(n))
  BY Zenon DEF ReadOf
<1>7. ReadOf(s)' = SumFunction(upTo(n + 1))
  <2>1. answered'[s] = n + 1
    BY <1>1
  <2>. QED
    BY <2>1, Zenon DEF ReadOf
<1>8. \A t \in Senders : t # s => ReadOf(t)' = ReadOf(t)
  BY <1>1 DEF ReadOf
<1>9. g \in [Senders -> Int] /\ f[s] = ReadOf(s) /\ g[s] = ReadOf(s)'
        /\ \A t \in Senders : t # s => g[t] = f[t]
  <2>1. ReadOf(s)' \in Int
    <3>. HIDE DEF upTo, n, x
    <3>. QED
      BY <1>4, <1>5, <1>7
  <2>2. \A t \in Senders : ReadOf(t)' \in Int
    BY <1>2, <1>8, <2>1
  <2>. QED
    BY <1>8, <2>2
<1>10. SumFunction(g) = SumFunction(f) + (ReadOf(s)' - ReadOf(s)) /\ SumFunction(f) \in Int
  <2>. HIDE DEF f, g
  <2>1. SumFunction(g) = SumFunction(f) + (g[s] - f[s]) /\ SumFunction(f) \in Int
    BY <1>2, <1>9, SumFunctionChange
  <2>. QED
    BY <1>9, <2>1, Zenon
<1>11. BytesRead = SumFunction(f)
  BY Zenon DEF BytesRead, ReadOf
<1>12. BytesRead' = SumFunction(g)
  BY Zenon DEF BytesRead, ReadOf
<1>. HIDE DEF f, g, upTo, n
<1>13. BytesRead' = BytesRead + x
  BY <1>4, <1>5, <1>6, <1>7, <1>10, <1>11, <1>12
<1>. QED
  BY <1>4, <1>13 DEF n

LEMMA SameBytes ==
  /\ UNCHANGED answered => BytesRead' = BytesRead
  /\ UNCHANGED <<pc, amount>> => BytesInHand' = BytesInHand
BY DEF BytesRead, BytesInHand

\* The steps of a Send: two of them move bytes, from the counter into its hands
\* and from there into an increment.
LEMMA SendCredit ==
  ASSUME ExchangeInv, CreditConserved, NEW s \in Senders, Send(s)
  PROVE  CreditConserved'
<1>0. /\ pc \in [Senders -> Places] /\ amount \in [Senders -> Nat]
      /\ receivedDataCount \in Nat /\ freed \in Seq(Int) /\ SumFunction(freed) \in Int
      /\ BytesRead \in Int /\ BytesInHand \in Int
  BY CreditTypes DEF ExchangeInv, TypeOK
<1>1. BytesRead' = BytesRead
  BY ReaderStays, SameBytes
<1>2. CASE FreeUpWindowSpace(s)
  <2>1. /\ pc[s] = "free" /\ receivedDataCount' = 0 /\ freed' = freed
        /\ amount' = [amount EXCEPT ![s] = receivedDataCount]
        /\ pc' = [pc EXCEPT ![s] = IF receivedDataCount = 0 THEN "done" ELSE "update"]
    BY <1>0, <1>2 DEF FreeUpWindowSpace
  <2>2. /\ pc' = [pc EXCEPT ![s] = pc'[s]] /\ amount' = [amount EXCEPT ![s] = amount'[s]]
        /\ amount'[s] = receivedDataCount
        /\ pc'[s] = IF receivedDataCount = 0 THEN "done" ELSE "update"
    BY <1>0, <2>1
  <2>3. HandOf(s) = 0 /\ HandOf(s)' = receivedDataCount
    BY <2>1, <2>2 DEF HandOf
  <2>4. BytesInHand' = BytesInHand + (HandOf(s)' - HandOf(s))
    BY <1>0, <2>2, HandStep
  <2>5. BytesInHand' = BytesInHand + receivedDataCount
    BY <1>0, <2>3, <2>4
  <2>6. BytesRead' = SumFunction(freed)' + BytesInHand' + receivedDataCount'
    BY <1>0, <1>1, <2>1, <2>5 DEF CreditConserved
  <2>7. \A k \in DOMAIN freed' : freed'[k] > 0
    BY <2>1 DEF CreditConserved
  <2>8. \A t \in Senders : pc'[t] = "update" => amount'[t] > 0
    BY <1>0, <2>1, <2>2 DEF CreditConserved
  <2>. QED
    BY <2>6, <2>7, <2>8 DEF CreditConserved
<1>3. CASE QueueWindowUpdate(s)
  <2>1. /\ pc[s] = "update" /\ pc' = [pc EXCEPT ![s] = "done"] /\ amount' = amount
        /\ freed' = Append(freed, amount[s]) /\ receivedDataCount' = receivedDataCount
    BY <1>3 DEF QueueWindowUpdate, Move
  <2>2. /\ pc' = [pc EXCEPT ![s] = pc'[s]] /\ amount' = [amount EXCEPT ![s] = amount'[s]]
        /\ pc'[s] = "done" /\ amount'[s] \in Nat
    BY <1>0, <2>1
  <2>3. HandOf(s) = amount[s] /\ HandOf(s)' = 0
    BY <2>1, <2>2 DEF HandOf
  <2>4. BytesInHand' = BytesInHand + (HandOf(s)' - HandOf(s))
    BY <1>0, <2>2, HandStep
  <2>5. amount[s] \in Int /\ amount[s] > 0
    BY <1>0, <2>1 DEF CreditConserved
  <2>6. SumFunction(freed)' = SumFunction(freed) + amount[s]
    <3>1. SumFunction(Append(freed, amount[s])) = SumFunction(freed) + amount[s]
      BY <1>0, <2>5, SumAppend
    <3>. QED
      BY <2>1, <3>1, Zenon
  <2>7. BytesRead' = SumFunction(freed)' + BytesInHand' + receivedDataCount'
    <3>1. receivedDataCount' = receivedDataCount
      BY <2>1
    <3>2. BytesInHand' = BytesInHand - amount[s]
      BY <1>0, <2>3, <2>4, <2>5
    <3>3. BytesRead = SumFunction(freed) + BytesInHand + receivedDataCount
      BY DEF CreditConserved
    <3>. QED
      BY <1>0, <1>1, <2>5, <2>6, <3>1, <3>2, <3>3
  <2>8. \A k \in DOMAIN freed' : freed'[k] > 0
    <3>1. /\ freed \in Seq(Int) /\ amount[s] \in Int /\ amount[s] > 0
          /\ freed' = Append(freed, amount[s])
      BY <1>0, <2>1, <2>5
    <3>2. \A k \in DOMAIN freed' : \/ k \in DOMAIN freed /\ freed'[k] = freed[k]
                                  \/ freed'[k] = amount[s]
      BY <3>1
    <3>. QED
      BY <2>5, <3>2 DEF CreditConserved
  <2>9. \A t \in Senders : pc'[t] = "update" => amount'[t] > 0
    BY <1>0, <2>1, <2>2 DEF CreditConserved
  <2>. QED
    BY <2>7, <2>8, <2>9 DEF CreditConserved
<1>4. CASE ~FreeUpWindowSpace(s) /\ ~QueueWindowUpdate(s)
  <2>1. /\ pc[s] # "update" /\ pc'[s] # "update" /\ UNCHANGED creditVars
        /\ pc' = [pc EXCEPT ![s] = pc'[s]] /\ amount' = [amount EXCEPT ![s] = amount'[s]]
        /\ amount'[s] \in Nat
    <3>1. CASE GetStream(s) \/ WaitReturns(s) \/ TimesOut(s)
      BY <1>0, <3>1 DEF GetStream, WaitReturns, TimesOut, Move
    <3>2. CASE QueueFrame(s)
      BY <1>0, <3>2 DEF QueueFrame
    <3>3. CASE Enumerate(s)
      <4>1. own[s] \in DOMAIN objects /\ objects \in Seq(StreamObject)
        BY <3>3 DEF Enumerate, Move, ExchangeInv, OwnStream, TypeOK, Started
      <4>2. objects[own[s]] \in StreamObject
        BY <4>1
      <4>3. Len(objects[own[s]].received) \in Nat
        BY <4>2 DEF StreamObject
      <4>. QED
        BY <1>0, <3>3, <4>3 DEF Enumerate, Move
    <3>4. CASE CollectResponse(s)
      BY <1>0, <3>4 DEF CollectResponse
    <3>5. CASE Cleanup(s)
      BY <1>0, <3>5 DEF Cleanup, Move
    <3>. QED
      BY <1>4, <3>1, <3>2, <3>3, <3>4, <3>5 DEF Send
  <2>2. HandOf(s) = 0 /\ HandOf(s)' = 0
    BY <2>1 DEF HandOf
  <2>3. BytesInHand' = BytesInHand
    <3>1. BytesInHand' = BytesInHand + (HandOf(s)' - HandOf(s))
      BY <2>1, HandStep
    <3>. QED
      BY <1>0, <2>2, <3>1
  <2>4. receivedDataCount' = receivedDataCount /\ freed' = freed
    BY <2>1 DEF creditVars
  <2>5. \A t \in Senders : pc'[t] = "update" => amount'[t] > 0
    <3>1. \A t \in Senders : t # s => pc'[t] = pc[t] /\ amount'[t] = amount[t]
      BY <1>0, <2>1
    <3>. QED
      BY <2>1, <3>1 DEF CreditConserved
  <2>6. BytesRead' = SumFunction(freed)' + BytesInHand' + receivedDataCount'
    BY <1>1, <2>3, <2>4 DEF CreditConserved
  <2>. QED
    BY <2>4, <2>5, <2>6 DEF CreditConserved
<1>. QED
  BY <1>2, <1>3, <1>4

\* The other tasks leave the credit alone, but for the frame that is read.
LEMMA TaskCredit ==
  ASSUME ExchangeInv, CreditConserved,
         Writer \/ Reader \/ ConnectionLost \/ UNCHANGED vars
  PROVE  CreditConserved'
<1>1. UNCHANGED <<pc, amount>> /\ BytesInHand' = BytesInHand
  BY TaskSteps, SameBytes DEF senderVars
<1>2. ASSUME NEW s \in Senders, ReceiveFrame(s)
      PROVE  CreditConserved'
  <2>1. answered \in [Senders -> Nat]
    BY DEF ExchangeInv, TypeOK
  <2>2. /\ answered[s] < Len(Response[s]) /\ answered' = [answered EXCEPT ![s] = @ + 1]
        /\ receivedDataCount' = receivedDataCount + CountedBytes(Response[s][answered[s] + 1])
        /\ freed' = freed
    BY <1>2, <2>1 DEF ReceiveFrame
  <2>3. /\ BytesRead' = BytesRead + CountedBytes(Response[s][answered[s] + 1])
        /\ CountedBytes(Response[s][answered[s] + 1]) \in Int
    BY <2>2, ReadStep
  <2>4. BytesRead' = SumFunction(freed)' + BytesInHand' + receivedDataCount'
    BY <1>1, <2>2, <2>3, CreditTypes DEF CreditConserved
  <2>. QED
    BY <1>1, <2>2, <2>4 DEF CreditConserved
<1>3. CASE UNCHANGED <<answered, creditVars>>
  BY <1>1, <1>3, SameBytes DEF CreditConserved, creditVars
<1>4. CASE Writer
  BY <1>3, <1>4 DEF Writer, WriteFrame, WriterGetsStream, WriterReadsState, WriterSetsState,
                    WriterFaults
<1>5. CASE Reader
  BY <1>2, <1>3, <1>5 DEF Reader, ReaderGetsStream, ReaderAddsFrame, ReaderSetsState,
                          RaiseEvent
<1>6. CASE ConnectionLost \/ UNCHANGED vars
  BY <1>3, <1>6 DEF ConnectionLost, vars, taskVars
<1>. QED
  BY <1>4, <1>5, <1>6

LEMMA CreditInitially == Init => CreditConserved
<1>. SUFFICES ASSUME Init PROVE CreditConserved
  OBVIOUS
<1>1. IsFiniteSet(Senders)
  BY SendersAssumption
<1>2. /\ freed = <<>> /\ receivedDataCount = 0
      /\ \A s \in Senders : HandOf(s) = 0 /\ answered[s] = 0
  BY DEF Init, HandOf
<1>3. SumFunction(<<>>) = 0
  <2>1. DOMAIN <<>> = {}
    OBVIOUS
  <2>. QED
    BY <2>1, SumEmpty, Zenon DEF SumFunction
<1>4. \A s \in Senders : ReadOf(s) = 0
  <2>. SUFFICES ASSUME NEW s \in Senders PROVE ReadOf(s) = 0
    OBVIOUS
  <2>. DEFINE f == [k \in 1 .. answered[s] |-> CountedBytes(Response[s][k])]
  <2>1. DOMAIN f = {}
    BY <1>2
  <2>2. SumFunction(f) = 0
    <3>. HIDE DEF f
    <3>. QED
      BY <2>1, SumEmpty, Zenon DEF SumFunction
  <2>. QED
    BY <2>2, Zenon DEF ReadOf
<1>5. ASSUME NEW f \in [Senders -> {0}]
      PROVE  SumFunction(f) = 0
  <2>1. SumFunctionOnSet(f, Senders) = 0 /\ DOMAIN f = Senders
    BY <1>1, SumZero
  <2>. QED
    BY <2>1, Zenon DEF SumFunction
<1>6. BytesRead = 0
  <2>1. [s \in Senders |-> ReadOf(s)] \in [Senders -> {0}]
    BY <1>4
  <2>2. BytesRead = SumFunction([s \in Senders |-> ReadOf(s)])
    BY Zenon DEF BytesRead, ReadOf
  <2>. QED
    BY <1>5, <2>1, <2>2
<1>7. BytesInHand = 0
  <2>1. [s \in Senders |-> HandOf(s)] \in [Senders -> {0}]
    BY <1>2
  <2>2. BytesInHand = SumFunction([s \in Senders |-> HandOf(s)])
    BY Zenon DEF BytesInHand, HandOf
  <2>. QED
    BY <1>5, <2>1, <2>2
<1>8. \A s \in Senders : pc[s] # "update"
  BY DEF Init
<1>. QED
  BY <1>2, <1>3, <1>6, <1>7, <1>8 DEF CreditConserved

-----------------------------------------------------------------------------
(* The theorems.                                                           *)

LEMMA Initially == Init => ExchangeInv
<1>. SUFFICES ASSUME Init PROVE ExchangeInv
  OBVIOUS
<1>1. \A s \in Senders : Len(Request[s]) \in Nat /\ Len(Response[s]) \in Nat
  BY LenProperties, ExchangeAssumption
<1>2. \A s \in Senders : Len(Request[s]) > 0 /\ 0 <= Len(Response[s])
  BY <1>1, ExchangeAssumption
<1>3. objects = <<>> /\ DOMAIN objects = {} /\ objects \in Seq(StreamObject)
      /\ DOMAIN streams = {} /\ freed \in Seq(Nat) /\ <<>> \in Seq(ExchangeFrame)
  BY DEF Init
<1>4. TypeOK
  <2>1. /\ pc \in [Senders -> Places] /\ own \in [Senders -> Nat]
        /\ queued \in [Senders -> Nat] /\ released \in [Senders -> BOOLEAN]
        /\ collected \in [Senders -> Seq(ExchangeFrame)] /\ amount \in [Senders -> Nat]
        /\ written \in [Senders -> Nat] /\ answered \in [Senders -> Nat]
    BY <1>3 DEF Init, Places, NoObject
  <2>2. nextStreamId \in Nat /\ nextStreamId % 2 = 1 /\ receivedDataCount \in Nat
        /\ connected \in BOOLEAN
    BY DEF Init
  <2>3. \A s \in Senders : /\ written[s] <= queued[s] /\ queued[s] <= Len(Request[s])
                           /\ pc[s] \in {"start", "queue"} => queued[s] < Len(Request[s])
                           /\ answered[s] <= Len(Response[s])
    BY <1>1, <1>2 DEF Init
  <2>. QED
    BY <1>3, <2>1, <2>2, <2>3 DEF TypeOK
<1>5. WriterOK /\ ReaderOK /\ RightStream
  BY DEF Init, WriterOK, ReaderOK, RightStream
<1>6. OwnStream /\ Delivered /\ WholeResponse
  BY DEF Init, OwnStream, Delivered, WholeResponse, Started, Returning, NoObject
<1>7. EndIsReal
  BY <1>3 DEF Init, EndIsReal
<1>. QED
  BY <1>4, <1>5, <1>6, <1>7 DEF ExchangeInv

\* ExchangeInv is inductive, for every number of Sends and every request and
\* response.
THEOREM ExchangeInvariant == Spec => []ExchangeInv
<1>1. ExchangeInv /\ [Next]_vars => ExchangeInv'
  BY TypeStep, WriterStep, ReaderStep, OwnStreamStep, RightStreamStep, DeliveredStep,
     EndIsRealStep, WholeResponseStep DEF ExchangeInv
<1>. QED
  BY Initially, <1>1, PTL DEF Spec

\* The types, the parity of the identifiers and the dictionary's entries.
THEOREM ExchangeTypes == Spec => []TypeOK
<1>1. ExchangeInv => TypeOK
  BY DEF ExchangeInv
<1>. QED
  BY <1>1, ExchangeInvariant, PTL

\* Every frame the server sent on a stream that is in use reaches the object
\* of the Send that opened it, in order.
THEOREM FramesDelivered == Spec => []Delivered
<1>1. ExchangeInv => Delivered
  BY DEF ExchangeInv
<1>. QED
  BY <1>1, ExchangeInvariant, PTL

\* Every byte of DATA the Read task counted is in one queued WINDOW_UPDATE, in
\* the hands of one Send or still in the counter, and no WINDOW_UPDATE is empty,
\* for every finite number of Sends.
THEOREM CreditGivenBack == Spec => []CreditConserved
<1>1. ExchangeInv /\ CreditConserved /\ [Next]_vars => CreditConserved'
  BY SendCredit, TaskCredit DEF Next
<1>. QED
  BY <1>1, CreditInitially, ExchangeInvariant, PTL DEF Spec

\* A Send that returns has its whole response, and nothing of another's.
THEOREM ResponsesWhole == Spec => []WholeResponse
<1>1. ExchangeInv => WholeResponse
  BY DEF ExchangeInv
<1>. QED
  BY <1>1, ExchangeInvariant, PTL
=============================================================================
