-------------------------- MODULE FrameQueueProofs --------------------------
(***************************************************************************)
(* Proofs about the send path, for any number of producers, scripts, Write *)
(* tasks and WINDOW_UPDATE frames, and any width of the windows.           *)
(*                                                                         *)
(* The argument: a uint difference is never negative, so no DATA frame is  *)
(* skipped, so the head of a list never is, and Dequeue returns the head   *)
(* of the most urgent list that is not empty.  The lists are thus first-in *)
(* first-out, and a request, whose frames get no more urgent as it goes    *)
(* on, leaves in order.                                                    *)
(***************************************************************************)
EXTENDS FrameQueue, TLAPS, SequenceTheorems, FiniteSetTheorems

-----------------------------------------------------------------------------
(* Facts about the operators.                                              *)

\* A frame the scripts contain has one of the four priorities.
LEMMA PriorityType ==
  ASSUME NEW f \in Frame
  PROVE  /\ f[1] \in Producers
         /\ f[2] \in 1 .. Len(Script[f[1]])
         /\ f = <<f[1], f[2]>>
         /\ Script[f[1]][f[2]] \in FrameRecord
         /\ PriorityOf(f) \in PRIORITIES
<1>1. PICK p \in Producers : f \in {p} \X (1 .. Len(Script[p]))
  BY DEF Frame
<1>2. f[1] = p /\ f[2] \in 1 .. Len(Script[p]) /\ f = <<f[1], f[2]>>
  BY <1>1
<1>3. Script[p] \in Seq(FrameRecord)
  BY ScriptAssumption
<1>4. Script[p][f[2]] \in FrameRecord
  BY <1>2, <1>3
<1>5. TypeOf(f) \in FrameTypes
  BY <1>2, <1>4 DEF TypeOf, FrameRecord
<1>6. GetPriority(TypeOf(f)) \in PRIORITIES
  BY <1>5 DEF GetPriority, FrameTypes, PRIORITIES
<1>. QED
  BY <1>2, <1>4, <1>6 DEF PriorityOf

\* A producer has enqueued a prefix of its script.
LEMMA NextBounds ==
  ASSUME QueueInv, NEW p \in Producers
  PROVE  Len(Script[p]) \in Nat /\ next[p] \in 1 .. Len(Script[p]) + 1
<1>1. Script[p] \in Seq(FrameRecord)
  BY ScriptAssumption
<1>2. Len(Script[p]) \in Nat
  BY <1>1, LenProperties
<1>3. next[p] \in 1 .. Len(Script[p]) + 1
  BY DEF QueueInv, TypeOK
<1>. QED
  BY <1>2, <1>3

\* Arithmetic of windows stays within a uint.
LEMMA UIntType ==
  ASSUME NEW a \in Int, NEW b \in Int
  PROVE  USub(a, b) \in UInt /\ UAdd(a, b) \in UInt
BY FlowControlAssumption DEF USub, UAdd, UInt

LEMMA AddWindowType ==
  ASSUME NEW windows, windows \in [DOMAIN windows -> UInt], NEW id
  PROVE  /\ AddWindow(windows, id) \in [DOMAIN windows \union {id} -> UInt]
         /\ DOMAIN AddWindow(windows, id) = DOMAIN windows \union {id}
         /\ GetWindowSize(windows, id) \in UInt
BY FlowControlAssumption DEF AddWindow, GetWindowSize, UInt

\* No DATA frame is ever found too large for a window.
LEMMA NeverTooSmall ==
  ASSUME NEW windows, windows \in [DOMAIN windows -> UInt],
         NEW id \in Nat, NEW length \in UInt
  PROVE  ~WindowTooSmall(windows, id, length)
<1>1. GetWindowSize(windows, 0) \in UInt /\ GetWindowSize(windows, id) \in UInt
  BY AddWindowType
<1>2. \A u \in UInt : u \in Int /\ ~(u < 0)
  BY FlowControlAssumption DEF UInt
<1>. QED
  BY <1>1, <1>2, UIntType DEF WindowTooSmall

\* Taking out the head is taking the tail.
LEMMA RemoveHead ==
  ASSUME NEW S, NEW s \in Seq(S), s # <<>>
  PROVE  RemoveFirst(s, Head(s)) = Tail(s)
<1>. DEFINE I == {i \in 1 .. Len(s) : s[i] = Head(s)}
<1>1. Len(s) \in Nat /\ Len(s) > 0 /\ Head(s) = s[1]
  OBVIOUS
<1>2. 1 \in I /\ \A i \in I : 1 <= i
  BY <1>1
<1>3. \A x \in I : (\A y \in I : x <= y) => x = 1
  BY <1>1, <1>2
<1>4. (CHOOSE x \in I : \A y \in I : x <= y) = 1
  BY <1>2, <1>3
<1>5. SelectInSeq(s, LAMBDA v : v = Head(s)) = 1
  BY <1>2, <1>4 DEF SelectInSeq, Min
<1>6. RemoveAt(s, 1) = Tail(s)
  BY <1>1 DEF RemoveAt
<1>. QED
  BY <1>1, <1>2, <1>5, <1>6 DEF RemoveFirst

-----------------------------------------------------------------------------
(* Dequeue takes the head of the most urgent list that is not empty.       *)

\* The first frame of a list is never skipped.
LEMMA HeadIsSendable ==
  ASSUME TypeOK, NEW c \in PRIORITIES, frameQueues[c] # <<>>
  PROVE  1 \in Sendable(c)
<1>1. frameQueues[c] \in Seq(Frame) /\ Len(frameQueues[c]) \in Nat \ {0}
  BY EmptySeq DEF TypeOK
<1>2. frameQueues[c][1] \in Frame
  BY <1>1
<1>3. StreamOf(frameQueues[c][1]) \in Nat /\ LengthOf(frameQueues[c][1]) \in UInt
  BY <1>2, PriorityType DEF StreamOf, LengthOf, FrameRecord
<1>4. ~WindowTooSmall(windowSizes, StreamOf(frameQueues[c][1]),
                      LengthOf(frameQueues[c][1]))
  BY <1>3, NeverTooSmall DEF TypeOK
<1>5. ~Skipped(frameQueues[c], 1)
  BY <1>4 DEF Skipped
<1>. QED
  BY <1>1, <1>5 DEF Sendable

LEMMA ResultIsHead ==
  ASSUME TypeOK, NEW c \in PRIORITIES, NEW i \in Sendable(c), IsResult(c, i)
  PROVE  /\ i = 1
         /\ frameQueues[c] # <<>>
         /\ frameQueues[c][i] = Head(frameQueues[c])
         /\ frameQueues[c][i] \in Frame
         /\ \A d \in PRIORITIES : d < c => frameQueues[d] = <<>>
<1>1. frameQueues[c] \in Seq(Frame) /\ i \in 1 .. Len(frameQueues[c])
  BY DEF TypeOK, Sendable
<1>2. frameQueues[c] # <<>>
  BY <1>1
<1>3. i = 1
  BY <1>1, <1>2, HeadIsSendable DEF IsResult
<1>4. \A d \in PRIORITIES : d < c => frameQueues[d] = <<>>
  BY HeadIsSendable DEF IsResult
<1>. QED
  BY <1>1, <1>2, <1>3, <1>4

-----------------------------------------------------------------------------
(* The inductive invariant.                                                *)

LEMMA InitQueueInv == Init => QueueInv
<1>. SUFFICES ASSUME Init PROVE QueueInv
  OBVIOUS
<1>1. TypeOK
  <2>1. /\ frameQueues \in [PRIORITIES -> Seq(Frame)]
        /\ taken \in Seq(Frame) /\ wire \in Seq(Frame)
    BY DEF Init
  <2>2. next \in [Producers -> Nat] /\ \A p \in Producers : next[p] \in 1 .. Len(Script[p]) + 1
    BY ScriptAssumption DEF Init
  <2>3. windowSizes \in [DOMAIN windowSizes -> UInt] /\ DOMAIN windowSizes \subseteq Nat
    BY FlowControlAssumption DEF Init, UInt, ConnectionId
  <2>4. /\ reader \in [at : {"idle", "add", "increase", "signal", "crashed"},
                      done : 0 .. Len(Updates), current : UInt]
        /\ reader.at = "idle"
    BY ScriptAssumption, FlowControlAssumption DEF Init, UInt
  <2>5. pc \in [Writers -> Places] /\ hand \in [Writers -> Frame \union {NoFrame}]
          /\ local \in [Writers -> Nat]
    BY DEF Init, Places
  <2>6. delivered \in [Producers -> Seq(Nat)]
    BY DEF Init
  <2>. QED
    BY <2>1, <2>2, <2>3, <2>4, <2>5, <2>6 DEF Init, TypeOK
<1>2. LockHeld /\ HandIsHead
  BY DEF Init, LockHeld, HandIsHead
<1>3. InItsList /\ TakenIsGone /\ TakenOnce /\ NothingLost /\ LaterIsBehind /\ RequestOrder
  BY DEF Init, InItsList, TakenIsGone, TakenOnce, NothingLost, LaterIsBehind, RequestOrder
<1>. QED
  BY <1>1, <1>2, <1>3 DEF QueueInv

\* Steps that leave the lists and their histories alone.
LEMMA QuietStep ==
  ASSUME QueueInv, UNCHANGED <<frameQueues, next, taken>>
  PROVE  InItsList' /\ TakenIsGone' /\ NothingLost' /\ LaterIsBehind' /\ RequestOrder'
<1>1. InItsList'
  BY DEF QueueInv, InItsList
<1>2. TakenIsGone'
  BY DEF QueueInv, TakenIsGone
<1>3. LaterIsBehind'
  BY ZenonT(60) DEF QueueInv, LaterIsBehind
<1>4. RequestOrder'
  BY DEF QueueInv, RequestOrder
<1>5. NothingLost'
  BY DEF QueueInv, NothingLost
<1>. QED
  BY <1>1, <1>2, <1>3, <1>4, <1>5

LEMMA UIntIsNat == UInt \subseteq Nat
BY FlowControlAssumption DEF UInt

\* Removing the frame Dequeue found.
LEMMA RemovedList ==
  ASSUME QueueInv, NEW w \in Writers, RemoveFrame(w)
  PROVE  /\ hand[w] \in Frame
         /\ PriorityOf(hand[w]) \in PRIORITIES
         /\ frameQueues[PriorityOf(hand[w])] \in Seq(Frame)
         /\ frameQueues[PriorityOf(hand[w])] # <<>>
         /\ hand[w] = Head(frameQueues[PriorityOf(hand[w])])
         /\ \A d \in PRIORITIES : d < PriorityOf(hand[w]) => frameQueues[d] = <<>>
         /\ frameQueues' = [frameQueues EXCEPT ![PriorityOf(hand[w])] = Tail(@)]
<1>1. pc[w] = "remove"
  BY DEF RemoveFrame, At
<1>2. hand[w] \in Frame /\ PriorityOf(hand[w]) \in PRIORITIES
  BY <1>1, PriorityType DEF QueueInv, HandIsHead
<1>3. frameQueues[PriorityOf(hand[w])] \in Seq(Frame)
  BY <1>2 DEF QueueInv, TypeOK
<1>4. /\ frameQueues[PriorityOf(hand[w])] # <<>>
      /\ hand[w] = Head(frameQueues[PriorityOf(hand[w])])
      /\ \A d \in PRIORITIES : d < PriorityOf(hand[w]) => frameQueues[d] = <<>>
  BY <1>1 DEF QueueInv, HandIsHead
<1>5. RemoveFirst(frameQueues[PriorityOf(hand[w])], hand[w])
        = Tail(frameQueues[PriorityOf(hand[w])])
  BY <1>3, <1>4, RemoveHead
<1>. QED
  BY <1>2, <1>3, <1>4, <1>5 DEF RemoveFrame

\* The types of the lists, of the producers and of what was taken.
LEMMA QueueTypeStep ==
  ASSUME QueueInv, Next
  PROVE  /\ frameQueues' \in [PRIORITIES -> Seq(Frame)]
         /\ next' \in [Producers -> Nat]
         /\ \A p \in Producers : next'[p] \in 1 .. Len(Script[p]) + 1
         /\ taken' \in Seq(Frame) /\ delivered' \in [Producers -> Seq(Nat)]
<1>. USE DEF QueueInv
<1>1. ASSUME NEW p \in Producers, Enqueue(p)
      PROVE  /\ frameQueues' \in [PRIORITIES -> Seq(Frame)]
             /\ next' \in [Producers -> Nat]
             /\ \A q \in Producers : next'[q] \in 1 .. Len(Script[q]) + 1
             /\ taken' \in Seq(Frame) /\ delivered' \in [Producers -> Seq(Nat)]
  <2>1. Len(Script[p]) \in Nat
    BY ScriptAssumption
  <2>2. next[p] \in 1 .. Len(Script[p])
    BY <1>1, <2>1 DEF Enqueue, TypeOK
  <2>3. <<p, next[p]>> \in Frame
    BY <2>2 DEF Frame
  <2>4. PriorityOf(<<p, next[p]>>) \in PRIORITIES
    BY <2>3, PriorityType
  <2>5. frameQueues' \in [PRIORITIES -> Seq(Frame)]
    <3>1. frameQueues \in [PRIORITIES -> Seq(Frame)]
      BY DEF TypeOK
    <3>2. Append(frameQueues[PriorityOf(<<p, next[p]>>)], <<p, next[p]>>) \in Seq(Frame)
      BY <3>1, <2>3, <2>4, AppendProperties
    <3>3. frameQueues' = [frameQueues EXCEPT ![PriorityOf(<<p, next[p]>>)] =
                            Append(frameQueues[PriorityOf(<<p, next[p]>>)], <<p, next[p]>>)]
      BY <1>1 DEF Enqueue
    <3>. QED
      BY <3>1, <3>2, <3>3, <2>4
  <2>6. next' = [next EXCEPT ![p] = @ + 1] /\ taken' = taken /\ delivered' = delivered
    BY <1>1 DEF Enqueue
  <2>7. \A q \in Producers : next'[q] \in 1 .. Len(Script[q]) + 1
    BY SMTT(40), <2>1, <2>2, <2>6 DEF TypeOK
  <2>. QED
    BY <2>2, <2>5, <2>6, <2>7 DEF TypeOK
<1>2. ASSUME NEW w \in Writers, RemoveFrame(w)
      PROVE  /\ frameQueues' \in [PRIORITIES -> Seq(Frame)]
             /\ taken' \in Seq(Frame) /\ delivered' \in [Producers -> Seq(Nat)]
  <2>1. Tail(frameQueues[PriorityOf(hand[w])]) \in Seq(Frame)
    BY <1>2, RemovedList, HeadTailProperties
  <2>2. frameQueues' \in [PRIORITIES -> Seq(Frame)]
    <3>1. frameQueues \in [PRIORITIES -> Seq(Frame)]
      BY DEF TypeOK
    <3>2. frameQueues' = [frameQueues EXCEPT ![PriorityOf(hand[w])] =
                            Tail(frameQueues[PriorityOf(hand[w])])]
      BY <1>2, RemovedList
    <3>3. PriorityOf(hand[w]) \in PRIORITIES
      BY <1>2, RemovedList
    <3>. QED
      BY <2>1, <3>1, <3>2, <3>3
  <2>3. taken' = Append(taken, hand[w])
    BY <1>2 DEF RemoveFrame
  <2>4. hand[w][1] \in Producers /\ hand[w][2] \in Nat
    <3>1. hand[w] \in Frame
      BY <1>2, RemovedList
    <3>2. hand[w][1] \in Producers /\ hand[w][2] \in 1 .. Len(Script[hand[w][1]])
      BY <3>1, PriorityType
    <3>. QED
      BY <3>2
  <2>5. delivered' = [delivered EXCEPT ![hand[w][1]] = Append(@, hand[w][2])]
    BY <1>2 DEF RemoveFrame
  <2>6. delivered' \in [Producers -> Seq(Nat)]
    <3>1. delivered \in [Producers -> Seq(Nat)]
      BY DEF TypeOK
    <3>2. Append(delivered[hand[w][1]], hand[w][2]) \in Seq(Nat)
      BY <2>4, <3>1, AppendProperties
    <3>. QED
      BY <2>4, <2>5, <3>1, <3>2
  <2>. QED
    BY <1>2, <2>2, <2>3, <2>6, RemovedList DEF TypeOK
<1>3. ASSUME NEW w \in Writers, RemoveFrame(w)
      PROVE  next' = next
  BY <1>3 DEF RemoveFrame
<1>4. CASE UNCHANGED <<frameQueues, next, taken, delivered>>
  BY <1>4 DEF TypeOK
<1>5. Next => \/ \E p \in Producers : Enqueue(p)
              \/ \E w \in Writers : RemoveFrame(w)
              \/ UNCHANGED <<frameQueues, next, taken, delivered>>
  BY DEF Next, Writer, Reader, Complete, ConnectionLost, CheckCancelled, WaitReturns,
     EnterDequeue, FindMissingWindow, AddMissingWindow, FindFrame, DequeueNull,
     ResetWaitAny, WriteFrame, ProcessSentFrame, DecreaseWindowSize, ReadUpdate,
     ReaderAddsWindow, IncreaseWindowSize, FlowControlWindowSizeIncreased,
     queueVars, writerVars
<1>. QED
  BY <1>1, <1>2, <1>3, <1>4, <1>5 DEF TypeOK

\* The types of the windows and of the reader.
LEMMA WindowTypeStep ==
  ASSUME QueueInv, Next
  PROVE  /\ DOMAIN windowSizes' \subseteq Nat
         /\ windowSizes' \in [DOMAIN windowSizes' -> UInt]
         /\ reader' \in [at : {"idle", "add", "increase", "signal", "crashed"},
                         done : 0 .. Len(Updates), current : UInt]
         /\ reader'.at # "idle" => reader'.done < Len(Updates)
<1>. DEFINE WindowType == /\ DOMAIN windowSizes \subseteq Nat
                          /\ windowSizes \in [DOMAIN windowSizes -> UInt]
            Reads == [at : {"idle", "add", "increase", "signal", "crashed"},
                      done : 0 .. Len(Updates), current : UInt]
            ReaderType == reader \in Reads /\ (reader.at # "idle" => reader.done < Len(Updates))
<1>. SUFFICES WindowType' /\ ReaderType'
  OBVIOUS
<1>0. WindowType /\ ReaderType
  BY DEF QueueInv, TypeOK
<1>1. ASSUME NEW id \in Nat, windowSizes' = AddWindow(windowSizes, id)
      PROVE  WindowType'
  <2>1. /\ AddWindow(windowSizes, id) \in [DOMAIN windowSizes \union {id} -> UInt]
        /\ DOMAIN AddWindow(windowSizes, id) = DOMAIN windowSizes \union {id}
    BY <1>0, AddWindowType
  <2>. QED
    BY <1>0, <1>1, <2>1
<1>2. ASSUME reader.done < Len(Updates)
      PROVE  Update.stream \in Nat /\ Update.increment \in UInt
  <2>1. Updates \in Seq([stream : Nat, increment : UInt]) /\ Len(Updates) \in Nat
    BY ScriptAssumption
  <2>2. reader.done + 1 \in 1 .. Len(Updates)
    BY <1>0, <1>2, <2>1
  <2>3. Update \in [stream : Nat, increment : UInt]
    BY <2>1, <2>2, ElementOfSeq DEF Update
  <2>. QED
    BY <2>3
<1>3. ASSUME NEW w \in Writers, AddMissingWindow(w)
      PROVE  WindowType' /\ ReaderType'
  <2>1. reader' = reader
    BY <1>3 DEF AddMissingWindow
  <2>2. local[w] \in Nat
    BY DEF QueueInv, TypeOK
  <2>3. windowSizes' = windowSizes \/ windowSizes' = AddWindow(windowSizes, local[w])
    BY <1>3 DEF AddMissingWindow
  <2>. QED
    BY <1>0, <1>1, <2>1, <2>2, <2>3
<1>4. ASSUME NEW w \in Writers, DecreaseWindowSize(w)
      PROVE  WindowType' /\ ReaderType'
  <2>1. reader' = reader
    BY <1>4 DEF DecreaseWindowSize
  <2>2. hand[w] \in Frame
    BY <1>4 DEF DecreaseWindowSize, At, QueueInv, HandIsHead
  <2>3. StreamOf(hand[w]) \in Nat /\ LengthOf(hand[w]) \in UInt
    BY <2>2, PriorityType DEF StreamOf, LengthOf, FrameRecord
  <2>4. Decreased(local[w], LengthOf(hand[w])) \in UInt
    <3>1. local[w] \in Int /\ LengthOf(hand[w]) \in Int
      BY <2>3, UIntIsNat DEF QueueInv, TypeOK
    <3>2. USub(local[w], LengthOf(hand[w])) \in UInt
      BY <3>1, UIntType
    <3>3. 0 \in UInt
      BY FlowControlAssumption DEF UInt
    <3>. QED
      BY <3>2, <3>3 DEF Decreased
  <2>5. /\ AddWindow(windowSizes, StreamOf(hand[w]))
              \in [DOMAIN windowSizes \union {StreamOf(hand[w])} -> UInt]
        /\ DOMAIN AddWindow(windowSizes, StreamOf(hand[w]))
              = DOMAIN windowSizes \union {StreamOf(hand[w])}
    BY <1>0, AddWindowType
  <2>6. windowSizes' = [AddWindow(windowSizes, StreamOf(hand[w])) EXCEPT
                          ![StreamOf(hand[w])] = Decreased(local[w], LengthOf(hand[w]))]
    BY <1>4 DEF DecreaseWindowSize
  <2>7. /\ windowSizes' \in [DOMAIN windowSizes \union {StreamOf(hand[w])} -> UInt]
        /\ DOMAIN windowSizes' = DOMAIN windowSizes \union {StreamOf(hand[w])}
    BY <2>4, <2>5, <2>6
  <2>. QED
    BY <1>0, <2>1, <2>3, <2>7
<1>5. CASE ReadUpdate
  <2>1. windowSizes' = windowSizes
    BY <1>5 DEF ReadUpdate
  <2>2. reader.done < Len(Updates)
    BY <1>5 DEF ReadUpdate
  <2>3. \/ reader' = [reader EXCEPT !.at = "add"]
        \/ /\ Update.stream \in DOMAIN windowSizes
           /\ reader' = [reader EXCEPT !.at = "increase",
                                       !.current = windowSizes[Update.stream]]
    BY <1>5 DEF ReadUpdate
  <2>4. ReaderType'
    BY <1>0, <2>2, <2>3
  <2>. QED
    BY <1>0, <2>1, <2>4
<1>6. CASE ReaderAddsWindow
  <2>1. reader.at = "add" /\ reader.done < Len(Updates)
    BY <1>0, <1>6 DEF ReaderAddsWindow
  <2>2. Update.stream \in Nat
    BY <1>2, <2>1
  <2>3. windowSizes' = windowSizes \/ windowSizes' = AddWindow(windowSizes, Update.stream)
    BY <1>6 DEF ReaderAddsWindow
  <2>4. WindowType'
    BY <1>0, <1>1, <2>2, <2>3
  <2>5. reader' = [reader EXCEPT !.at = "crashed"] \/ reader' = [reader EXCEPT !.at = "idle"]
    BY <1>6 DEF ReaderAddsWindow
  <2>. QED
    BY <1>0, <2>1, <2>4, <2>5
<1>7. CASE IncreaseWindowSize
  <2>1. reader.at = "increase" /\ reader.done < Len(Updates)
    BY <1>0, <1>7 DEF IncreaseWindowSize
  <2>2. Update.increment \in UInt
    BY <1>2, <2>1
  <2>3. Increased(reader.current, Update.increment) \in UInt
    <3>1. reader.current \in Int /\ Update.increment \in Int
      BY <1>0, <2>2, UIntIsNat
    <3>. QED
      BY <3>1, UIntType DEF Increased
  <2>4. windowSizes' = [windowSizes EXCEPT ![Update.stream] =
                          Increased(reader.current, Update.increment)]
    BY <1>7 DEF IncreaseWindowSize
  <2>5. WindowType'
    BY <1>0, <2>3, <2>4
  <2>6. reader' = [reader EXCEPT !.at = "signal"]
    BY <1>7 DEF IncreaseWindowSize
  <2>. QED
    BY <1>0, <2>1, <2>5, <2>6
<1>8. CASE FlowControlWindowSizeIncreased
  <2>1. windowSizes' = windowSizes
    BY <1>8 DEF FlowControlWindowSizeIncreased
  <2>2. reader.at = "signal" /\ reader.done < Len(Updates)
    BY <1>0, <1>8 DEF FlowControlWindowSizeIncreased
  <2>3. reader' = [reader EXCEPT !.at = "idle", !.done = @ + 1]
    BY <1>8 DEF FlowControlWindowSizeIncreased
  <2>4. Len(Updates) \in Nat
    BY ScriptAssumption
  <2>5. reader.done + 1 \in 0 .. Len(Updates)
    BY <1>0, <2>2, <2>4
  <2>6. ReaderType'
    BY <1>0, <2>3, <2>5
  <2>7. WindowType'
    BY <1>0, <2>1
  <2>. QED
    BY <2>6, <2>7
<1>9. ASSUME UNCHANGED <<windowSizes, reader>>
      PROVE  WindowType' /\ ReaderType'
  <2>1. windowSizes' = windowSizes /\ reader' = reader
    BY <1>9
  <2>. QED
    BY <1>0, <2>1
<1>10. \/ \E w \in Writers : AddMissingWindow(w) \/ DecreaseWindowSize(w)
       \/ Reader
       \/ UNCHANGED <<windowSizes, reader>>
  BY DEF Next, Writer, Enqueue, Complete, ConnectionLost, CheckCancelled, WaitReturns,
     EnterDequeue, FindMissingWindow, FindFrame, RemoveFrame, DequeueNull,
     ResetWaitAny, WriteFrame, ProcessSentFrame
<1>. QED
  BY <1>3, <1>4, <1>5, <1>6, <1>7, <1>8, <1>9, <1>10, Zenon DEF Reader

\* The types of the locks, the event and the writers.
LEMMA WriterTypeStep ==
  ASSUME QueueInv, Next
  PROVE  /\ semaphoreFrames' \in Writers \union {Free}
         /\ waitAny' \in BOOLEAN
         /\ cancelled' \in BOOLEAN
         /\ connected' \in BOOLEAN
         /\ pc' \in [Writers -> Places]
         /\ hand' \in [Writers -> Frame \union {NoFrame}]
         /\ local' \in [Writers -> Nat]
         /\ lockWrite' \in Writers \union {Free}
         /\ wire' \in Seq(Frame)
<1>. DEFINE WriterType == /\ semaphoreFrames \in Writers \union {Free}
                          /\ waitAny \in BOOLEAN
                          /\ cancelled \in BOOLEAN
                          /\ connected \in BOOLEAN
                          /\ pc \in [Writers -> Places]
                          /\ hand \in [Writers -> Frame \union {NoFrame}]
                          /\ local \in [Writers -> Nat]
                          /\ lockWrite \in Writers \union {Free}
                          /\ wire \in Seq(Frame)
<1>. SUFFICES WriterType'
  OBVIOUS
<1>1. WriterType
  BY DEF QueueInv, TypeOK
<1>2. CASE \/ \E p \in Producers : Enqueue(p)
           \/ Reader \/ Complete \/ ConnectionLost
  BY <1>1, <1>2 DEF Enqueue, Reader, Complete, ConnectionLost, ReadUpdate,
     ReaderAddsWindow, IncreaseWindowSize, FlowControlWindowSizeIncreased,
     queueVars, writerVars
<1>3. ASSUME NEW w \in Writers, \/ CheckCancelled(w) \/ WaitReturns(w) \/ EnterDequeue(w)
                                \/ AddMissingWindow(w) \/ DequeueNull(w) \/ ResetWaitAny(w)
                                \/ RemoveFrame(w)
      PROVE  WriterType'
  BY <1>1, <1>3 DEF CheckCancelled, WaitReturns, EnterDequeue, AddMissingWindow,
     DequeueNull, ResetWaitAny, RemoveFrame, Goto, Places, queueVars
<1>4. ASSUME NEW w \in Writers, FindMissingWindow(w)
      PROVE  WriterType'
  <2>1. PICK id \in MissingKeys : local' = [local EXCEPT ![w] = id]
    BY <1>4 DEF FindMissingWindow
  <2>2. \A g \in Examined : StreamOf(g) \in Nat
    <3>1. \A c \in PRIORITIES : \A i \in 1 .. Len(frameQueues[c]) : frameQueues[c][i] \in Frame
      BY DEF QueueInv, TypeOK
    <3>2. \A g \in Examined : g \in Frame
      BY <3>1 DEF Examined
    <3>. QED
      BY <3>2, PriorityType DEF StreamOf, FrameRecord
  <2>3. id \in Nat
    BY <2>1, <2>2 DEF MissingKeys, LookedUp, ConnectionId
  <2>. QED
    BY <1>1, <1>4, <2>1, <2>3 DEF FindMissingWindow, Goto, Places, queueVars
<1>5. ASSUME NEW w \in Writers, FindFrame(w)
      PROVE  WriterType'
  <2>1. PICK c \in PRIORITIES : \E i \in Sendable(c) :
          IsResult(c, i) /\ hand' = [hand EXCEPT ![w] = frameQueues[c][i]]
    BY <1>5 DEF FindFrame
  <2>2. PICK i \in Sendable(c) :
          IsResult(c, i) /\ hand' = [hand EXCEPT ![w] = frameQueues[c][i]]
    BY <2>1
  <2>3. frameQueues[c][i] \in Frame
    BY <2>2, ResultIsHead DEF QueueInv
  <2>. QED
    BY <1>1, <1>5, <2>2, <2>3 DEF FindFrame, Goto, Places, queueVars
<1>6. ASSUME NEW w \in Writers, WriteFrame(w)
      PROVE  WriterType'
  <2>1. hand[w] \in Frame
    BY <1>6 DEF WriteFrame, At, QueueInv, HandIsHead
  <2>2. Append(wire, hand[w]) \in Seq(Frame)
    BY <1>1, <2>1, AppendProperties
  <2>. QED
    BY <1>1, <1>6, <2>2 DEF WriteFrame, Goto, Places, queueVars
<1>7. ASSUME NEW w \in Writers, ProcessSentFrame(w)
      PROVE  WriterType'
  <2>1. GetWindowSize(windowSizes, StreamOf(hand[w])) \in Nat
    BY AddWindowType, UIntIsNat DEF QueueInv, TypeOK
  <2>. QED
    BY <1>1, <1>7, <2>1 DEF ProcessSentFrame, Goto, Places, queueVars
<1>8. ASSUME NEW w \in Writers, DecreaseWindowSize(w)
      PROVE  WriterType'
  BY <1>1, <1>8 DEF DecreaseWindowSize, Goto, Places, queueVars
<1>. QED
  BY <1>2, <1>3, <1>4, <1>5, <1>6, <1>7, <1>8, Zenon DEF Next, Writer

LEMMA LockHeldStep ==
  ASSUME QueueInv, Next
  PROVE  LockHeld'
<1>1. Free \notin Writers
  BY ScriptAssumption
<1>2. pc \in [Writers -> Places] /\ LockHeld
  BY DEF QueueInv, TypeOK
<1>3. CASE \/ \E p \in Producers : Enqueue(p)
           \/ Reader \/ Complete \/ ConnectionLost
  BY <1>2, <1>3 DEF LockHeld, Enqueue, Reader, Complete, ConnectionLost, ReadUpdate,
     ReaderAddsWindow, IncreaseWindowSize, FlowControlWindowSizeIncreased,
     queueVars, writerVars
<1>4. ASSUME NEW w \in Writers, \/ CheckCancelled(w) \/ WaitReturns(w) \/ ResetWaitAny(w)
                                \/ WriteFrame(w) \/ ProcessSentFrame(w) \/ DecreaseWindowSize(w)
      PROVE  LockHeld'
  BY <1>2, <1>4 DEF LockHeld, CheckCancelled, WaitReturns, ResetWaitAny, WriteFrame,
     ProcessSentFrame, DecreaseWindowSize, Goto, queueVars
<1>5. ASSUME NEW w \in Writers, FindMissingWindow(w) \/ AddMissingWindow(w) \/ FindFrame(w)
      PROVE  LockHeld'
  BY <1>2, <1>5 DEF LockHeld, FindMissingWindow, AddMissingWindow, FindFrame, At, Goto, queueVars
<1>6. ASSUME NEW w \in Writers, EnterDequeue(w)
      PROVE  LockHeld'
  BY <1>1, <1>2, <1>6 DEF LockHeld, EnterDequeue, Goto
<1>7. ASSUME NEW w \in Writers, RemoveFrame(w) \/ DequeueNull(w)
      PROVE  LockHeld'
  BY <1>1, <1>2, <1>7 DEF LockHeld, RemoveFrame, DequeueNull, At, Goto
<1>. QED
  BY <1>3, <1>4, <1>5, <1>6, <1>7, Zenon DEF Next, Writer

LEMMA HandIsHeadStep ==
  ASSUME QueueInv, Next
  PROVE  HandIsHead'
<1>. SUFFICES ASSUME NEW v \in Writers
              PROVE  /\ pc'[v] \in {"remove", "write", "sent", "decrease"} => hand'[v] \in Frame
                     /\ pc'[v] = "remove" =>
                          /\ frameQueues'[PriorityOf(hand'[v])] # <<>>
                          /\ hand'[v] = Head(frameQueues'[PriorityOf(hand'[v])])
                          /\ \A d \in PRIORITIES :
                               d < PriorityOf(hand'[v]) => frameQueues'[d] = <<>>
  BY DEF HandIsHead, PriorityOf, TypeOf
<1>0. /\ pc \in [Writers -> Places] /\ hand \in [Writers -> Frame \union {NoFrame}]
      /\ Free \notin Writers
      /\ pc[v] \in {"remove", "write", "sent", "decrease"} => hand[v] \in Frame
      /\ pc[v] = "remove" =>
           /\ semaphoreFrames = v
           /\ frameQueues[PriorityOf(hand[v])] # <<>>
           /\ hand[v] = Head(frameQueues[PriorityOf(hand[v])])
           /\ \A d \in PRIORITIES : d < PriorityOf(hand[v]) => frameQueues[d] = <<>>
  BY ScriptAssumption DEF QueueInv, TypeOK, HandIsHead, LockHeld
<1>1. CASE \/ Reader \/ Complete \/ ConnectionLost
  BY <1>0, <1>1 DEF Reader, Complete, ConnectionLost, ReadUpdate,
     ReaderAddsWindow, IncreaseWindowSize, FlowControlWindowSizeIncreased,
     queueVars, writerVars
<1>2. ASSUME NEW p \in Producers, Enqueue(p)
      PROVE  /\ pc'[v] \in {"remove", "write", "sent", "decrease"} => hand'[v] \in Frame
             /\ pc'[v] # "remove"
  BY <1>0, <1>2 DEF Enqueue, writerVars
<1>3. ASSUME NEW w \in Writers, \/ CheckCancelled(w) \/ WaitReturns(w) \/ EnterDequeue(w)
                                \/ FindMissingWindow(w) \/ AddMissingWindow(w)
                                \/ DequeueNull(w) \/ ResetWaitAny(w) \/ WriteFrame(w)
                                \/ ProcessSentFrame(w) \/ DecreaseWindowSize(w)
      PROVE  /\ pc'[v] \in {"remove", "write", "sent", "decrease"} => hand'[v] \in Frame
             /\ pc'[v] = "remove" =>
                  pc[v] = "remove" /\ hand'[v] = hand[v] /\ frameQueues' = frameQueues
  BY <1>0, <1>3 DEF CheckCancelled, WaitReturns, EnterDequeue, FindMissingWindow,
     AddMissingWindow, DequeueNull, ResetWaitAny, WriteFrame, ProcessSentFrame,
     DecreaseWindowSize, At, Goto, queueVars
<1>4. ASSUME NEW w \in Writers, FindFrame(w)
      PROVE  /\ hand'[w] \in Frame
             /\ frameQueues' = frameQueues
             /\ frameQueues[PriorityOf(hand'[w])] # <<>>
             /\ hand'[w] = Head(frameQueues[PriorityOf(hand'[w])])
             /\ \A d \in PRIORITIES : d < PriorityOf(hand'[w]) => frameQueues[d] = <<>>
             /\ pc' = [pc EXCEPT ![w] = "remove"]
             /\ w # v => hand'[v] = hand[v]
  <2>1. PICK c \in PRIORITIES : \E i \in Sendable(c) :
          IsResult(c, i) /\ hand' = [hand EXCEPT ![w] = frameQueues[c][i]]
    BY <1>4 DEF FindFrame
  <2>2. PICK i \in Sendable(c) :
          IsResult(c, i) /\ hand' = [hand EXCEPT ![w] = frameQueues[c][i]]
    BY <2>1
  <2>3. /\ i = 1 /\ frameQueues[c] # <<>>
        /\ frameQueues[c][i] = Head(frameQueues[c])
        /\ frameQueues[c][i] \in Frame
        /\ \A d \in PRIORITIES : d < c => frameQueues[d] = <<>>
    BY <2>2, ResultIsHead DEF QueueInv
  <2>4. hand'[w] = frameQueues[c][i] /\ (w # v => hand'[v] = hand[v])
    BY <1>0, <2>2
  <2>5. PriorityOf(frameQueues[c][i]) = c
    BY <2>3, <2>2 DEF QueueInv, InItsList, TypeOK, Sendable
  <2>6. frameQueues' = frameQueues /\ pc' = [pc EXCEPT ![w] = "remove"]
    BY <1>4 DEF FindFrame, Goto, queueVars
  <2>. QED
    BY <2>3, <2>4, <2>5, <2>6
<1>5. ASSUME NEW w \in Writers, RemoveFrame(w)
      PROVE  /\ pc'[v] \in {"remove", "write", "sent", "decrease"} => hand'[v] \in Frame
             /\ pc'[v] # "remove"
  <2>1. semaphoreFrames = w /\ pc[w] = "remove"
    BY <1>5 DEF RemoveFrame, At, QueueInv, LockHeld
  <2>2. hand' = hand /\ pc' = [pc EXCEPT ![w] = "write"]
    BY <1>5 DEF RemoveFrame, Goto
  <2>. QED
    BY <1>0, <2>1, <2>2
<1>6. \/ Reader \/ Complete \/ ConnectionLost
      \/ \E p \in Producers : Enqueue(p)
      \/ \E w \in Writers : FindFrame(w)
      \/ \E w \in Writers : RemoveFrame(w)
      \/ \E w \in Writers : \/ CheckCancelled(w) \/ WaitReturns(w) \/ EnterDequeue(w)
                            \/ FindMissingWindow(w) \/ AddMissingWindow(w)
                            \/ DequeueNull(w) \/ ResetWaitAny(w) \/ WriteFrame(w)
                            \/ ProcessSentFrame(w) \/ DecreaseWindowSize(w)
  BY Zenon DEF Next, Writer
<1>. QED
  <2>1. CASE \E w \in Writers : FindFrame(w)
    <3>1. PICK w \in Writers : FindFrame(w)
      BY <2>1
    <3>2. CASE w = v
      BY <1>0, <1>4, <3>1, <3>2
    <3>3. CASE w # v
      <4>1. pc'[v] = pc[v]
        BY <1>0, <1>4, <3>1, <3>3
      <4>. QED
        BY <1>0, <1>4, <3>1, <3>3, <4>1
    <3>. QED
      BY <3>2, <3>3
  <2>2. CASE \E w \in Writers : \/ CheckCancelled(w) \/ WaitReturns(w) \/ EnterDequeue(w)
                            \/ FindMissingWindow(w) \/ AddMissingWindow(w)
                            \/ DequeueNull(w) \/ ResetWaitAny(w) \/ WriteFrame(w)
                            \/ ProcessSentFrame(w) \/ DecreaseWindowSize(w)
    BY SMTT(40), <1>0, <1>3, <2>2
  <2>. QED
    BY <1>1, <1>2, <1>5, <1>6, <2>1, <2>2

-----------------------------------------------------------------------------
(* The two steps that change the lists, place by place.                    *)

LEMMA EnqueuePlaces ==
  ASSUME QueueInv, NEW p \in Producers, Enqueue(p), NEW c \in PRIORITIES
  PROVE  /\ <<p, next[p]>> \in Frame
         /\ next' = [next EXCEPT ![p] = @ + 1] /\ taken' = taken
         /\ DOMAIN frameQueues[c] \subseteq DOMAIN frameQueues'[c]
         /\ \A j \in DOMAIN frameQueues[c] : frameQueues'[c][j] = frameQueues[c][j]
         /\ \A j \in DOMAIN frameQueues'[c] \ DOMAIN frameQueues[c] :
              /\ c = PriorityOf(<<p, next[p]>>)
              /\ frameQueues'[c][j] = <<p, next[p]>>
              /\ j = Len(frameQueues[c]) + 1
         /\ c = PriorityOf(<<p, next[p]>>) =>
              Len(frameQueues[c]) + 1 \in DOMAIN frameQueues'[c] \ DOMAIN frameQueues[c]
         /\ DOMAIN frameQueues[c] = 1 .. Len(frameQueues[c]) /\ Len(frameQueues[c]) \in Nat
<1>1. Len(Script[p]) \in Nat
  BY ScriptAssumption
<1>2. <<p, next[p]>> \in Frame
  BY <1>1 DEF Enqueue, QueueInv, TypeOK, Frame
<1>3. next' = [next EXCEPT ![p] = @ + 1] /\ taken' = taken
  BY DEF Enqueue
<1>4. frameQueues \in [PRIORITIES -> Seq(Frame)] /\ frameQueues[c] \in Seq(Frame)
  BY DEF QueueInv, TypeOK
<1>5. frameQueues' = [frameQueues EXCEPT ![PriorityOf(<<p, next[p]>>)] =
                        Append(frameQueues[PriorityOf(<<p, next[p]>>)], <<p, next[p]>>)]
  BY DEF Enqueue
<1>6. frameQueues'[c] = IF c = PriorityOf(<<p, next[p]>>)
                        THEN Append(frameQueues[c], <<p, next[p]>>)
                        ELSE frameQueues[c]
  BY <1>4, <1>5
<1>7. CASE c = PriorityOf(<<p, next[p]>>)
  <2>1. frameQueues'[c] = Append(frameQueues[c], <<p, next[p]>>)
    BY <1>6, <1>7
  <2>2. /\ frameQueues'[c] \in Seq(Frame)
        /\ Len(frameQueues'[c]) = Len(frameQueues[c]) + 1
        /\ \A j \in 1 .. Len(frameQueues[c]) : frameQueues'[c][j] = frameQueues[c][j]
        /\ frameQueues'[c][Len(frameQueues[c]) + 1] = <<p, next[p]>>
    BY <1>2, <1>4, <2>1, AppendProperties
  <2>3. /\ DOMAIN frameQueues[c] = 1 .. Len(frameQueues[c]) /\ Len(frameQueues[c]) \in Nat
        /\ DOMAIN frameQueues'[c] = 1 .. Len(frameQueues[c]) + 1
    BY <1>4, <2>2, LenProperties
  <2>4. \A j \in DOMAIN frameQueues'[c] \ DOMAIN frameQueues[c] :
          j = Len(frameQueues[c]) + 1
    BY <2>3
  <2>5. Len(frameQueues[c]) + 1 \in DOMAIN frameQueues'[c] \ DOMAIN frameQueues[c]
    BY <2>3
  <2>6. DOMAIN frameQueues[c] \subseteq DOMAIN frameQueues'[c]
    BY <2>3
  <2>7. \A j \in DOMAIN frameQueues[c] : frameQueues'[c][j] = frameQueues[c][j]
    BY <2>2, <2>3
  <2>. QED
    BY <1>2, <1>3, <1>7, <2>2, <2>3, <2>4, <2>5, <2>6, <2>7
<1>8. CASE c # PriorityOf(<<p, next[p]>>)
  BY <1>2, <1>3, <1>4, <1>6, <1>8
<1>. QED
  BY <1>7, <1>8

LEMMA RemovePlaces ==
  ASSUME QueueInv, NEW w \in Writers, RemoveFrame(w), NEW c \in PRIORITIES
  PROVE  /\ next' = next /\ taken' = Append(taken, hand[w])
         /\ DOMAIN frameQueues[c] = 1 .. Len(frameQueues[c]) /\ Len(frameQueues[c]) \in Nat
         /\ DOMAIN frameQueues'[c] = 1 .. Len(frameQueues'[c]) /\ Len(frameQueues'[c]) \in Nat
         /\ c = PriorityOf(hand[w]) =>
              /\ Len(frameQueues[c]) = Len(frameQueues'[c]) + 1
              /\ frameQueues[c][1] = hand[w]
              /\ \A j \in DOMAIN frameQueues'[c] : frameQueues'[c][j] = frameQueues[c][j + 1]
         /\ c # PriorityOf(hand[w]) => frameQueues'[c] = frameQueues[c]
<1>1. next' = next /\ taken' = Append(taken, hand[w])
  BY DEF RemoveFrame
<1>2. frameQueues \in [PRIORITIES -> Seq(Frame)] /\ frameQueues[c] \in Seq(Frame)
  BY DEF QueueInv, TypeOK
<1>3. frameQueues' = [frameQueues EXCEPT ![PriorityOf(hand[w])] =
                        Tail(frameQueues[PriorityOf(hand[w])])]
  BY SMTT(40), RemovedList
<1>4. CASE c = PriorityOf(hand[w])
  <2>1. frameQueues'[c] = Tail(frameQueues[c]) /\ frameQueues[c] # <<>>
          /\ hand[w] = Head(frameQueues[c])
    BY <1>2, <1>3, <1>4, RemovedList
  <2>2. /\ Tail(frameQueues[c]) \in Seq(Frame)
        /\ Len(Tail(frameQueues[c])) = Len(frameQueues[c]) - 1
        /\ \A i \in 1 .. Len(Tail(frameQueues[c])) :
             Tail(frameQueues[c])[i] = frameQueues[c][i + 1]
    BY <1>2, <2>1, HeadTailProperties
  <2>3. /\ DOMAIN Tail(frameQueues[c]) = 1 .. Len(Tail(frameQueues[c]))
        /\ Len(Tail(frameQueues[c])) \in Nat
        /\ DOMAIN frameQueues[c] = 1 .. Len(frameQueues[c]) /\ Len(frameQueues[c]) \in Nat
    BY <1>2, <2>2, LenProperties
  <2>. QED
    BY <1>1, <1>2, <1>4, <2>1, <2>2, <2>3
<1>5. CASE c # PriorityOf(hand[w])
  BY <1>1, <1>2, <1>3, <1>5
<1>. QED
  BY <1>4, <1>5

LEMMA EnqueueStep ==
  ASSUME QueueInv, NEW p \in Producers, Enqueue(p)
  PROVE  InItsList' /\ TakenIsGone' /\ NothingLost' /\ LaterIsBehind' /\ RequestOrder'
<1>. DEFINE new == <<p, next[p]>>
<1>0. /\ next \in [Producers -> Nat] /\ taken \in Seq(Frame)
      /\ \A c \in PRIORITIES : frameQueues[c] \in Seq(Frame)
      /\ new \in Frame /\ next' = [next EXCEPT ![p] = @ + 1] /\ taken' = taken
      /\ PriorityOf(new) \in PRIORITIES
  <2>1. new \in Frame /\ next' = [next EXCEPT ![p] = @ + 1] /\ taken' = taken
    BY EnqueuePlaces DEF PRIORITIES
  <2>. QED
    BY <2>1, PriorityType DEF QueueInv, TypeOK
<1>a. \A c \in PRIORITIES : \A k \in DOMAIN frameQueues[c] :
        k \in DOMAIN frameQueues'[c] /\ frameQueues'[c][k] = frameQueues[c][k]
  BY EnqueuePlaces
<1>1. \A q \in Producers : next'[q] >= next[q] /\ (q # p => next'[q] = next[q])
  BY <1>0
<1>2. ASSUME NEW c \in PRIORITIES, NEW j \in DOMAIN frameQueues[c]
      PROVE  /\ frameQueues[c][j] \in Frame
             /\ frameQueues[c][j][1] \in Producers
             /\ frameQueues[c][j][2] \in Nat
             /\ frameQueues[c][j][2] < next[frameQueues[c][j][1]]
             /\ frameQueues[c][j] # new
  <2>1. frameQueues[c][j] \in Frame
    BY <1>0
  <2>. QED
    BY <2>1, PriorityType DEF QueueInv, InItsList
<1>3. InItsList'
  <2>. SUFFICES ASSUME NEW c \in PRIORITIES, NEW j \in DOMAIN frameQueues'[c]
                PROVE  /\ PriorityOf(frameQueues'[c][j]) = c
                       /\ frameQueues'[c][j][2] < next'[frameQueues'[c][j][1]]
                       /\ \A k \in DOMAIN frameQueues'[c] :
                            frameQueues'[c][k] = frameQueues'[c][j] => k = j
    BY DEF InItsList, PriorityOf, TypeOf
  <2>1. CASE j \in DOMAIN frameQueues[c]
    <3>1. frameQueues'[c][j] = frameQueues[c][j]
      BY <2>1, EnqueuePlaces
    <3>2. PriorityOf(frameQueues'[c][j]) = c
      BY <2>1, <3>1 DEF QueueInv, InItsList
    <3>3. frameQueues'[c][j][2] < next'[frameQueues'[c][j][1]]
      BY <1>0, <1>1, <1>2, <2>1, <3>1
    <3>4. ASSUME NEW k \in DOMAIN frameQueues'[c], frameQueues'[c][k] = frameQueues'[c][j]
          PROVE  k = j
      <4>1. CASE k \in DOMAIN frameQueues[c]
        <5>1. frameQueues[c][k] = frameQueues[c][j]
          BY <3>1, <3>4, <4>1, EnqueuePlaces
        <5>. QED
          BY <2>1, <4>1, <5>1 DEF QueueInv, InItsList
      <4>2. CASE k \notin DOMAIN frameQueues[c]
        <5>1. frameQueues'[c][k] = new
          BY <4>2, EnqueuePlaces
        <5>. QED
          BY <1>2, <2>1, <3>1, <3>4, <5>1
      <4>. QED
        BY <4>1, <4>2
    <3>. QED
      BY <3>2, <3>3, <3>4
  <2>2. CASE j \notin DOMAIN frameQueues[c]
    <3>1. c = PriorityOf(new) /\ frameQueues'[c][j] = new /\ j = Len(frameQueues[c]) + 1
      BY <2>2, EnqueuePlaces
    <3>2. \A k \in DOMAIN frameQueues'[c] : frameQueues'[c][k] = new => k = j
      BY <1>2, <3>1, EnqueuePlaces
    <3>3. new[2] < next'[new[1]]
      BY <1>0
    <3>. QED
      BY <3>1, <3>2, <3>3
  <2>. QED
    BY <2>1, <2>2
<1>4. TakenIsGone'
  <2>. SUFFICES ASSUME NEW a \in DOMAIN taken
                PROVE  /\ taken[a][2] < next'[taken[a][1]]
                       /\ \A c \in PRIORITIES : \A j \in DOMAIN frameQueues'[c] :
                            frameQueues'[c][j] # taken[a]
    BY <1>0 DEF TakenIsGone
  <2>1. taken[a] \in Frame
    BY <1>0
  <2>2. taken[a][1] \in Producers /\ taken[a][2] \in Nat /\ taken[a][2] < next[taken[a][1]]
    BY <2>1, PriorityType DEF QueueInv, TakenIsGone
  <2>3. taken[a] # new
    BY <2>2
  <2>4. ASSUME NEW c \in PRIORITIES, NEW j \in DOMAIN frameQueues'[c]
        PROVE  frameQueues'[c][j] # taken[a]
    <3>1. CASE j \in DOMAIN frameQueues[c]
      <4>1. frameQueues'[c][j] = frameQueues[c][j]
        BY <3>1, EnqueuePlaces
      <4>. QED
        BY <3>1, <4>1 DEF QueueInv, TakenIsGone
    <3>2. CASE j \notin DOMAIN frameQueues[c]
      BY ZenonT(60), <2>3, <3>2, EnqueuePlaces
    <3>. QED
      BY <3>1, <3>2
  <2>. QED
    BY <1>0, <1>1, <2>2, <2>4
<1>5. LaterIsBehind'
  <2>. SUFFICES ASSUME NEW c \in PRIORITIES, NEW j \in DOMAIN frameQueues'[c],
                       frameQueues'[c][j][1] \in Requests,
                       NEW l \in frameQueues'[c][j][2] + 1 .. next'[frameQueues'[c][j][1]] - 1
                PROVE  \E k \in DOMAIN frameQueues'[PriorityOf(<<frameQueues'[c][j][1], l>>)] :
                         /\ frameQueues'[PriorityOf(<<frameQueues'[c][j][1], l>>)][k]
                              = <<frameQueues'[c][j][1], l>>
                         /\ PriorityOf(<<frameQueues'[c][j][1], l>>) = c => j < k
    BY DEF LaterIsBehind, PriorityOf, TypeOf
  <2>1. j \in DOMAIN frameQueues[c]
    <3>1. CASE j \notin DOMAIN frameQueues[c]
      <4>1. frameQueues'[c][j] = new
        BY <3>1, EnqueuePlaces
      <4>. QED
        BY <1>0, <4>1
    <3>. QED
      BY <3>1
  <2>2. frameQueues'[c][j] = frameQueues[c][j]
    BY <2>1, EnqueuePlaces
  <2>. DEFINE q == frameQueues[c][j][1]
              i == frameQueues[c][j][2]
              d == PriorityOf(<<q, l>>)
  <2>3. q \in Producers /\ i \in Nat /\ i < next[q] /\ q \in Requests /\ l \in i + 1 .. next'[q] - 1
    BY <1>2, <2>1, <2>2
  <2>4. frameQueues[c][j] = <<q, i>> /\ PriorityOf(<<q, i>>) = c
    <3>1. frameQueues[c][j] = <<q, i>>
      BY <1>2, <2>1, PriorityType
    <3>. QED
      BY <2>1, <3>1 DEF QueueInv, InItsList
  <2>5. CASE l < next[q]
    <3>1. \E k \in DOMAIN frameQueues[d] : frameQueues[d][k] = <<q, l>> /\ (d = c => j < k)
      <4>1. l \in i + 1 .. next[q] - 1
        BY <1>0, <2>3, <2>5
      <4>. QED
        BY <2>1, <2>3, <4>1 DEF QueueInv, LaterIsBehind
    <3>2. d \in PRIORITIES
      <4>1. <<q, l>> \in Frame
        <5>1. Len(Script[q]) \in Nat /\ next[q] \in 1 .. Len(Script[q]) + 1
          BY <2>3, NextBounds
        <5>2. l \in 1 .. Len(Script[q])
          BY <2>3, <2>5, <5>1
        <5>. QED
          BY <2>3, <5>2 DEF Frame
      <4>. QED
        BY <4>1, PriorityType
    <3>3. PICK k \in DOMAIN frameQueues[d] : frameQueues[d][k] = <<q, l>> /\ (d = c => j < k)
      BY <3>1
    <3>4. k \in DOMAIN frameQueues'[d] /\ frameQueues'[d][k] = <<q, l>>
      BY SMTT(40), <1>a, <3>2, <3>3
    <3>. QED
      BY <2>2, <3>3, <3>4
  <2>6. CASE ~(l < next[q])
    <3>1. q = p /\ l = next[p]
      BY <1>0, <2>3, <2>6
    <3>2. d = PriorityOf(new) /\ d \in PRIORITIES
      BY <1>0, <3>1
    <3>3. /\ Len(frameQueues[d]) + 1 \in DOMAIN frameQueues'[d]
          /\ frameQueues'[d][Len(frameQueues[d]) + 1] = <<q, l>>
      BY <3>1, <3>2, EnqueuePlaces
    <3>4. d = c => j < Len(frameQueues[d]) + 1
      BY <1>0, <2>1
    <3>. QED
      BY <2>2, <3>3, <3>4
  <2>. QED
    BY <2>5, <2>6
<1>6. RequestOrder'
  BY <1>0 DEF QueueInv, RequestOrder
<1>7. NothingLost'
  <2>. SUFFICES ASSUME NEW q \in Producers, NEW i \in 1 .. next'[q] - 1
                PROVE  \/ \E c \in PRIORITIES : \E j \in DOMAIN frameQueues'[c] :
                             frameQueues'[c][j] = <<q, i>>
                       \/ \E b \in DOMAIN taken : taken[b] = <<q, i>>
    BY <1>0 DEF NothingLost
  <2>1. CASE i \in 1 .. next[q] - 1
    BY ZenonT(60), <1>a, <2>1 DEF QueueInv, NothingLost
  <2>2. CASE i \notin 1 .. next[q] - 1
    <3>1. <<q, i>> = new
      BY <1>0, <2>2
    <3>2. \E j \in DOMAIN frameQueues'[PriorityOf(new)] :
            frameQueues'[PriorityOf(new)][j] = new
      <4>1. ASSUME NEW c \in PRIORITIES, c = PriorityOf(new)
            PROVE  /\ Len(frameQueues[c]) + 1 \in DOMAIN frameQueues'[c]
                   /\ frameQueues'[c][Len(frameQueues[c]) + 1] = new
        BY <4>1, EnqueuePlaces
      <4>. QED
        BY <1>0, <4>1
    <3>. QED
      BY <1>0, <3>1, <3>2
  <2>. QED
    BY <2>1, <2>2
<1>. QED
  BY <1>3, <1>4, <1>5, <1>6, <1>7

LEMMA RemoveStep ==
  ASSUME QueueInv, NEW w \in Writers, RemoveFrame(w)
  PROVE  InItsList' /\ TakenIsGone' /\ NothingLost' /\ LaterIsBehind' /\ RequestOrder'
<1>. DEFINE f == hand[w]
            c0 == PriorityOf(hand[w])
            \* where the frame at place j of list c was before the step
            Before(c, j) == IF c = c0 THEN j + 1 ELSE j
<1>0. /\ next \in [Producers -> Nat] /\ taken \in Seq(Frame)
      /\ \A c \in PRIORITIES : frameQueues[c] \in Seq(Frame)
      /\ f \in Frame /\ c0 \in PRIORITIES
      /\ next' = next /\ taken' = Append(taken, f)
      /\ \A d \in PRIORITIES : d < c0 => frameQueues[d] = <<>>
  BY RemovedList DEF QueueInv, TypeOK, RemoveFrame
<1>1. \A c \in PRIORITIES : \A j \in DOMAIN frameQueues'[c] :
        /\ j \in Nat /\ j >= 1
        /\ Before(c, j) \in DOMAIN frameQueues[c]
        /\ frameQueues'[c][j] = frameQueues[c][Before(c, j)]
  BY RemovePlaces
<1>2. 1 \in DOMAIN frameQueues[c0] /\ frameQueues[c0][1] = f
  BY <1>0, RemovePlaces
<1>3. ASSUME NEW c \in PRIORITIES, NEW k \in DOMAIN frameQueues[c],
             ~(c = c0 /\ k = 1)
      PROVE  \E m \in DOMAIN frameQueues'[c] : Before(c, m) = k
  <2>1. /\ DOMAIN frameQueues[c] = 1 .. Len(frameQueues[c]) /\ Len(frameQueues[c]) \in Nat
        /\ DOMAIN frameQueues'[c] = 1 .. Len(frameQueues'[c]) /\ Len(frameQueues'[c]) \in Nat
        /\ c = c0 => Len(frameQueues[c]) = Len(frameQueues'[c]) + 1
        /\ c # c0 => frameQueues'[c] = frameQueues[c]
    BY RemovePlaces
  <2>2. CASE c = c0
    <3>1. k - 1 \in DOMAIN frameQueues'[c] /\ (k - 1) + 1 = k
      BY <1>3, <2>1, <2>2
    <3>. QED
      BY <2>2, <3>1
  <2>3. CASE c # c0
    BY <1>3, <2>1, <2>3
  <2>. QED
    BY <2>2, <2>3
<1>4. InItsList'
  <2>. SUFFICES ASSUME NEW c \in PRIORITIES, NEW j \in DOMAIN frameQueues'[c]
                PROVE  /\ PriorityOf(frameQueues'[c][j]) = c
                       /\ frameQueues'[c][j][2] < next'[frameQueues'[c][j][1]]
                       /\ \A k \in DOMAIN frameQueues'[c] :
                            frameQueues'[c][k] = frameQueues'[c][j] => k = j
    BY DEF InItsList, PriorityOf, TypeOf
  <2>1. /\ Before(c, j) \in DOMAIN frameQueues[c]
        /\ frameQueues'[c][j] = frameQueues[c][Before(c, j)]
    BY <1>1
  <2>2. /\ PriorityOf(frameQueues'[c][j]) = c
        /\ frameQueues'[c][j][2] < next'[frameQueues'[c][j][1]]
    BY <1>0, <2>1 DEF QueueInv, InItsList
  <2>3. ASSUME NEW k \in DOMAIN frameQueues'[c], frameQueues'[c][k] = frameQueues'[c][j]
        PROVE  k = j
    <3>1. /\ Before(c, k) \in DOMAIN frameQueues[c]
          /\ frameQueues[c][Before(c, k)] = frameQueues[c][Before(c, j)]
      BY <1>1, <2>1, <2>3
    <3>2. Before(c, k) = Before(c, j)
      BY <2>1, <3>1 DEF QueueInv, InItsList
    <3>3. j \in Nat /\ k \in Nat
      BY <1>1
    <3>. QED
      BY <3>2, <3>3
  <2>. QED
    BY <2>2, <2>3
<1>5. \A c \in PRIORITIES : \A j \in DOMAIN frameQueues'[c] : frameQueues'[c][j] # f
  <2>. SUFFICES ASSUME NEW c \in PRIORITIES, NEW j \in DOMAIN frameQueues'[c],
                       frameQueues'[c][j] = f
                PROVE  FALSE
    OBVIOUS
  <2>1. /\ Before(c, j) \in DOMAIN frameQueues[c] /\ frameQueues[c][Before(c, j)] = f
        /\ j \in Nat /\ j >= 1
    BY <1>1
  <2>2. c = c0
    BY <2>1 DEF QueueInv, InItsList
  <2>3. Before(c, j) = 1
    BY <1>2, <2>1, <2>2 DEF QueueInv, InItsList
  <2>. QED
    BY <2>1, <2>2, <2>3
<1>6. f[2] < next[f[1]]
  BY <1>0, <1>2 DEF QueueInv, InItsList
<1>7. /\ DOMAIN taken' = 1 .. Len(taken) + 1 /\ Len(taken) \in Nat
      /\ DOMAIN taken = 1 .. Len(taken)
      /\ taken'[Len(taken) + 1] = f
      /\ \A a \in DOMAIN taken : taken'[a] = taken[a]
  BY <1>0, AppendProperties, LenProperties
<1>8. TakenIsGone'
  <2>. SUFFICES ASSUME NEW a \in DOMAIN taken'
                PROVE  /\ taken'[a][2] < next'[taken'[a][1]]
                       /\ \A c \in PRIORITIES : \A j \in DOMAIN frameQueues'[c] :
                            frameQueues'[c][j] # taken'[a]
    BY DEF TakenIsGone
  <2>1. CASE a \in DOMAIN taken
    <3>1. taken'[a] = taken[a]
      BY <1>7, <2>1
    <3>2. \A c \in PRIORITIES : \A k \in DOMAIN frameQueues[c] : frameQueues[c][k] # taken[a]
      BY <2>1 DEF QueueInv, TakenIsGone
    <3>3. taken[a][2] < next'[taken[a][1]]
      BY <1>0, <2>1 DEF QueueInv, TakenIsGone
    <3>. QED
      BY <1>1, <3>1, <3>2, <3>3
  <2>2. CASE a \notin DOMAIN taken
    <3>1. taken'[a] = f
      BY SMTT(40), <1>7, <2>2
    <3>. QED
      BY <1>0, <1>5, <1>6, <3>1
  <2>. QED
    BY <2>1, <2>2
<1>9. LaterIsBehind'
  <2>. SUFFICES ASSUME NEW c \in PRIORITIES, NEW j \in DOMAIN frameQueues'[c],
                       frameQueues'[c][j][1] \in Requests,
                       NEW l \in frameQueues'[c][j][2] + 1 .. next'[frameQueues'[c][j][1]] - 1
                PROVE  \E k \in DOMAIN frameQueues'[PriorityOf(<<frameQueues'[c][j][1], l>>)] :
                         /\ frameQueues'[PriorityOf(<<frameQueues'[c][j][1], l>>)][k]
                              = <<frameQueues'[c][j][1], l>>
                         /\ PriorityOf(<<frameQueues'[c][j][1], l>>) = c => j < k
    BY DEF LaterIsBehind, PriorityOf, TypeOf
  <2>. DEFINE b == Before(c, j)
              q == frameQueues[c][b][1]
              i == frameQueues[c][b][2]
              d == PriorityOf(<<q, l>>)
  <2>1. /\ b \in DOMAIN frameQueues[c] /\ frameQueues'[c][j] = frameQueues[c][b]
        /\ j \in Nat /\ j >= 1
    BY <1>1
  <2>2. frameQueues[c][b] \in Frame
    BY <1>0, <2>1
  <2>3. /\ q \in Producers /\ q \in Requests /\ frameQueues[c][b] = <<q, i>>
        /\ i \in 1 .. Len(Script[q]) /\ next[q] \in 1 .. Len(Script[q]) + 1
        /\ Len(Script[q]) \in Nat
    <3>1. q \in Producers /\ frameQueues[c][b] = <<q, i>> /\ i \in 1 .. Len(Script[q])
      BY <2>2, PriorityType
    <3>2. q \in Requests
      BY <2>1
    <3>3. Len(Script[q]) \in Nat /\ next[q] \in 1 .. Len(Script[q]) + 1
      BY <3>1, NextBounds
    <3>. QED
      BY <3>1, <3>2, <3>3
  <2>4. l \in i + 1 .. next[q] - 1
    BY <1>0, <2>1
  <2>5. l \in 1 .. Len(Script[q]) /\ i < l
    BY SMTT(40), <2>3, <2>4
  <2>6. d \in PRIORITIES /\ c <= d
    <3>1. <<q, l>> \in Frame
      BY SMTT(40), <2>3, <2>5 DEF Frame
    <3>2. PriorityOf(<<q, i>>) = c
      BY SMTT(40), <2>1, <2>3 DEF QueueInv, InItsList
    <3>3. PriorityOf(<<q, i>>) <= PriorityOf(<<q, l>>)
      BY SMTT(40), <2>3, <2>5 DEF Requests, Monotone
    <3>. QED
      BY <3>1, <3>2, <3>3, PriorityType
  <2>7. PICK k \in DOMAIN frameQueues[d] : frameQueues[d][k] = <<q, l>> /\ (d = c => b < k)
    BY <2>1, <2>3, <2>4 DEF QueueInv, LaterIsBehind
  <2>8. b \in Nat /\ b >= 1
    BY <2>1
  <2>9. ~(d = c0 /\ k = 1)
    <3>. SUFFICES ASSUME d = c0, k = 1 PROVE FALSE
      OBVIOUS
    <3>1. c = c0
      <4>1. CASE c < c0
        BY <1>0, <2>1, <4>1
      <4>2. CASE ~(c < c0)
        BY SMTT(40), <2>6, <4>2 DEF PRIORITIES
      <4>. QED
        BY <4>1, <4>2
    <3>. QED
      BY <2>7, <2>8, <3>1
  <2>10. PICK m \in DOMAIN frameQueues'[d] : Before(d, m) = k
    BY SMTT(40), <1>3, <2>6, <2>7, <2>9
  <2>11. frameQueues'[d][m] = <<q, l>> /\ m \in Nat
    BY <1>1, <2>6, <2>7, <2>10
  <2>12. d = c => j < m
    <3>. SUFFICES ASSUME d = c PROVE j < m
      OBVIOUS
    <3>1. m \in Nat /\ j \in Nat
      BY <2>1, <2>11
    <3>2. (IF c = c0 THEN j + 1 ELSE j) < (IF c = c0 THEN m + 1 ELSE m)
      BY <2>7, <2>10
    <3>. QED
      BY <3>1, <3>2
  <2>. QED
    BY <2>1, <2>11, <2>12
<1>10. NothingLost'
  <2>. SUFFICES ASSUME NEW q \in Producers, NEW i \in 1 .. next[q] - 1
                PROVE  \/ \E c \in PRIORITIES : \E j \in DOMAIN frameQueues'[c] :
                             frameQueues'[c][j] = <<q, i>>
                       \/ \E a \in DOMAIN taken' : taken'[a] = <<q, i>>
    BY <1>0 DEF NothingLost
  <2>1. CASE \E a \in DOMAIN taken : taken[a] = <<q, i>>
    BY <1>7, <2>1
  <2>2. ASSUME NEW c \in PRIORITIES, NEW k \in DOMAIN frameQueues[c],
               frameQueues[c][k] = <<q, i>>
        PROVE  \/ \E j \in DOMAIN frameQueues'[c] : frameQueues'[c][j] = <<q, i>>
               \/ \E a \in DOMAIN taken' : taken'[a] = <<q, i>>
    <3>1. CASE c = c0 /\ k = 1
      <4>1. Len(taken) + 1 \in DOMAIN taken' /\ taken'[Len(taken) + 1] = <<q, i>>
        BY <1>2, <1>7, <2>2, <3>1
      <4>. QED
        BY <4>1
    <3>2. CASE ~(c = c0 /\ k = 1)
      <4>1. PICK m \in DOMAIN frameQueues'[c] : Before(c, m) = k
        BY <1>3, <3>2
      <4>2. frameQueues'[c][m] = <<q, i>>
        BY <1>1, <2>2, <4>1
      <4>. QED
        BY <4>2
    <3>. QED
      BY <3>1, <3>2
  <2>. QED
    BY <2>1, <2>2 DEF QueueInv, NothingLost
\* An earlier frame of the request of f is not queued, so it was returned.
<1>11. ASSUME f[1] \in Requests, NEW i \in 1 .. f[2] - 1
       PROVE  \E a \in DOMAIN taken : taken[a] = <<f[1], i>>
  <2>1. /\ f[1] \in Producers /\ f[2] \in 1 .. Len(Script[f[1]]) /\ f = <<f[1], f[2]>>
        /\ Len(Script[f[1]]) \in Nat
    BY <1>0, PriorityType, ScriptAssumption
  <2>2. next[f[1]] \in Nat /\ i \in 1 .. next[f[1]] - 1 /\ f[2] \in i + 1 .. next[f[1]] - 1
    BY <1>0, <1>6, <1>11, <2>1
  <2>3. ASSUME NEW c \in PRIORITIES, NEW k \in DOMAIN frameQueues[c],
               frameQueues[c][k] = <<f[1], i>>
        PROVE  FALSE
    <3>1. PICK m \in DOMAIN frameQueues[c0] : frameQueues[c0][m] = f /\ (c0 = c => k < m)
      <4>1. \A l \in i + 1 .. next[f[1]] - 1 :
              \E m \in DOMAIN frameQueues[PriorityOf(<<f[1], l>>)] :
                /\ frameQueues[PriorityOf(<<f[1], l>>)][m] = <<f[1], l>>
                /\ PriorityOf(<<f[1], l>>) = c => k < m
        <5>1. ASSUME NEW g, frameQueues[c][k] = g, g[1] \in Requests
              PROVE  \A l \in g[2] + 1 .. next[g[1]] - 1 :
                       \E m \in DOMAIN frameQueues[PriorityOf(<<g[1], l>>)] :
                         /\ frameQueues[PriorityOf(<<g[1], l>>)][m] = <<g[1], l>>
                         /\ PriorityOf(<<g[1], l>>) = c => k < m
          BY <2>3, <5>1 DEF QueueInv, LaterIsBehind
        <5>2. <<f[1], i>>[1] = f[1] /\ <<f[1], i>>[2] = i
          OBVIOUS
        <5>. QED
          BY <1>11, <2>3, <5>1, <5>2
      <4>. QED
        BY <2>1, <2>2, <4>1
    <3>2. m = 1
      BY <1>0, <1>2, <3>1 DEF QueueInv, InItsList
    <3>3. k \in Nat /\ k >= 1
      BY <1>0, <2>3
    <3>4. c # c0
      BY <3>1, <3>2, <3>3
    <3>5. c <= c0
      <4>1. PriorityOf(<<f[1], i>>) = c
        BY <2>3 DEF QueueInv, InItsList
      <4>2. PriorityOf(<<f[1], i>>) <= PriorityOf(<<f[1], f[2]>>)
        BY <1>11, <2>1 DEF Requests, Monotone
      <4>. QED
        BY <2>1, <4>1, <4>2
    <3>6. c < c0
      BY <1>0, <3>4, <3>5 DEF PRIORITIES
    <3>. QED
      BY <1>0, <2>3, <3>6
  <2>. QED
    BY <2>1, <2>2, <2>3 DEF QueueInv, NothingLost
<1>12. RequestOrder'
  <2>. SUFFICES ASSUME NEW b \in DOMAIN taken', taken'[b][1] \in Requests,
                       NEW i \in 1 .. taken'[b][2] - 1
                PROVE  \E a \in 1 .. b - 1 : taken'[a] = <<taken'[b][1], i>>
    BY DEF RequestOrder
  <2>1. CASE b \in DOMAIN taken
    <3>1. taken'[b] = taken[b]
      BY <1>7, <2>1
    <3>2. PICK a \in 1 .. b - 1 : taken[a] = <<taken[b][1], i>>
      BY <2>1, <3>1 DEF QueueInv, RequestOrder
    <3>3. a \in DOMAIN taken
      BY <1>7, <2>1
    <3>. QED
      BY <1>7, <3>1, <3>2, <3>3
  <2>2. CASE b \notin DOMAIN taken
    <3>1. b = Len(taken) + 1 /\ taken'[b] = f
      BY <1>7, <2>2
    <3>2. PICK a \in DOMAIN taken : taken[a] = <<f[1], i>>
      BY <1>11, <3>1
    <3>3. a \in 1 .. b - 1 /\ taken'[a] = taken[a]
      BY <1>7, <3>1
    <3>. QED
      BY <3>1, <3>2, <3>3
  <2>. QED
    BY <2>1, <2>2
<1>. QED
  BY <1>4, <1>8, <1>9, <1>10, <1>12

\* What leaves was queued, and so was not returned before.
LEMMA TakenOnceStep ==
  ASSUME QueueInv,
         \/ \E w \in Writers : RemoveFrame(w)
         \/ UNCHANGED taken
  PROVE  TakenOnce'
<1>1. CASE UNCHANGED taken
  BY <1>1 DEF QueueInv, TakenOnce
<1>2. ASSUME NEW w \in Writers, RemoveFrame(w)
      PROVE  TakenOnce'
  <2>. DEFINE f == hand[w]
              c == PriorityOf(f)
  <2>1. /\ taken \in Seq(Frame) /\ f \in Frame /\ c \in PRIORITIES
        /\ frameQueues[c] \in Seq(Frame) /\ taken' = Append(taken, f)
    BY <1>2, RemovedList DEF QueueInv, TypeOK, RemoveFrame
  <2>2. 1 \in DOMAIN frameQueues[c] /\ frameQueues[c][1] = f
    BY <1>2, <2>1, RemovePlaces
  <2>3. \A a \in DOMAIN taken : taken[a] # f
    BY <2>1, <2>2 DEF QueueInv, TakenIsGone
  <2>4. \A a \in DOMAIN taken' : \/ a \in DOMAIN taken /\ taken'[a] = taken[a]
                                 \/ a = Len(taken) + 1 /\ taken'[a] = f
    BY <2>1
  <2>. QED
    BY <2>3, <2>4 DEF QueueInv, TakenOnce
<1>. QED
  BY <1>1, <1>2

-----------------------------------------------------------------------------
(* The inductive step.                                                     *)

LEMMA NextQueueInv == QueueInv /\ [Next]_vars => QueueInv'
<1>. SUFFICES ASSUME QueueInv, [Next]_vars PROVE QueueInv'
  OBVIOUS
<1>1. CASE Next
  <2>1. TypeOK'
    BY <1>1, QueueTypeStep, WindowTypeStep, WriterTypeStep DEF TypeOK
  <2>2. LockHeld' /\ HandIsHead'
    BY <1>1, LockHeldStep, HandIsHeadStep
  <2>3. \/ \E p \in Producers : Enqueue(p)
        \/ \E w \in Writers : RemoveFrame(w)
        \/ UNCHANGED <<frameQueues, next, taken>>
    BY <1>1 DEF Next, Writer, Reader, Complete, ConnectionLost, CheckCancelled, WaitReturns,
       EnterDequeue, FindMissingWindow, AddMissingWindow, FindFrame, DequeueNull,
       ResetWaitAny, WriteFrame, ProcessSentFrame, DecreaseWindowSize, ReadUpdate,
       ReaderAddsWindow, IncreaseWindowSize, FlowControlWindowSizeIncreased,
       queueVars, writerVars
  <2>4. InItsList' /\ TakenIsGone' /\ NothingLost' /\ LaterIsBehind' /\ RequestOrder'
    BY <2>3, EnqueueStep, RemoveStep, QuietStep
  <2>5. TakenOnce'
    BY <2>3, TakenOnceStep DEF Enqueue
  <2>. QED
    BY <2>1, <2>2, <2>4, <2>5 DEF QueueInv
<1>2. CASE UNCHANGED vars
  <2>1. TypeOK'
    BY <1>2 DEF QueueInv, TypeOK, vars, queueVars, writerVars
  <2>2. LockHeld' /\ HandIsHead'
    BY <1>2 DEF QueueInv, LockHeld, HandIsHead, vars, queueVars, writerVars
  <2>3. InItsList' /\ TakenIsGone' /\ NothingLost' /\ LaterIsBehind' /\ RequestOrder'
    BY <1>2, QuietStep DEF vars, queueVars
  <2>4. TakenOnce'
    BY <1>2, TakenOnceStep DEF vars
  <2>. QED
    BY <2>1, <2>2, <2>3, <2>4 DEF QueueInv
<1>. QED
  BY <1>1, <1>2

-----------------------------------------------------------------------------
(* Counting.                                                               *)

\* A set all of whose elements are equal counts 1, or 0 when it is empty.
LEMMA AtMostOne ==
  ASSUME NEW S, \A x, y \in S : x = y
  PROVE  Cardinality(S) = IF S = {} THEN 0 ELSE 1
<1>1. CASE S = {}
  BY <1>1, FS_EmptySet
<1>2. CASE S # {}
  <2>1. PICK x \in S : TRUE
    BY <1>2
  <2>2. S = {x}
    BY <2>1
  <2>. QED
    BY <1>2, <2>2, FS_Singleton
<1>. QED
  BY <1>1, <1>2

\* The places of a frame are counted by what QueueInv says of them.
LEMMA CountedOnce == QueueInv => ExactlyOnce
<1>. SUFFICES ASSUME QueueInv, NEW p \in Producers, NEW i \in 1 .. Len(Script[p])
              PROVE
    Cardinality(UNION {{<<c, k>> : k \in {j \in DOMAIN frameQueues[c] :
                          frameQueues[c][j] = <<p, i>>}} : c \in PRIORITIES})
      + Cardinality({k \in DOMAIN taken : taken[k] = <<p, i>>})
    = IF i < next[p] THEN 1 ELSE 0
  BY DEF ExactlyOnce
<1>. DEFINE f == <<p, i>>
            here(c) == {<<c, k>> : k \in {j \in DOMAIN frameQueues[c] : frameQueues[c][j] = f}}
            inLists == UNION {here(c) : c \in PRIORITIES}
            inTaken == {k \in DOMAIN taken : taken[k] = f}
<1>0. i \in Nat /\ i >= 1 /\ next[p] \in Nat /\ f[1] = p /\ f[2] = i
  BY NextBounds
<1>1. \A x : x \in inLists <=>
        \E c \in PRIORITIES : \E k \in DOMAIN frameQueues[c] :
          frameQueues[c][k] = f /\ x = <<c, k>>
  OBVIOUS
<1>2. Cardinality(inLists) = IF inLists = {} THEN 0 ELSE 1
  <2>1. ASSUME NEW x \in inLists, NEW y \in inLists
        PROVE  x = y
    <3>1. PICK c \in PRIORITIES :
            \E k \in DOMAIN frameQueues[c] : frameQueues[c][k] = f /\ x = <<c, k>>
      BY <1>1
    <3>2. PICK d \in PRIORITIES :
            \E k \in DOMAIN frameQueues[d] : frameQueues[d][k] = f /\ y = <<d, k>>
      BY <1>1
    <3>3. c = d
      BY <3>1, <3>2 DEF QueueInv, InItsList
    <3>. QED
      BY <3>1, <3>2, <3>3 DEF QueueInv, InItsList
  <2>. HIDE DEF inLists
  <2>. QED
    BY <2>1, AtMostOne
<1>3. Cardinality(inTaken) = IF inTaken = {} THEN 0 ELSE 1
  <2>1. \A x, y \in inTaken : x = y
    BY DEF QueueInv, TakenOnce
  <2>. HIDE DEF inTaken
  <2>. QED
    BY <2>1, AtMostOne
<1>4. inLists = {} \/ inTaken = {}
  BY <1>1 DEF QueueInv, TakenIsGone
<1>5. i < next[p] => inLists # {} \/ inTaken # {}
  <2>. SUFFICES ASSUME i < next[p] PROVE inLists # {} \/ inTaken # {}
    OBVIOUS
  <2>1. i \in 1 .. next[p] - 1
    BY <1>0
  <2>2. \/ \E c \in PRIORITIES : \E j \in DOMAIN frameQueues[c] : frameQueues[c][j] = f
        \/ \E a \in DOMAIN taken : taken[a] = f
    BY <2>1 DEF QueueInv, NothingLost
  <2>. QED
    BY <1>1, <2>2
<1>6. ~(i < next[p]) => inLists = {} /\ inTaken = {}
  <2>1. inLists # {} => i < next[p]
    BY <1>0, <1>1 DEF QueueInv, InItsList
  <2>2. inTaken # {} => i < next[p]
    BY <1>0 DEF QueueInv, TakenIsGone
  <2>. QED
    BY <2>1, <2>2
<1>. HIDE DEF inLists, inTaken
<1>7. Cardinality(inLists) + Cardinality(inTaken) = IF i < next[p] THEN 1 ELSE 0
  BY <1>2, <1>3, <1>4, <1>5, <1>6
<1>. QED
  BY <1>7 DEF inLists, inTaken

-----------------------------------------------------------------------------
(* The refinement.                                                         *)

\* What was delivered of a request is a prefix of its script, and is what taken
\* has of it.
PrefixDelivered ==
  \A p \in Requests :
    /\ \A k \in 1 .. Len(delivered[p]) : delivered[p][k] = k
    /\ \A i \in Nat : (\E a \in DOMAIN taken : taken[a] = <<p, i>>)
                       <=> i \in 1 .. Len(delivered[p])

LEMMA RequestsAreProducers == Requests \subseteq Producers
BY DEF Requests

\* A frame of a request that leaves is the next one of its channel.
LEMMA RemovedIsNext ==
  ASSUME QueueInv, QueueInv', PrefixDelivered, NEW w \in Writers, RemoveFrame(w),
         hand[w][1] \in Requests
  PROVE  LET p == hand[w][1]
         IN  /\ hand[w][2] = Len(delivered[p]) + 1
             /\ Len(delivered[p]) < next[p] - 1
             /\ hand[w] = <<p, Len(delivered[p]) + 1>>
<1>. DEFINE p == hand[w][1]
            i == hand[w][2]
            n == Len(delivered[p])
<1>1. /\ p \in Producers /\ i \in Nat /\ i >= 1 /\ hand[w] = <<p, i>>
      /\ Len(Script[p]) \in Nat /\ next[p] \in Nat
  <2>1. hand[w] \in Frame
    BY RemovedList
  <2>2. p \in Producers /\ i \in 1 .. Len(Script[p]) /\ hand[w] = <<p, i>>
    BY <2>1, PriorityType
  <2>3. Len(Script[p]) \in Nat /\ next[p] \in 1 .. Len(Script[p]) + 1
    BY <2>2, NextBounds
  <2>. QED
    BY <2>2, <2>3
<1>2. n \in Nat
  BY <1>1 DEF QueueInv, TypeOK
<1>3. taken \in Seq(Frame) /\ taken' = Append(taken, hand[w])
  BY DEF QueueInv, TypeOK, RemoveFrame
<1>4. \E c \in PRIORITIES : \E j \in DOMAIN frameQueues[c] : frameQueues[c][j] = hand[w]
  <2>1. /\ PriorityOf(hand[w]) \in PRIORITIES
        /\ frameQueues[PriorityOf(hand[w])] \in Seq(Frame)
        /\ frameQueues[PriorityOf(hand[w])] # <<>>
        /\ hand[w] = Head(frameQueues[PriorityOf(hand[w])])
    BY RemovedList
  <2>2. 1 \in DOMAIN frameQueues[PriorityOf(hand[w])]
    BY <2>1
  <2>. QED
    BY <2>1, <2>2
<1>5. i < next[p]
  BY <1>4 DEF QueueInv, InItsList
<1>6. ~ \E a \in DOMAIN taken : taken[a] = hand[w]
  BY <1>4 DEF QueueInv, TakenIsGone
<1>7. i \notin 1 .. n
  BY <1>1, <1>6 DEF PrefixDelivered
<1>8. ASSUME NEW k \in 1 .. i - 1
      PROVE  k \in 1 .. n
  <2>1. /\ Len(taken) + 1 \in DOMAIN taken' /\ taken'[Len(taken) + 1] = hand[w]
        /\ \A a \in 1 .. Len(taken) : a \in DOMAIN taken /\ taken'[a] = taken[a]
        /\ Len(taken) \in Nat
    BY <1>1, <1>3
  <2>2. \A b \in DOMAIN taken' : taken'[b][1] \in Requests =>
          \A l \in 1 .. taken'[b][2] - 1 :
            \E a \in 1 .. b - 1 : taken'[a] = <<taken'[b][1], l>>
    BY DEF QueueInv, RequestOrder
  <2>. DEFINE b == Len(taken) + 1
  <2>3. b \in DOMAIN taken' /\ taken'[b][1] \in Requests /\ k \in 1 .. taken'[b][2] - 1
    BY <2>1
  <2>. HIDE DEF b
  <2>4. \E a \in 1 .. b - 1 : taken'[a] = <<taken'[b][1], k>>
    BY <2>2, <2>3
  <2>5. PICK a \in 1 .. Len(taken) : taken'[a] = <<p, k>>
    BY <2>1, <2>4 DEF b
  <2>6. k \in Nat /\ a \in DOMAIN taken /\ taken[a] = <<p, k>>
    BY <1>1, <2>1, <2>5
  <2>. QED
    BY <2>6 DEF PrefixDelivered
<1>9. i = n + 1
  <2>1. i > n
    BY <1>1, <1>2, <1>7
  <2>2. i - 1 <= n
    BY <1>1, <1>2, <1>8
  <2>. QED
    BY <1>1, <1>2, <2>1, <2>2
<1>. QED
  BY <1>1, <1>2, <1>5, <1>9

LEMMA InitPrefix == Init => PrefixDelivered
BY RequestsAreProducers DEF Init, PrefixDelivered

\* Which steps enqueue, which take, and which do neither.
LEMMA StepKinds ==
  ASSUME [Next]_vars
  PROVE  \/ \E p \in Producers : Enqueue(p)
         \/ \E w \in Writers : RemoveFrame(w)
         \/ UNCHANGED <<next, taken, delivered>>
BY DEF Next, Writer, Reader, Complete, ConnectionLost, CheckCancelled, WaitReturns,
   EnterDequeue, FindMissingWindow, AddMissingWindow, FindFrame, DequeueNull,
   ResetWaitAny, WriteFrame, ProcessSentFrame, DecreaseWindowSize, ReadUpdate,
   ReaderAddsWindow, IncreaseWindowSize, FlowControlWindowSizeIncreased,
   queueVars, writerVars, vars

\* What RemoveFrame does to the history of each request.
LEMMA RemovedDelivers ==
  ASSUME QueueInv, NEW w \in Writers, RemoveFrame(w)
  PROVE  /\ \A q \in Requests : q # hand[w][1] => delivered'[q] = delivered[q]
         /\ hand[w][1] \in Requests =>
              delivered'[hand[w][1]] = Append(delivered[hand[w][1]], hand[w][2])
<1>1. delivered' = [delivered EXCEPT ![hand[w][1]] = Append(@, hand[w][2])]
  BY DEF RemoveFrame
<1>2. delivered \in [Producers -> Seq(Nat)]
  BY DEF QueueInv, TypeOK
<1>. QED
  BY <1>1, <1>2, RequestsAreProducers

LEMMA PrefixStep ==
  ASSUME QueueInv, QueueInv', PrefixDelivered, [Next]_vars
  PROVE  PrefixDelivered'
<1>1. ASSUME NEW w \in Writers, RemoveFrame(w)
      PROVE  PrefixDelivered'
  <2>1. /\ taken \in Seq(Frame) /\ taken' = Append(taken, hand[w]) /\ hand[w] \in Frame
    BY <1>1, RemovedList DEF QueueInv, TypeOK, RemoveFrame
  <2>2. \A f : (\E a \in DOMAIN taken' : taken'[a] = f)
                 <=> f = hand[w] \/ \E a \in DOMAIN taken : taken[a] = f
    <3>1. /\ Len(taken) \in Nat /\ DOMAIN taken = 1 .. Len(taken)
          /\ DOMAIN taken' = 1 .. Len(taken) + 1
          /\ taken'[Len(taken) + 1] = hand[w]
          /\ \A a \in 1 .. Len(taken) : taken'[a] = taken[a]
      BY <2>1
    <3>. QED
      BY <3>1
  <2>3. ASSUME NEW q \in Requests, q # hand[w][1]
        PROVE  /\ delivered'[q] = delivered[q]
               /\ \A i \in Nat : <<q, i>> # hand[w]
    BY <1>1, <2>3, RemovedDelivers
  <2>4. ASSUME hand[w][1] \in Requests
        PROVE  LET p == hand[w][1]
                   n == Len(delivered[p])
               IN  /\ n \in Nat /\ Len(delivered'[p]) = n + 1
                   /\ \A k \in 1 .. n + 1 : delivered'[p][k] = k
                   /\ \A i \in Nat : <<p, i>> = hand[w] <=> i = n + 1
    <3>. DEFINE p == hand[w][1]
                n == Len(delivered[p])
    <3>1. hand[w][2] = n + 1 /\ hand[w] = <<p, n + 1>>
      BY <1>1, <2>4, RemovedIsNext
    <3>2. delivered[p] \in Seq(Nat) /\ n \in Nat
      BY <2>4, RequestsAreProducers DEF QueueInv, TypeOK
    <3>3. delivered'[p] = Append(delivered[p], n + 1)
      BY <1>1, <2>4, <3>1, RemovedDelivers
    <3>4. \A k \in 1 .. n : delivered[p][k] = k
      BY <2>4 DEF PrefixDelivered
    <3>. HIDE DEF n
    <3>5. Len(delivered'[p]) = n + 1 /\ \A k \in 1 .. n + 1 : delivered'[p][k] = k
      BY <3>2, <3>3, <3>4 DEF n
    <3>6. \A i \in Nat : <<p, i>> = hand[w] <=> i = n + 1
      BY <3>1
    <3>. QED
      BY <3>2, <3>5, <3>6 DEF n
  <2>5. ASSUME NEW q \in Requests
        PROVE  /\ \A k \in 1 .. Len(delivered'[q]) : delivered'[q][k] = k
               /\ \A i \in Nat : (\E a \in DOMAIN taken' : taken'[a] = <<q, i>>)
                                  <=> i \in 1 .. Len(delivered'[q])
    <3>1. CASE q # hand[w][1]
      BY <2>2, <2>3, <3>1 DEF PrefixDelivered
    <3>2. CASE q = hand[w][1]
      <4>. DEFINE n == Len(delivered[q])
      <4>1. /\ n \in Nat /\ Len(delivered'[q]) = n + 1
            /\ \A k \in 1 .. n + 1 : delivered'[q][k] = k
            /\ \A i \in Nat : <<q, i>> = hand[w] <=> i = n + 1
        BY <2>4, <3>2
      <4>2. \A i \in Nat : (\E a \in DOMAIN taken : taken[a] = <<q, i>>) <=> i \in 1 .. n
        BY DEF PrefixDelivered
      <4>. HIDE DEF n
      <4>3. ASSUME NEW i \in Nat
            PROVE  (\E a \in DOMAIN taken' : taken'[a] = <<q, i>>)
                      <=> i \in 1 .. Len(delivered'[q])
        <5>1. (\E a \in DOMAIN taken' : taken'[a] = <<q, i>>) <=> i = n + 1 \/ i \in 1 .. n
          BY <2>2, <4>1, <4>2
        <5>. QED
          BY <4>1, <5>1
      <4>. QED
        BY <4>1, <4>3
    <3>. QED
      BY <3>1, <3>2
  <2>. QED
    BY <2>5 DEF PrefixDelivered
<1>2. ASSUME UNCHANGED <<taken, delivered>>
      PROVE  PrefixDelivered'
  BY <1>2 DEF PrefixDelivered
<1>. QED
  BY <1>1, <1>2, StepKinds DEF Enqueue

LEMMA InitRefines == Init => Channels!Init
BY RequestsAreProducers DEF Init, Channels!Init

\* Enqueue of a request is Put, the removal of one of its frames is Get, and
\* whatever else happens is none of its business.
LEMMA StepRefines ==
  ASSUME QueueInv, QueueInv', PrefixDelivered, [Next]_vars
  PROVE  [Channels!Next]_<<[p \in Requests |-> next[p] - 1],
                           [p \in Requests |-> delivered[p]]>>
<1>. DEFINE put == [p \in Requests |-> next[p] - 1]
            got == [p \in Requests |-> delivered[p]]
<1>1. ASSUME NEW p \in Producers, Enqueue(p)
      PROVE  Channels!Next \/ (put' = put /\ got' = got)
  <2>1. /\ next[p] <= Len(Script[p]) /\ next' = [next EXCEPT ![p] = @ + 1]
        /\ delivered' = delivered
    BY <1>1 DEF Enqueue
  <2>2. next \in [Producers -> Nat] /\ Len(Script[p]) \in Nat
    BY NextBounds DEF QueueInv, TypeOK
  <2>3. CASE p \in Requests
    <3>1. put[p] < [q \in Requests |-> Len(Script[q])][p]
      BY <2>1, <2>2, <2>3
    <3>2. put' = [put EXCEPT ![p] = @ + 1]
      <4>1. next'[p] - 1 = (next[p] - 1) + 1
        BY <2>1, <2>2
      <4>2. \A q \in Requests : q # p => next'[q] - 1 = next[q] - 1
        BY <2>1, <2>2, RequestsAreProducers
      <4>. QED
        BY <2>3, <4>1, <4>2
    <3>3. Channels!Put(p)
      BY <2>1, <3>1, <3>2 DEF Channels!Put
    <3>. QED
      BY <2>3, <3>3 DEF Channels!Next
  <2>4. CASE p \notin Requests
    BY <2>1, <2>2, <2>4, RequestsAreProducers
  <2>. QED
    BY <2>3, <2>4
<1>2. ASSUME NEW w \in Writers, RemoveFrame(w)
      PROVE  Channels!Next \/ (put' = put /\ got' = got)
  <2>1. next' = next
    BY <1>2 DEF RemoveFrame
  <2>2. ASSUME NEW p \in Requests, hand[w][1] = p
        PROVE  Channels!Next
    <3>1. Len(got[p]) < put[p]
      BY <1>2, <2>2, RemovedIsNext
    <3>2. got' = [got EXCEPT ![p] = Append(@, Len(@) + 1)]
      <4>1. delivered'[p] = Append(delivered[p], Len(delivered[p]) + 1)
        BY <1>2, <2>2, RemovedIsNext, RemovedDelivers
      <4>2. \A q \in Requests : q # p => delivered'[q] = delivered[q]
        BY <1>2, <2>2, RemovedDelivers
      <4>. QED
        BY <2>2, <4>1, <4>2
    <3>3. Channels!Get(p)
      BY <2>1, <3>1, <3>2 DEF Channels!Get
    <3>. QED
      BY <3>3 DEF Channels!Next
  <2>3. ASSUME hand[w][1] \notin Requests
        PROVE  put' = put /\ got' = got
    <3>1. \A q \in Requests : delivered'[q] = delivered[q]
      BY <1>2, <2>3, RemovedDelivers
    <3>. QED
      BY <2>1, <3>1
  <2>. QED
    BY <2>2, <2>3
<1>3. ASSUME UNCHANGED <<next, taken, delivered>>
      PROVE  put' = put /\ got' = got
  BY <1>3
<1>. QED
  BY <1>1, <1>2, <1>3, StepKinds

-----------------------------------------------------------------------------
(* The theorems.                                                           *)

\* The inductive invariant holds in every reachable state of the send path.
THEOREM QueueInvariant == Spec => []QueueInv
BY InitQueueInv, NextQueueInv, PTL DEF Spec

\* The lists, locks, writers, windows and histories keep their types.
THEOREM TypeCorrectness == Spec => []TypeOK
BY QueueInvariant, PTL DEF QueueInv

\* A frame enqueued is at one place of one list, or was returned by Dequeue
\* once, for any number of tasks on either side.
THEOREM FramesLeaveOnce == Spec => []ExactlyOnce
BY QueueInvariant, CountedOnce, PTL

\* Dequeue returns the frames of a request in the order Send queued them and
\* without a gap, for any number of requests, frames, Write tasks and window updates.
THEOREM RequestsInOrder == Spec => []RequestOrder
BY QueueInvariant, PTL DEF QueueInv

\* Dequeue never returns a frame while a more urgent one is queued.
THEOREM UrgentFramesFirst == Spec => UrgentFirst
<1>1. QueueInv /\ [Next]_vars =>
        [\A w \in Writers : RemoveFrame(w) =>
           \A c \in PRIORITIES : c < PriorityOf(hand[w]) => frameQueues[c] = <<>>]_vars
  BY RemovedList
<1>. QED
  BY <1>1, QueueInvariant, PTL DEF Spec, UrgentFirst

\* To every request the queue, its Write tasks and the windows are a first-in
\* first-out channel of its own: FrameQueue implements RequestChannels.
THEOREM QueueImplementsChannels == Spec => ImplementsChannels
<1>1. Spec => []PrefixDelivered
  <2>1. QueueInv /\ QueueInv' /\ PrefixDelivered /\ [Next]_vars => PrefixDelivered'
    BY PrefixStep
  <2>. QED
    BY <2>1, InitPrefix, QueueInvariant, PTL DEF Spec
<1>2. QueueInv /\ QueueInv' /\ PrefixDelivered /\ [Next]_vars
        => [Channels!Next]_<<[p \in Requests |-> next[p] - 1],
                             [p \in Requests |-> delivered[p]]>>
  BY StepRefines
<1>. QED
  BY <1>1, <1>2, InitRefines, QueueInvariant, PTL DEF Spec, ImplementsChannels, Channels!Spec
=============================================================================
