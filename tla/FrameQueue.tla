----------------------------- MODULE FrameQueue -----------------------------
(***************************************************************************)
(* The send path of a connection: FrameQueue, the tasks that enqueue into  *)
(* it, the Write tasks of Http2Connection that consume it, and the Read    *)
(* task applying the WINDOW_UPDATE frames of the server.                   *)
(*                                                                         *)
(* A producer is one sequential task (a call of Send, the Read task with   *)
(* its acknowledgements): it enqueues the frames of its script in order,   *)
(* awaiting each Enqueue.  A frame is the pair of its producer and of its  *)
(* place in the script, as List.Remove tells frames apart by reference.    *)
(*                                                                         *)
(* A step is what one task does between two points where another task can  *)
(* see or change what it touches: Enqueue is one step, as it only runs     *)
(* under semaphoreFrames; GetConsumingEnumerable and Write are a step per  *)
(* shared read or write, and so is IncreaseWindowSize.                     *)
(***************************************************************************)
EXTENDS Frames, FlowControl, Sequences, FiniteSets, SequencesExt

CONSTANTS Producers,  \* the tasks that enqueue frames
          Script,     \* Script[p]: the frames p enqueues, in order
          Writers,    \* the Write tasks consuming the queue
          Updates,    \* the WINDOW_UPDATE frames the server sends, in order
          Free        \* semaphoreFrames or lockWrite is not held

FrameRecord == [type : FrameTypes, stream : Nat, length : UInt,
                endHeaders : BOOLEAN, endStream : BOOLEAN]

ASSUME ScriptAssumption ==
  /\ Script \in [Producers -> Seq(FrameRecord)]
  /\ Updates \in Seq([stream : Nat, increment : UInt])
  /\ Free \notin Writers

VARIABLES
  frameQueues,      \* the list of each priority
  semaphoreFrames,  \* the writer inside Dequeue, or Free
  waitAny,          \* the manual reset event is set
  cancelled,        \* cancelTokenSource was cancelled by Complete
  next,             \* next[p]: the place in its script of p's next frame
  pc,               \* where each writer is
  hand,             \* the frame the writer was given by the enumerator
  local,            \* the key it is adding, or the window it has read
  lockWrite,        \* the writer that holds it, or Free
  connected,        \* clientStream accepts writes
  wire,             \* the frames written to clientStream, in order
  windowSizes,      \* the dictionary of FlowControlManager
  reader,           \* the Read task: where it is, its next update, its read
  taken,            \* history: the frames in the order Dequeue returned them
  delivered         \* history: delivered[p], the places of those of p

queueVars  == <<frameQueues, semaphoreFrames, waitAny, cancelled, next>>
writerVars == <<pc, hand, local, lockWrite, connected, wire>>
vars == <<queueVars, writerVars, windowSizes, reader, taken, delivered>>

Frame == UNION {{p} \X (1 .. Len(Script[p])) : p \in Producers}

TypeOf(f)   == Script[f[1]][f[2]].type
StreamOf(f) == Script[f[1]][f[2]].stream
LengthOf(f) == Script[f[1]][f[2]].length
PriorityOf(f) == GetPriority(TypeOf(f))

NoFrame == <<>>
ConnectionId == 0

Init ==
  /\ frameQueues = [c \in PRIORITIES |-> <<>>]
  /\ semaphoreFrames = Free
  /\ waitAny = FALSE
  /\ cancelled = FALSE
  /\ next = [p \in Producers |-> 1]
  /\ pc = [w \in Writers |-> "check"]
  /\ hand = [w \in Writers |-> NoFrame]
  /\ local = [w \in Writers |-> 0]
  /\ lockWrite = Free
  /\ connected = TRUE
  /\ wire = <<>>
  /\ windowSizes = [s \in {ConnectionId} |-> DefaultWindowSize]
  /\ reader = [at |-> "idle", done |-> 0, current |-> 0]
  /\ taken = <<>>
  /\ delivered = [p \in Producers |-> <<>>]

-----------------------------------------------------------------------------
(* The producers, Complete, and the loss of the connection.                *)

Enqueue(p) ==
  /\ next[p] <= Len(Script[p])
  /\ semaphoreFrames = Free
  /\ LET f == <<p, next[p]>>
     IN  frameQueues' = [frameQueues EXCEPT ![PriorityOf(f)] = Append(@, f)]
  /\ waitAny' = TRUE
  /\ next' = [next EXCEPT ![p] = @ + 1]
  /\ UNCHANGED <<semaphoreFrames, cancelled, writerVars, windowSizes, reader,
                 taken, delivered>>

Complete ==
  /\ ~cancelled
  /\ cancelled' = TRUE
  /\ UNCHANGED <<frameQueues, semaphoreFrames, waitAny, next, writerVars,
                 windowSizes, reader, taken, delivered>>

ConnectionLost ==
  /\ connected
  /\ connected' = FALSE
  /\ UNCHANGED <<queueVars, pc, hand, local, lockWrite, wire, windowSizes, reader,
                 taken, delivered>>

-----------------------------------------------------------------------------
(* Dequeue: what the scan of the lists looks at and returns.               *)

\* Mutant of Skipped: Take(frameIndex + 1), and no test of the type.
SkippedByItself(frames, i) ==
  TypeOf(frames[i]) \in {"Headers", "Continuation"}
    /\ \E j \in 1 .. i : StreamOf(frames[j]) = StreamOf(frames[i])

\* The frame at place i of a list is passed over.
Skipped(frames, i) ==
  LET f == frames[i]
  IN  \/ /\ TypeOf(f) = "Data"
         /\ WindowTooSmall(windowSizes, StreamOf(f), LengthOf(f))
      \/ /\ TypeOf(f) \in {"Headers", "Continuation"}
         /\ \E j \in 1 .. i - 1 : /\ StreamOf(frames[j]) = StreamOf(f)
                                  /\ TypeOf(frames[j]) = "Data"

Sendable(c) == {i \in 1 .. Len(frameQueues[c]) : ~Skipped(frameQueues[c], i)}

\* c and i are the list and the place of the frame Dequeue returns.
IsResult(c, i) ==
  /\ i \in Sendable(c)
  /\ \A j \in Sendable(c) : i <= j
  /\ \A d \in PRIORITIES : d < c => Sendable(d) = {}

\* The DATA frames whose windows the scan asks for.
Examined ==
  UNION {{frameQueues[c][i] : i \in {k \in 1 .. Len(frameQueues[c]) :
                                       \A j \in Sendable(c) : k <= j}} :
         c \in {d \in PRIORITIES :
                  \A e \in PRIORITIES : e < d => Sendable(e) = {}}}

LookedUp ==
  UNION {{ConnectionId, StreamOf(f)} : f \in {g \in Examined : TypeOf(g) = "Data"}}

MissingKeys == LookedUp \ DOMAIN windowSizes

-----------------------------------------------------------------------------
(* A Write task: GetConsumingEnumerable, then the body of its loop.        *)

At(w, place) == pc[w] = place
Goto(w, place) == pc' = [pc EXCEPT ![w] = place]

CheckCancelled(w) ==
  /\ At(w, "check")
  /\ Goto(w, IF cancelled THEN "done" ELSE "wait")
  /\ UNCHANGED <<queueVars, hand, local, lockWrite, connected, wire,
                 windowSizes, reader, taken, delivered>>

\* Mutant of WaitReturns: an auto-reset event.
WaitReturnsAndResets(w) ==
  /\ At(w, "wait")
  /\ \/ waitAny /\ Goto(w, "dequeue") /\ waitAny' = FALSE
     \/ cancelled /\ Goto(w, "done") /\ UNCHANGED waitAny
  /\ UNCHANGED <<frameQueues, semaphoreFrames, cancelled, next, hand, local,
                 lockWrite, connected, wire, windowSizes, reader, taken, delivered>>

\* Mutant of WaitReturns: waitAny.Wait() without the token.
WaitReturnsOnlyWhenSet(w) ==
  /\ At(w, "wait")
  /\ waitAny
  /\ Goto(w, "dequeue")
  /\ UNCHANGED <<queueVars, hand, local, lockWrite, connected, wire,
                 windowSizes, reader, taken, delivered>>

\* waitAny.Wait(token) returns when the event is set, and throws when the
\* token is cancelled: the exception ends the Write task.
WaitReturns(w) ==
  /\ At(w, "wait")
  /\ \/ waitAny /\ Goto(w, "dequeue")
     \/ cancelled /\ Goto(w, "done")
  /\ UNCHANGED <<queueVars, hand, local, lockWrite, connected, wire,
                 windowSizes, reader, taken, delivered>>

\* Mutant of EnterDequeue: the lists are scanned without the lock.
EnterDequeueUnlocked(w) ==
  /\ At(w, "dequeue")
  /\ Goto(w, "scan")
  /\ UNCHANGED <<queueVars, hand, local, lockWrite, connected, wire,
                 windowSizes, reader, taken, delivered>>

EnterDequeue(w) ==
  /\ At(w, "dequeue")
  /\ semaphoreFrames = Free
  /\ semaphoreFrames' = w
  /\ Goto(w, "scan")
  /\ UNCHANGED <<frameQueues, waitAny, cancelled, next, hand, local, lockWrite,
                 connected, wire, windowSizes, reader, taken, delivered>>

\* GetWindowSize, called by the scan, finds a key missing ...
FindMissingWindow(w) ==
  /\ At(w, "scan")
  /\ \E id \in MissingKeys :
       /\ ConnectionId \in MissingKeys => id = ConnectionId
       /\ local' = [local EXCEPT ![w] = id]
  /\ Goto(w, "add")
  /\ UNCHANGED <<queueVars, hand, lockWrite, connected, wire, windowSizes,
                 reader, taken, delivered>>

\* ... and adds it, unless the reader has in the meantime: then Add throws,
\* and nothing releases semaphoreFrames.
AddMissingWindow(w) ==
  /\ At(w, "add")
  /\ IF local[w] \in DOMAIN windowSizes
     THEN Goto(w, "faulted") /\ UNCHANGED windowSizes
     ELSE Goto(w, "scan") /\ windowSizes' = AddWindow(windowSizes, local[w])
  /\ UNCHANGED <<queueVars, hand, local, lockWrite, connected, wire, reader,
                 taken, delivered>>

\* The scan has every window it asks for: it finds a frame, which is then
\* removed from its list ...
FindFrame(w) ==
  /\ At(w, "scan")
  /\ MissingKeys = {}
  /\ \E c \in PRIORITIES : \E i \in Sendable(c) :
       /\ IsResult(c, i)
       /\ hand' = [hand EXCEPT ![w] = frameQueues[c][i]]
  /\ Goto(w, "remove")
  /\ UNCHANGED <<queueVars, local, lockWrite, connected, wire, windowSizes,
                 reader, taken, delivered>>

\* Mutant of RemoveFrame: the last frame of the list goes.
RemoveLastFrame(w) ==
  /\ At(w, "remove")
  /\ frameQueues' = [frameQueues EXCEPT ![PriorityOf(hand[w])] = Front(@)]
  /\ taken' = Append(taken, hand[w])
  /\ delivered' = [delivered EXCEPT ![hand[w][1]] = Append(@, hand[w][2])]
  /\ semaphoreFrames' = Free
  /\ Goto(w, "write")
  /\ UNCHANGED <<waitAny, cancelled, next, hand, local, lockWrite, connected,
                 wire, windowSizes, reader>>

RemoveFrame(w) ==
  /\ At(w, "remove")
  /\ frameQueues' = [frameQueues EXCEPT ![PriorityOf(hand[w])] =
                       RemoveFirst(@, hand[w])]
  /\ taken' = Append(taken, hand[w])
  /\ delivered' = [delivered EXCEPT ![hand[w][1]] = Append(@, hand[w][2])]
  /\ semaphoreFrames' = Free
  /\ Goto(w, "write")
  /\ UNCHANGED <<waitAny, cancelled, next, hand, local, lockWrite, connected,
                 wire, windowSizes, reader>>

\* ... or null ...
DequeueNull(w) ==
  /\ At(w, "scan")
  /\ MissingKeys = {}
  /\ \A c \in PRIORITIES : Sendable(c) = {}
  /\ semaphoreFrames' = Free
  /\ Goto(w, "reset")
  /\ UNCHANGED <<frameQueues, waitAny, cancelled, next, hand, local, lockWrite,
                 connected, wire, windowSizes, reader, taken, delivered>>

\* ... and then the event is reset, after the lock was released.
ResetWaitAny(w) ==
  /\ At(w, "reset")
  /\ waitAny' = FALSE
  /\ Goto(w, "check")
  /\ UNCHANGED <<frameQueues, semaphoreFrames, cancelled, next, hand, local,
                 lockWrite, connected, wire, windowSizes, reader, taken, delivered>>

\* WriteAsync and FlushAsync under lockWrite; a failure is logged and the
\* frame is dropped.
WriteFrame(w) ==
  /\ At(w, "write")
  /\ lockWrite = Free
  /\ IF connected
     THEN /\ wire' = Append(wire, hand[w])
          /\ lockWrite' = w
          /\ Goto(w, "sent")
          /\ UNCHANGED hand
     ELSE /\ hand' = [hand EXCEPT ![w] = NoFrame]
          /\ Goto(w, "check")
          /\ UNCHANGED <<wire, lockWrite>>
  /\ UNCHANGED <<queueVars, local, connected, windowSizes, reader, taken, delivered>>

\* ProcessSentFrame: DATA decreases the window of its stream, in two steps.
\* Dequeue has added the key, so this GetWindowSize only reads.
ProcessSentFrame(w) ==
  /\ At(w, "sent")
  /\ IF TypeOf(hand[w]) = "Data"
     THEN /\ local' = [local EXCEPT ![w] =
                         GetWindowSize(windowSizes, StreamOf(hand[w]))]
          /\ Goto(w, "decrease")
          /\ UNCHANGED <<hand, lockWrite>>
     ELSE /\ hand' = [hand EXCEPT ![w] = NoFrame]
          /\ lockWrite' = Free
          /\ Goto(w, "check")
          /\ UNCHANGED local
  /\ UNCHANGED <<queueVars, connected, wire, windowSizes, reader, taken, delivered>>

DecreaseWindowSize(w) ==
  /\ At(w, "decrease")
  /\ LET id == StreamOf(hand[w])
     IN  windowSizes' = [AddWindow(windowSizes, id) EXCEPT
                           ![id] = Decreased(local[w], LengthOf(hand[w]))]
  /\ hand' = [hand EXCEPT ![w] = NoFrame]
  /\ lockWrite' = Free
  /\ Goto(w, "check")
  /\ UNCHANGED <<queueVars, local, connected, wire, reader, taken, delivered>>

-----------------------------------------------------------------------------
(* The Read task, as far as it changes windows: IncreaseWindowSize, step   *)
(* by step.  Its GetWindowSize can race with a writer adding the same key: *)
(* Add then throws out of the async void Read and the process ends.        *)

Update == Updates[reader.done + 1]

ReadUpdate ==
  /\ reader.at = "idle"
  /\ reader.done < Len(Updates)
  /\ reader' = IF Update.stream \in DOMAIN windowSizes
               THEN [reader EXCEPT !.at = "increase",
                                   !.current = windowSizes[Update.stream]]
               ELSE [reader EXCEPT !.at = "add"]
  /\ UNCHANGED <<queueVars, writerVars, windowSizes, taken, delivered>>

ReaderAddsWindow ==
  /\ reader.at = "add"
  /\ IF Update.stream \in DOMAIN windowSizes
     THEN reader' = [reader EXCEPT !.at = "crashed"] /\ UNCHANGED windowSizes
     ELSE /\ reader' = [reader EXCEPT !.at = "idle"]
          /\ windowSizes' = AddWindow(windowSizes, Update.stream)
  /\ UNCHANGED <<queueVars, writerVars, taken, delivered>>

IncreaseWindowSize ==
  /\ reader.at = "increase"
  /\ windowSizes' = [windowSizes EXCEPT ![Update.stream] =
                       Increased(reader.current, Update.increment)]
  /\ reader' = [reader EXCEPT !.at = "signal"]
  /\ UNCHANGED <<queueVars, writerVars, taken, delivered>>

\* The event handler the constructor of FrameQueue subscribed.
FlowControlWindowSizeIncreased ==
  /\ reader.at = "signal"
  /\ waitAny' = TRUE
  /\ reader' = [reader EXCEPT !.at = "idle", !.done = @ + 1]
  /\ UNCHANGED <<frameQueues, semaphoreFrames, cancelled, next, writerVars,
                 windowSizes, taken, delivered>>

-----------------------------------------------------------------------------
Writer(w) ==
  \/ CheckCancelled(w)
  \/ WaitReturns(w)
  \/ EnterDequeue(w)
  \/ FindMissingWindow(w)
  \/ AddMissingWindow(w)
  \/ FindFrame(w)
  \/ RemoveFrame(w)
  \/ DequeueNull(w)
  \/ ResetWaitAny(w)
  \/ WriteFrame(w)
  \/ ProcessSentFrame(w)
  \/ DecreaseWindowSize(w)

Reader ==
  \/ ReadUpdate
  \/ ReaderAddsWindow
  \/ IncreaseWindowSize
  \/ FlowControlWindowSizeIncreased

ProcessAlive == reader.at # "crashed"

Next ==
  /\ ProcessAlive
  /\ \/ \E p \in Producers : Enqueue(p)
     \/ \E w \in Writers : Writer(w)
     \/ Reader
     \/ Complete
     \/ ConnectionLost

Spec == Init /\ [][Next]_vars

\* The thread pool runs every task that can run, and a write to the socket
\* returns; nobody has to call Complete, and the connection need not be lost.
FairSpec ==
  /\ Spec
  /\ \A p \in Producers : WF_vars(ProcessAlive /\ Enqueue(p))
  /\ \A w \in Writers : WF_vars(ProcessAlive /\ Writer(w))
  /\ WF_vars(ProcessAlive /\ Reader)

-----------------------------------------------------------------------------
(* Properties.                                                             *)

Queued == UNION {ToSet(frameQueues[c]) : c \in PRIORITIES}
Places == {"check", "wait", "dequeue", "scan", "add", "remove", "reset",
           "write", "sent", "decrease", "done", "faulted"}

\* Every variable has its type: the shapes of the fields of FrameQueue,
\* Http2Connection and FlowControlManager.
TypeOK ==
  /\ frameQueues \in [PRIORITIES -> Seq(Frame)]
  /\ semaphoreFrames \in Writers \union {Free}
  /\ waitAny \in BOOLEAN
  /\ cancelled \in BOOLEAN
  /\ next \in [Producers -> Nat]
  /\ \A p \in Producers : next[p] \in 1 .. Len(Script[p]) + 1
  /\ pc \in [Writers -> Places]
  /\ hand \in [Writers -> Frame \union {NoFrame}]
  /\ local \in [Writers -> Nat]
  /\ lockWrite \in Writers \union {Free}
  /\ connected \in BOOLEAN
  /\ wire \in Seq(Frame)
  /\ DOMAIN windowSizes \subseteq Nat
  /\ windowSizes \in [DOMAIN windowSizes -> UInt]
  /\ reader \in [at : {"idle", "add", "increase", "signal", "crashed"},
                 done : 0 .. Len(Updates), current : UInt]
  /\ reader.at # "idle" => reader.done < Len(Updates)
  /\ taken \in Seq(Frame)
  /\ delivered \in [Producers -> Seq(Nat)]

\* A frame enqueued is at one place of one list, or was returned by Dequeue
\* once: none is lost or repeated on the way from Enqueue to the Write task,
\* whatever the scan of Dequeue skips and wherever it removes.
ExactlyOnce ==
  \A p \in Producers : \A i \in 1 .. Len(Script[p]) :
    LET f == <<p, i>>
        inLists == UNION {{<<c, k>> : k \in {j \in DOMAIN frameQueues[c] :
                                              frameQueues[c][j] = f}} : c \in PRIORITIES}
        inTaken == {k \in DOMAIN taken : taken[k] = f}
    IN  Cardinality(inLists) + Cardinality(inTaken) = IF i < next[p] THEN 1 ELSE 0

\* The scripts Send produces are of this kind: HEADERS, then CONTINUATION,
\* then DATA, each no more urgent than the one before.
Monotone(p) ==
  \A i, j \in 1 .. Len(Script[p]) :
    i < j => PriorityOf(<<p, i>>) <= PriorityOf(<<p, j>>)

Requests == {p \in Producers : Monotone(p)}

\* Dequeue returns a frame of a request only after all those Send queued
\* before it, although they wait in two lists and the scan may skip some.
RequestOrder ==
  \A b \in DOMAIN taken : taken[b][1] \in Requests =>
    \A i \in 1 .. taken[b][2] - 1 :
      \E a \in 1 .. b - 1 : taken[a] = <<taken[b][1], i>>

\* The conjuncts that make RequestOrder inductive.

\* Only the writer that took semaphoreFrames is inside Dequeue.
LockHeld ==
  \A w \in Writers : pc[w] \in {"scan", "add", "remove"} => semaphoreFrames = w

\* What Dequeue is about to remove is the head of the most urgent list that
\* is not empty.
HandIsHead ==
  \A w \in Writers :
    /\ pc[w] \in {"remove", "write", "sent", "decrease"} => hand[w] \in Frame
    /\ pc[w] = "remove" =>
         LET c == PriorityOf(hand[w])
         IN  /\ frameQueues[c] # <<>> /\ hand[w] = Head(frameQueues[c])
             /\ \A d \in PRIORITIES : d < c => frameQueues[d] = <<>>

\* A queued frame is in the list of its priority, once, and was enqueued.
InItsList ==
  \A c \in PRIORITIES : \A j \in DOMAIN frameQueues[c] :
    LET f == frameQueues[c][j]
    IN  /\ PriorityOf(f) = c
        /\ f[2] < next[f[1]]
        /\ \A k \in DOMAIN frameQueues[c] : frameQueues[c][k] = f => k = j

\* A frame that was returned was enqueued, and is not queued.
TakenIsGone ==
  \A a \in DOMAIN taken :
    /\ taken[a][2] < next[taken[a][1]]
    /\ \A c \in PRIORITIES : \A j \in DOMAIN frameQueues[c] : frameQueues[c][j] # taken[a]

\* No frame was returned twice.
TakenOnce == \A a, b \in DOMAIN taken : taken[a] = taken[b] => a = b

\* A frame that was enqueued is queued, or was returned.
NothingLost ==
  \A p \in Producers : \A i \in 1 .. next[p] - 1 :
    \/ \E c \in PRIORITIES : \E j \in DOMAIN frameQueues[c] : frameQueues[c][j] = <<p, i>>
    \/ \E a \in DOMAIN taken : taken[a] = <<p, i>>

\* While a frame of a request is queued, the later ones are behind it.
LaterIsBehind ==
  \A c \in PRIORITIES : \A j \in DOMAIN frameQueues[c] :
    LET p == frameQueues[c][j][1]
        i == frameQueues[c][j][2]
    IN  p \in Requests =>
          \A l \in i + 1 .. next[p] - 1 :
            LET d == PriorityOf(<<p, l>>)
            IN  \E k \in DOMAIN frameQueues[d] :
                  frameQueues[d][k] = <<p, l>> /\ (d = c => j < k)

\* The inductive invariant of the send path.
QueueInv ==
  TypeOK /\ LockHeld /\ HandIsHead /\ InItsList /\ TakenIsGone /\ TakenOnce
    /\ NothingLost /\ LaterIsBehind /\ RequestOrder

\* Dequeue returns a frame only when every more urgent list is empty: an
\* acknowledgement of SETTINGS or PING never waits behind HEADERS or DATA.
UrgentFirst ==
  [][\A w \in Writers : RemoveFrame(w) =>
       \A c \in PRIORITIES : c < PriorityOf(hand[w]) => frameQueues[c] = <<>>]_vars

Channels == INSTANCE RequestChannels WITH
  Tasks <- Requests,
  Size <- [p \in Requests |-> Len(Script[p])],
  put <- [p \in Requests |-> next[p] - 1],
  delivered <- [p \in Requests |-> delivered[p]]

\* To the requests, Enqueue and Dequeue are independent channels, one each.
ImplementsChannels == Channels!Spec

Ended == {"done", "faulted"}
Armed == waitAny /\ \A w \in Writers : pc[w] \notin Ended \union {"reset"}
Stopped == cancelled \/ ~ProcessAlive \/ \E w \in Writers : pc[w] = "faulted"

\* When waitAny is set and no writer is between a null Dequeue and its Reset,
\* every frame now queued is dequeued, unless Complete is called or a writer
\* dies: a frame missed by one wake-up is sent with the next one at the latest.
ArmedDrains ==
  \A p \in Producers : \A i \in 1 .. Len(Script[p]) :
    (Armed /\ <<p, i>> \in Queued) ~> (<<p, i>> \in ToSet(taken) \/ Stopped)

\* w waits, without a token, for the semaphoreFrames a writer kept when it
\* died inside Dequeue.
LockedOut(w) ==
  /\ pc[w] = "dequeue"
  /\ semaphoreFrames \in Writers \ {w}
  /\ pc[semaphoreFrames] = "faulted"

\* After Complete every Write task ends, wherever it was (blocked in Wait,
\* scanning, writing, or waiting for the other one to leave Dequeue or
\* lockWrite), but for one that an exception inside Dequeue has locked out:
\* the token that Complete cancels is not looked at there, and it never ends.
CompleteEndsWriters ==
  \A w \in Writers :
    cancelled ~> (~ProcessAlive \/ pc[w] \in Ended \/ LockedOut(w))

-----------------------------------------------------------------------------
(* What a comment of the code says of the send path, and the code does not *)
(* do: this is violated.                                                   *)

\* FrameQueue.cs:36, :50: the event signals that there is an item to process.
\* A writer does not sleep on a reset event while a frame is queued.
NoLostWakeup ==
  \A w \in Writers : pc[w] = "wait" /\ ~waitAny => Queued = {}
=============================================================================
