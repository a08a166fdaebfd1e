# HttpTwo in TLA+

HttpTwo is an HTTP/2 client library for .NET: `src/HttpTwo` (connection, streams,
frames, send queue, flow control) and `src/HttpTwo.HPack` (header compression, a
port of Twitter's hpack). Its tests start a peer that lies beside them, the protocol
layer of node-http2 (`src/HttpTwo.Tests/node-http2/lib/protocol`), a complete HTTP/2
endpoint. This directory holds models of both, the TLC runs that check them on small
instances, and TLAPS proofs of the properties that matter most.

Contents: the system · the modules · the runs · the proofs · what the code does not
keep · what is not modelled · what could come next.

## The system

**The client.** One `Http2Client` drives one `Http2Connection`. The actors are

- any number of concurrent calls of `Http2Client.Send` (thread pool tasks),
- one **Write task** per `Connect` (`Http2Connection.Write`), which consumes the queue,
- one **Read task** per `Connect` (`Http2Connection.Read`), which parses frames,
  acknowledges SETTINGS and PING, applies WINDOW_UPDATE and feeds the streams,
- the server, and the timer of a `Send`.

| Component (source) | State it keeps | Operations | Talks to |
|---|---|---|---|
| `FrameQueue` (`Internal/FrameQueue.cs`) | four priority lists, `semaphoreFrames`, the manual reset event `waitAny`, a cancellation token | `Enqueue`, `GetConsumingEnumerable` / `Dequeue`, `Complete` | called by every sender; asks `FlowControlManager` whether DATA may go; woken by its event |
| `FlowControlManager` (`Internal/FlowControlManager.cs`) | a dictionary stream -> uint window, no lock | `GetWindowSize` (adds a missing key), `Decrease-`, `IncreaseWindowSize`, event | queue, streams, `Connect` |
| `Http2Connection` (`Http2Connection.cs`) | `tcp`, `clientStream`, `lockWrite`, `receivedDataCount`, the read `buffer` | `Connect`, `Disconnect`, `Read`, `Write`, `QueueFrame`, `FreeUpWindowSpace` | owns queue and tasks |
| `StreamManager` (`Internal/StreamManager.cs`) | dictionary id -> stream under `lockStreams`, `nextStreamId` | `Get()`, `Get(id)` (creates what it does not find), `Cleanup` | Send, both tasks |
| `Http2Stream` (`Http2Stream.cs`) | `State`, `ReceivedFrames`, `SentFrames`, event `OnFrameReceived` | `ProcessReceivedFrames`, `ProcessSentFrame` | flow control, the handler of Send |
| `Http2Client` (`Http2Client.cs`) | none shared: a call's `semaphoreClose`, its lists | `Send`, `Ping`, `Disconnect` | everything above |
| Settings and frame codecs (`Http2Settings.cs`, `Frames/*.cs`) | the settings of the peer; the fields of one frame | `Payload`, `ParsePayload`, `UpdateFromFrame` | Read, Write |
| `DynamicTable` (`HttpTwo.HPack/DynamicTable.cs`) | a circular array, `head`, `tail`, `size`, `capacity` | `Add`, `Remove`, `Clear`, `SetCapacity`, `GetEntry` | `Decoder` |
| `Encoder`, `Decoder`, Huffman | the encoder's linked table; the decoder's state machine | `EncodeHeader`, `Decode`, `EndHeaderBlock` | `Util.PackHeaders`, `UnpackHeaders` |
| `Http2MessageHandler` | a dictionary host -> client, no lock | `SendAsync` | `Http2Client` |

**The node peer** runs on one event loop: a callback runs to its end, and what it leaves
for later (timers, `setImmediate`, `nextTick`, a `once` listener) runs in another turn.
The path of a frame is stream -> connection -> Serializer and compressor -> transport
-> endpoint -> Deserializer and decompressor -> connection -> stream.

| Component (source, under `protocol/`) | State it keeps | Operations | Talks to |
|---|---|---|---|
| `Flow` (`flow.js`) | `_window`, the flow control `_queue`, the output buffer, `_received` and a timer, a listener for `window_update` | `push`, `_read`, `read(limit)`, `_increaseWindow`, `_restoreWindow`, `_parentPush` | a stream's upstream, and the connection itself, are Flows |
| `Stream` (`stream.js`) | `state`, who initiated and who closed it, `_resetSent`, `_ended`, its upstream | `headers`, `promise`, `reset`, `_write`, `_finishing`, `_writeUpstream`, `_transition` | user and connection |
| `Connection` (`connection.js`) | streams by id and by priority, slots and limit, SETTINGS and pings to be acknowledged | `createStream`, `_send`, `_receive`, `set`, `ping`, `close` | streams, endpoint |
| `Serializer`, `Deserializer` (`framer.js`) | the frame in progress and a buffer | one writer and one reader for each type; `_transform` | endpoint |
| `Endpoint` (`endpoint.js`) | a cursor in the prelude | `_readPrelude`, `_write`, the wiring of SETTINGS_HEADER_TABLE_SIZE | all of them |
| `HeaderTable`, `Compressor`, `Decompressor` (`compressor.js`) | a table each; the header frames in progress | `add`, `setSizeLimit`, `compress`, `decompress`, `_transform` | endpoint |

**What is hard.** In the client, `State` of a stream is read in a switch and assigned in a branch by
two tasks with no lock. The server has a frame before `ProcessSentFrame` knows it was
sent, so a response can overtake it. A stream that is finished may be looked up again
and then comes back. The send queue spreads one request over two lists and skips
frames; its event is reset after its lock was released. Received bytes are counted
by one task and given back by whichever `Send` ends first. The connection may be lost
at any step and no `Send` is told, only its timer. The dynamic table never marks its
array as full. In the peer, a frame crosses two queues with a window each and is split
at both; END_STREAM is set on a frame that is already queued; SETTINGS move windows
and tables while frames written under the old ones are on their way; what is to run
later is woken by events that may have been missed; bytes come cut anywhere.
`PROJECT.json` lists these and the others as `hazards`, each at its
line.

**What makes it correct**, component by component:

- *send queue*: a frame leaves once; the frames of a request leave in their order;
  acknowledgements are not delayed by uploads; a queued frame is sent eventually;
  the Write task ends when told to;
- *flow control*: a stream sends no more than it was granted;
- *requests and responses*: a `Send` is released by the end of its response, not
  before; it returns its whole response and none of another's; each received byte
  is given back once; a `Send` that has queued its request ends; a finished stream is forgotten;
- *dynamic table*: it is the list of HPACK, never evicting more than it has to; its
  loops end;
- *header blocks*: the tables of both peers agree; what is delivered is what was
  encoded; a loss is reported; every block can be read;
- *node flow control and streams*: the body arrives whole, in order, with its end last; no
  credit is lost or doubled; the two state machines agree; only late frames are errors;
  a body that was ended arrives in the end;
- *node connections*: a frame reaches the stream it is for; settings are acknowledged by
  the peer that applied them; whoever can send is woken; active streams are counted;
- *node framing*: frames come out as they went in, wherever the bytes are cut, and at once;
- *node headers*: what arrives is what was sent; the two tables agree while their limit
  changes; secrets are in neither.

## The modules

| Module | Models | Role |
|---|---|---|
| `Frames` | `Frame.cs`, `FrameQueue.GetPriority` | types, flags, priorities |
| `FlowControl` | `FlowControlManager.cs` | the windows as operators on a dictionary of uints |
| `FrameQueue` | `FrameQueue.cs`, `Write`, the window side of `Http2Stream` | the send path, step by step |
| `RequestChannels` | (abstract) | what the queue promises a request: a channel of its own |
| `Http2Stream` | `Http2Stream.cs` | the two state switches |
| `Exchange` | `Send`, `Read`, `Write`, `StreamManager`, `FreeUpWindowSpace` | requests and their responses |
| `FieldLists`, `HPackTable` | (abstract) | lists of header fields, and the table HPACK specifies |
| `DynamicTable` | `DynamicTable.cs` | the circular array |
| `HeaderFields` | `HeaderField.cs`, `StaticTable.cs` | fields, their lengths, representations |
| `HPackEncoder` | `Encoder.cs` | `EncodeHeader` and the linked hash map |
| `HPackDecoder` | `Decoder.cs` | `Decode` over the table of `HPackTable` |
| `HeaderBlocks` | `Util.PackHeaders`, `UnpackHeaders` | both, block after block |
| `NodeFlow` | `flow.js` | the operations of a Flow on a record |
| `NodeStream` | `stream.js` | the operations of a Stream, with its Flow, on a record |
| `NodeDialogue` | (composition) | one stream between two ends and their users |
| `NodeConnection` | `connection.js` | the operations of a Connection, with its streams, on a record |
| `NodePeers` | (composition) | two connections and the scripts of their users |
| `NodeFramer` | `framer.js` | frames to bytes and back |
| `NodeEndpoint` | `endpoint.js` | the prelude and the Deserializer over chunks |
| `NodeHeaders` | `compressor.js` | the tables, integers, strings and representations as operators |
| `NodeBlocks` | `compressor.js`, `endpoint.js` | a Compressor and a Decompressor while SETTINGS change their limit |
| `MC*` | | instances for TLC |
| `FrameQueueProofs`, `ExchangeProofs`, `DynamicTableProofs`, `HeaderBlocksProofs`, `NodeDialogueProofs` | | theorems |
| `SumLemmas`, `FieldListProofs`, `NodeStreamProofs` | | the lemmas they rest on: sums, lists of fields, the operations of a Flow and a Stream |

**Steps.** In the client a step is what one task does between two points at which another
can see or change what it touches. What runs under a lock is one step if it only runs
there (`Enqueue`, `StreamManager.Get`), and an unlocked read and the write that depends on
it are two. Payload bytes are left out; a frame is its type, stream, flags and length. In
the node peer a step is a turn of the event loop: the operators of a class take the record
of an object and give the one it leaves, and an action of a composing module is the event
that starts the turn. `EndOfTurn` closes each with what node's Readable does then
(`maybeReadMore`, which is not in the repository and is marked external).

**FrameQueue.** A producer enqueues its script in order, awaiting each `Enqueue`; `next`
is where it is. A frame is the pair (producer, place), as `List.Remove` compares
references. `pc` walks a Write task through `GetConsumingEnumerable`: the test of the
token, `waitAny.Wait`, `Dequeue` under `semaphoreFrames`, then either the frame or
null and the `Reset`. `Dequeue` is *scan* (which may add missing windows first: `Add`
throws if the Read task added the key in between, and the semaphore stays taken) and
*remove*. After the write, `ProcessSentFrame` decreases the window of the stream in
two steps. `reader` is the Read task applying WINDOW_UPDATE frames, in two steps too,
and then setting the event. Windows are uints modulo `UIntModulus`. `connected` and
`Complete` are the loss of the connection and `Disconnect`; a failed write drops its
frame, as the code does. A writer that threw inside `Dequeue` is *faulted* and keeps
`semaphoreFrames`: `Enqueue` and the other writers wait for it without a token or a
timeout (`LockedOut`).

**Exchange.** `pc[s]` walks a call of `Send` from `GetStream` to `QueueWindowUpdate`.
Stream objects live on the heap `objects`, since the dictionary, a `Send` and a task
can hold different objects for one identifier. The Write task writes a frame, looks
its stream up, reads `State`, assigns `State`; the Read task receives a frame, looks
its stream up, adds it to `ReceivedFrames` and reads `State`, assigns `State`, raises
the event. The queue between `Send` and the Write task is what `FrameQueue` is shown
to implement: per request, frames leave in order. Send windows and the frames of
stream 0 belong to `FrameQueue`. `GetStream` contains the subscription to
`OnFrameReceived`: no frame can arrive in between, since the server has not seen the
identifier. `WriterFaults` is the exception inside `Dequeue` that `FrameQueue` shows in
detail (`AddMissingWindow`), where it can occur: at the first look at the window of a
stream, for DATA, once the server knows the stream. From then on no frame is written and
no `Enqueue` of a `Send` returns (`EnqueueReturns`). `TimesOut` is also the exit of a
cancelled `WaitAsync`; `CollectResponse` fails when the list grew under the enumerator or
`UnpackHeaders` throws, before `Cleanup`: whether the server's block can be decoded is
left open here, as it is `HeaderBlocks` that says so.

**DynamicTable.** A field is its size. `Add` and `SetCapacity` contain a loop of
`Remove`, so a call is a step that starts it, one per round, and one that ends it.

**HeaderBlocks** composes `HPackEncoder` and `HPackDecoder`. A block is a sequence of
representations (indexed, literal, size update), the bytes of integers and strings
being left out; names and values have a length as text and one on the wire, since
the Decoder judges the Huffman length first. `EncodeHeader` is one action per way
out; a call of `Decode` is a step for each representation, as nothing else touches
the Decoder. The Decoder's table is the list that `DynamicTable` implements; the
Encoder's is the code's structure, a linked list and buckets whose entries carry
falling indices. `renews` says which object is new for each block: the Encoder in
requests, the Decoder in responses, none as HPACK means it.

**NodeFlow, NodeStream, NodeDialogue.** A Flow has two queues: `queue` waits for the window,
`buffer` is the output buffer the connection reads from. `Push`, `Read`, `TakeFrame` and
`RestoreWindow` are the methods, with both splits of a DATA frame and the BLOCKED
frame. A Stream adds the state machine: `Transition` is `_transition` as two operators,
`Legal` and `Target`, and is called when a frame is queued and when one arrives; a
frame that throws at the user is in the queue all the same. `Finishing` marks the last
queued frame. In `NodeDialogue` the users' actions are `SendHeaders`, `WriteChunk`,
`End` and `Finish` (the event comes when the last write is done), `ResetStream`,
`ReadBody`; those of the event loop are `Forward`, `Deliver`, `Restore`;
`ChangeWindow` is SETTINGS. Bytes are numbered, so that order and loss show.

**NodeConnection, NodePeers.** A Connection is a Flow and the sequence of its streams, each
with the id it may not have yet. `SendFrames` is one call of `_send` with its rounds over
the priorities, `ReceiveFrame` one of `_receive`; `scheduled` and `sleeping` are
`_sendScheduled` and `once('wakeup')`. Numbers that may be infinite or NaN are records
with the arithmetic of the language. `NodePeers` runs plans: a script for each stream
(headers, data, end, promise, reset), the SETTINGS an end sends, who pings, who
closes; when each step happens is open.

**NodeFramer, NodeEndpoint.** A frame is a record, its bytes a sequence of numbers: the layout of
each type is written once for each direction, as the code does. `Transform` is the
Deserializer over one chunk. In `NodeEndpoint` a client sends the prelude and then
items, which are frames or bytes that are none, and `Receive` takes a chunk of any of
the given sizes. `stuck` and `write = "none"` say that `done` was never called.

**NodeHeaders, NodeBlocks.** `Compress` and `Decompress` work on bytes: five representations,
integers with prefixes, strings that are Huffman coded when that is shorter (the codes
are a parameter), the header set as an object with ordered properties, cookies cut
and joined. `NodeBlocks` has the three queues a header set crosses: `output` before the
compressor, `wire`, `input` before the connection of the peer. The compressor changes
its limit when the SETTINGS come; the decompressor when the ACK, which waits in all
three queues, has come back. `overtaken` records that a block was read before a growth
it was written after.

## The runs

| Run | Instance | Checks |
|---|---|---|
| `order` | an upload of HEADERS, CONTINUATION and two DATA frames, the second smaller; an acknowledgement; two Write tasks, as after a second `Connect` | `QueueInv` (inductive, with `TypeOK`), `ExactlyOnce`, `UrgentFirst`, refinement of `RequestChannels` |
| `live` | one upload, of HEADERS and one DATA frame larger than its window, two WINDOW_UPDATEs, two Write tasks, fair tasks | `ArmedDrains`, `CompleteEndsWriters` |
| `exchange` | two `Send`s, one with bodies both ways and a late RST_STREAM, one of HEADERS only; the connection may be lost and the Write task may die inside `Dequeue` | `ExchangeInv` (inductive, with `TypeOK` and `Delivered`), `WholeResponse`, `CreditConserved`, `SendEnds` |
| `dynamic_table` | fields of three sizes, capacities that give 0 to 8 slots, every sequence of calls | `RingInv` (`TypeOK`, `RingOK`, `Accounted`), refinement of `HPackTable`, `CallsEnd` |
| `header_blocks` | three blocks of up to two fields, five fields of which one is in the static table, tables of up to 17 bytes, two size changes, either object new for each block or none | `LinkedHashMap`, `TablesAgree`, `DeliversPrefix`, `LossReported`, `TruncatesOnlyLarge`, `Decodable` |
| `node_stream` | A writes up to two bytes, in one chunk or two, and B one; windows of 2 that SETTINGS lower to 1, frames of one byte, A may reset | `BytesInOrder`, `WholeBody`, `CreditConserved`, `NoAssertionFails`, `ThrowsOnlyAfterReset`, `StatesDual`, `ErrorsAreLateFrames` |
| `node_stream_live` | A writes up to two bytes and B one, no reset, a fair event loop | `BodyArrives` |
| `node_connection` | six plans: two uploads at once, one of which is not ended; a request and its answer; a promised stream; a window that is lowered to 0 and raised; a PING and an upload while the server closes; GOAWAY from both ends | `FramesReachTheirStream`, `ConnectionCredit`, `StreamCredit`, `AcknowledgedIsApplied`, `NothingLeftBehind`, `ActiveCounted` |
| `node_endpoint` | the prelude and two of 22 items: every frame type with extreme fields, padding, unknown types and settings, broken payloads; chunks of five sizes | `FramesAsMeant`, `NothingKept`, `StopsOnlyFor` |
| `node_headers` | three blocks from three header sets, two changes of the limit (72, 150; 110 at first), CONTINUATION frames | `HeadersArrive`, `SecretsNotHeld`, `LimitsKept`, `TablesAgree` |
| `wakeup`, `node_limit` | one upload; two streams under a limit of one | two statements of the code's comments that it does not keep (below) |

Deadlock is not checked where the system may really stop: scripts end, `Send`s
return, nothing is left to deliver. `dynamic_table` checks it.

**Bounds.** Scripts, responses and updates are finite constants, so no guard bounds a
counter. The window is 4 and the modulus 16, so that one DATA frame of the scripts exceeds
the window, a later one does not, and decreasing wraps. A request of three frame types is
what it takes for one to overtake itself, an acknowledgement for the priorities to meet,
and two Write tasks for one to remove what the other has found. `live` has two Write
tasks as well, since one that dies inside `Dequeue` locks the other out, and an upload of
two frames, the second of which does not fit its window, to leave room for that.
In `exchange` two `Send`s are what it takes to receive another's frame or to share the
counter, and a frame after the one that ends a response is what brings a stream back. The dynamic table needs an
array that wraps, is reallocated while it wraps, and a field larger than the capacity:
eight slots of overhead 2 have all three. `header_blocks` bounds the fields of a block,
the blocks and the changes (`MaxFields`, `MaxBlocks`, `MaxChanges`): one block fills the
table and evicts, a second refers to it or truncates, a third meets what that left behind.
Names share a bucket, a name has a Huffman code shorter than itself, and a capacity of 4
makes some fields too large for the table. At the end of its blocks the system stops, and
so it does when `Decode` throws.

Of the node peer: a chunk of two bytes is split by the frame size, by the window and by
both; windows of 2 or 1 fill and empty at once, and `WINDOW_SIZE_LIMIT` of 3 is not far. A
change from 2 to 1 moves a window below zero while DATA is under way. A BLOCKED behind
END_STREAM needs a second change, an output buffer of one frame and 30 steps: it is out
of the bounds of `node_stream` and within what `ErrorsComeLate` proves.
Two streams of one end and a promised one of the other are what ids, slots and
priorities need. The plans are separate, as each adds one mechanism; together they
do every step. In `node_endpoint` two items suffice, since the Deserializer keeps one
frame at a time, and chunks of 1, 2, 9, 10 and 23 bytes end inside a header, at its end,
inside a payload and behind several frames. In `node_headers` a limit of 72 holds two
small pairs and 150 four: blocks evict, refer to what is left, and shrink; two changes
give a fall and a growth in either order (`MaxBlocks`, `MaxSettings`).

**Fairness.** `FrameQueue!FairSpec`: the thread pool runs every task that can run
(`LongRunning` tasks and awaited continuations), so producers, Write tasks and the
Read task are weakly fair while the process lives; `Complete` and the loss of the
connection are not. A write to the socket is taken to return, which a server that reads
nothing delays until `Disconnect` closes the stream. With an exception inside `Dequeue`
fairness is of no use to the others, as the semaphore never becomes free:
`CompleteEndsWriters` says that after `Complete` every Write task ends but those
this has locked out. `Exchange!FairSpec`: only what follows the queueing of the request
is fair (`Conclude`), among it the timeout of `semaphoreClose.WaitAsync`, which
`ConnectionTimeout` bounds; nothing is asked of the server, the connection, or the two
tasks. No fairness is assumed of `GetStream` and `QueueFrame`: `Connect` waits for the
TLS handshake, `Send` for the data of its caller and `Enqueue` for `semaphoreFrames`, none
with a timeout. `SendEnds` thus says that a `Send` which has queued its request ends, unless
it has its response and the WINDOW_UPDATE waits for a queue that is locked for ever.
Both of these exceptions occur in the runs: without them TLC finds the properties violated.
`DynamicTable!FairSpec`: a call that was started goes on, as its caller is in it.
`NodeDialogue!FairSpec`: node's event loop runs what is pending (frames to forward or to
deliver, timers, a `finish` that is due), and both users read what they get, as a
paused reader may stop any body. Nobody has to write, to end or to reset. The loop as a
whole is weakly fair, not each callback: each pending piece of work can only be done
once, so the others follow.

## The proofs

All for any number of tasks, any scripts, requests and responses.

`FrameQueueProofs` — `QueueInvariant`, `TypeCorrectness`, `RequestsInOrder`,
`UrgentFramesFirst`, `FramesLeaveOnce`, `QueueImplementsChannels`. `RequestOrder` is not inductive: that a
frame left after its predecessors follows from where both wait. `QueueInv` adds that only
the holder of `semaphoreFrames` is inside `Dequeue`, that the frame it found is the head
of the most urgent list that is not empty (`HandIsHead`), that a frame is in one place
(`InItsList`, `TakenIsGone`, `TakenOnce`, `NothingLost`; `ExactlyOnce` counts
these places), and that the later frames of a request are
behind the earlier ones (`LaterIsBehind`). The key lemma is `NeverTooSmall`: a difference
of uints is never below zero, so no DATA frame is skipped, so no HEADERS or CONTINUATION
is, so the head of a list is always sendable and the lists are first-in first-out.
Assumed: `FlowControlAssumption`, `ScriptAssumption` (the shapes of the constants).
Requests are the producers whose frames get no more urgent as they go on (`Monotone`),
which `Send`'s are.

The order thus rests on the comparison that never holds. With a signed comparison
(the mutant `WindowTooSmallSigned`) a small DATA frame overtakes a larger one of the
same stream that has to wait: TLC finds `ImplementsChannels` violated. A repair of flow
control has to keep the later frames of a stream back as well.

`QueueImplementsChannels` is the refinement: `Enqueue` of a request is `Put`, the removal of
one of its frames is `Get`, and every other step stutters. `delivered` is a history
variable for the mapping. It needs one more invariant, `PrefixDelivered`: what was
delivered of a request is a prefix of its script and exactly what was taken of it; by
`RequestOrder` the frame that leaves is then the next one. `Exchange` takes this channel
for the queue.

`ExchangeProofs` — `ExchangeInvariant`, `ExchangeTypes`, `FramesDelivered`,
`ResponsesWhole`, `CreditGivenBack`. `ExchangeInv` says: a `Send` has an object and an odd identifier of
its own, and until its `Cleanup` the dictionary leads from one to the other
(`OwnStream`); the frame being handled goes to that object (`RightStream`); so what
was received is a copy of the beginning of the response, but for the frame in hand
(`Delivered`); and a state that releases appears only when a frame that ends the
response is already in the list (`EndIsReal`). The last part is what the missing
lock threatens. It survives because it also holds of the states the tasks have
read: a stale read is a state the object had, and
`ReleasingStates` shows that neither switch makes a releasing state out of one that
is not, but for a received ending frame, which was added first. Objects only grow,
so what was ended stays ended (`HeapGrows`). Assumed: `ExchangeAssumption`; a request
consists of HEADERS, CONTINUATION and DATA, at least one frame. `CreditConserved` is
inductive with `ExchangeInv`: each step moves bytes from one of its sums to another
for one `Send`. Assumed besides: there are finitely many `Send`s (`SendersAssumption`).

`SumLemmas` — what sums over finite sets and functions do when one summand changes, when a
summand is added, when the indices are renamed. `SumFunction` is a fold, so the
recursion behind it is shown to have a solution first; induction over the size of a set
is by a least counterexample, as the induction theorems cannot be used.

`FieldListProofs`, `DynamicTableProofs` — `TableIsRing`, `TableIsList`. `RingInv` is
inductive: the fields from `tail` to `head` are the table, `size` is theirs, and while a
call is in its loop, what it still has to evict fits. That the array is never full
(`NotFull`) is the argument the code makes silently: every field counts at least
`HEADER_ENTRY_OVERHEAD`, the array has a slot more than that bound allows, hence
`head` never catches up with `tail`. `TableIsList` maps the table to the list *once its call
has ended* (`Settled`): the step that starts a call is the one of `HPackTable`, every
eviction stutters (`FitDropsLast`: what fits is not changed by dropping the last field of
a list too large), and the step that ends it stutters too (`FitAll`). Assumed:
`DynamicTableAssumption` (every field is larger than the overhead, the overhead positive).

`HeaderBlocksProofs` — `EncoderStaysLinked`, `TablesStayAlike`,
`DeliversOnlyThePacked`, `LossIsReported`, `TruncatesNoOther`, `WhatIsPackedIsRead`: all that
`header_blocks` checks, for any fields, static table, hash function, sizes, limits and
renewals. Its first part takes the operations of `Encoder` one by one: `Remove`,
`EnsureCapacity` and `Add` keep the list, the buckets and the size in agreement and do to
the list what `FieldLists` says of a table (`EnsuresCapacity`, `AddsEntry`), and the lookups
find what they should (`FoundEntry`, `FoundName`, `FoundStatic`). That indices fall by one
is what makes `GetIndex` right; that none falls below zero, where -1 means "not found", is
why `HeaderBlocksAssumption` bounds the fields ever inserted by `MaxIndex`.

The second part relates the two sides. A table can only be compared when everything written is
read, but the Encoder is ahead of the Decoder by a whole block, whose representations
were each written against another table. `BlockInv` therefore speaks of the decoders to
come (`InFlight`): run over what is in the block, `Decode` is *sound* at every step, that is,
it has delivered a prefix, is marked as truncated only if the block is too large, and has
thrown only for one of the three reasons; and *at the end of the run* it is in step with the
encoder (`Synced`). An action of the Encoder's side appends to the run (`FlightMore`), one
of the Decoder's takes its first step (`FlightLess`), and with an empty block it is a
statement about the Decoder itself (`FlightNone`). `FieldInStep` is the heart: whatever way
out `EncodeHeader` takes, what it writes (`Encodes`) leaves the two in step. It rests on
`ReadsField` (the field is delivered with its place in the table, or the block is marked,
or a broken decoder throws) and on eviction being monotone: fitting comparable lists leaves
them comparable, and the longer one covers the shorter (`ComparableFits`, `PrefixFits`).
`SetsMaxInStep` and `CompliesInStep` are the same for the sizes: the one step at which the
tables differ is between the two, and what was evicted too early is evicted then.
Assumed: `HeaderFieldsAssumption`, `HPackEncoderAssumption`, `HeaderBlocksAssumption` (fields
are names and values with lengths, a Huffman code is never used when longer, no name is
the empty one; the limits are numbers).

`NodeDialogueProofs` — `DialogueInvariant`, `ThrowsOnResetStreams`: for any windows, frame
sizes, buffers, chunks and resetters, an operation of the user throws only on a stream
that was reset. `_transition` is called for frames of both sides in any order, so the
question is whether what arrives can take from the user what it may send. `DialogueInv`
says: as long as its user has not ended, an end is in a state that may send DATA
(`MaySend`), or was closed by RST_STREAM; after its headers it is not idle again.
`TransitionReceives` and `TransitionSends` go through the table of the state machine; the
lemmas `...Same` show that windows, queues, timers and reading leave it alone, whatever
they compute.

`NodeStreamProofs`, `NodeDialogueProofs` — `DialogueIsInOrder`, `BodyStaysInOrder`,
`EndedHasWholeBody`, `CreditIsConserved`, `AssertionsHold`, `EndsAgree`: the body, the
credit and the states of a dialogue, for any windows, limits, chunks and resets. `BytesInOrder` is not inductive: a
frame may pass six lists (the queue and the buffer of the sender's Flow, the connection,
the input, what is busy, the buffer of the user), each turn moves some of it, and a chunk
or a frame is cut on the way. `WaysInv` says of each way of the dialogue, from the user who
writes to the one who reads (`Toward`):

- its lists, joined, hold the bytes written and not read, in order (`Body`);
- no DATA follows the end, a mark of the end is there only if the writer has ended, and a
  writer who has neither ended nor reset has left none (`Order`);
- headers come before the end and the reset, so neither meets a stream that is still
  idle (`Begin`);
- what the sender's window lacks of the initial one is on the way or held by the reader
  (`CreditIs`).

And of both ends together, as long as neither user got an exception (`Agreed`): the state of
an end follows what its own user did (`Own`), and what its user ended or reset the other has
heard, or a frame on the way still tells it (`Told`). `AgreementMoves` keeps that for any turn
that moves the state machine as the frames heard and said tell (`Moves`); `Spoken` and
`Heeds` say that `_transition` does, on either side of its table. With nothing on
the way, `Told` is `StatesDual`.

`WayAlike`, `WaySays`, `WayMarked`, `WayHears` and `WayReads` say what may happen to a way:
its frames are cut or moved, one is added, the last one is marked, some are heard, the user
reads. Every action is a few of these for one way and keeps the other. That the operations
do no more than that is `NodeStreamProofs`. A Flow *moves* (`FlowMoves`): it changes where
its frames are and how they are cut, never their bytes, marks or increments together, and
it fails no assertion. A Stream *turns*: what it takes from its input is in its user's
buffer or busy, and what it queues is said. A step may run several turns (`_read` asks for
more until nothing moves), so these lemmas go along a sequence of turns (`FoldObeys`,
`RefillRuns`, `TurnsGoOn`). `AssertionsHold` then says that a frame cut to the limit always
fits the window (`PushOneMoves`). Assumed: `FlowAssumption`, `StreamAssumption` (sizes are
numbers, the largest payload and the buffers not zero), and `DialogueAssumption`:
`Connection` reads a stream only while its own window is above zero (`connection.js:302`).

`NodeDialogueProofs` — `EndsArePolite`, `ErrorsComeLate`: an error event of a stream is for
a late frame, or for one that `_transition` had refused to the user who wrote it. A frame
that arrives raises one in three ways, and each needs its own argument:

- it gives back too much (`TooLarge`): `CreditIs` says that the window and all increments
  on the way are never more than the initial window (`StaysWithin`);
- it is HEADERS for the second time, or
- it is illegal in the state of the stream (`LegalOrLate`).

For the last two `WaysInv` does not do, as it speaks of bytes and of what both ends did, not of
what is behind a frame. `Polite` adds, for what an end has sent and the other has not been
given (`Line`): as long as its user got no exception, there is no DATA or HEADERS behind an
END_STREAM or a RST_STREAM, nor before a stream that has heard one, and then the sender's own state
says so (`Civil`); headers are there once, and not any more when they were heard (`Formal`); a
stream that is idle has sent and holds nothing, and the first that reaches B is the
headers of A (`Opened`). `MannerSays`, `MannerMarked`, `MannerRests` and `MannerHears` keep that for
a frame said, the mark of the end, a turn without either and a frame heard. With it,
what meets a stream that has heard the end is WINDOW_UPDATE, RST_STREAM or BLOCKED, which is
legal or a `LateFrame`. Assumed besides: `WindowsFit`, that the initial windows, those that SETTINGS
bring included, are at most `WINDOW_SIZE_LIMIT`. `setInitialWindow` takes over any
number, and beyond the limit every credit that comes back is a FLOW_CONTROL_ERROR.

Only model-checked: liveness (`ArmedDrains`, `CompleteEndsWriters`, `SendEnds`,
`CallsEnd`, `BodyArrives`), as the prover has no ENABLED; and everything about
`NodeEndpoint`, `NodeBlocks` and `NodePeers`, whose operators are recursive or reach one that
is.

## What the code does not keep

Two runs end in a counterexample; `findings` quotes the line each contradicts.

- `wakeup`: a writer whose `Dequeue` was empty releases the lock and then resets the
  event; a frame enqueued in between waits for the next signal (`FrameQueue.cs:75`).
  `ArmedDrains` says what remains true: the next signal sends it too.
- `node_limit`: `_updateStreamLimit` computes the free slots as a difference of infinities:
  they are NaN from the first SETTINGS_MAX_CONCURRENT_STREAMS on, and no stream is ever
  held back (`connection.js:138`, the comment is at 291). `ActiveCounted` says
  what the count itself is worth.

**The client.** Seen in the models, and stated by no run of its own:

- DATA is never held back (`FrameQueue.cs:105–109`): a difference of uints is never
  negative. The window of the connection is not charged for DATA sent, only that of
  the stream, and two unlocked updates of one window can lose one.
- A frame handled after `Cleanup` puts the stream back for good (`Http2Client.cs:192`,
  `StreamManager.cs:58`).
- A response of one HEADERS frame handled before `ProcessSentFrame` of the request leaves
  the stream open, and `Send` waits for its timeout (`Http2Stream.cs:34`,
  `Http2Client.cs:68`). END_STREAM on HEADERS without END_HEADERS releases
  `Send` before the CONTINUATION frames.
- `UnpackHeaders` makes a Decoder for each response (`Util.cs:67`), so a response that refers
  to a field of an earlier one cannot be read (`HttpTests.cs:67–71` make two requests on a
  connection). `DeliversPrefix` says what remains true: `Decode` throws, it never
  delivers a wrong field. In the other direction a new Encoder is harmless
  (`TablesAgree`): it refers only to fields of its own block, which are on top of the
  server's table.
- `TruncatesOnlyLarge` allows a block to be truncated although it fits, by the length of a
  name: `nameLength` is that of the last name read from the input (`Decoder.cs:294`).
  `Decodable` allows a connection to fail after a truncated block: a field that is
  skipped clears the table even if the Encoder never put it into its own
  (`Decoder.cs:307`). And it allows requests to fail after the server makes its table
  smaller, which `PackHeaders` never signals. Of two smaller sizes given to an Encoder
  before one block the Decoder refuses the first.
- An exception inside `Dequeue` keeps `semaphoreFrames` for ever (`FrameQueue.cs:87`, no
  `finally`): no other Write task dequeues, or ends after `Complete`; no `Enqueue` returns; a
  `Send` whose response is complete may wait for the `Enqueue` of its WINDOW_UPDATE
  without end (`Http2Client.cs:197`). The timeout covers line 156 only.
- An urgent frame may go between HEADERS and its CONTINUATION, which the protocol forbids.

**The node peer: flow control and streams.**

- `BodyArrives` names the three ways in which a dialogue stands still (`Stalled`): a
  WINDOW_UPDATE waits behind DATA at both ends (the TODO at `flow.js:109–111`); a frame
  waits for a window and nobody listens for `window_update` (`flow.js:182`); after
  END_STREAM the Readable calls `_read` no more, and the input waits (`stream.js:272–302`).
- A stream that the END_STREAM of its peer has closed answers a later WINDOW_UPDATE, BLOCKED or
  RST_STREAM of that peer with STREAM_CLOSED (`stream.js:566–572`): only after a close of
  its own does it ignore them. The comment at `stream.js:553–556` says that WINDOW_UPDATE
  must be ignored. BLOCKED has that answer also on a stream that closed by its own end: it is
  not among the frames of `stream.js:569–571`, and `_read` pushes it whenever the window is at
  0 and frames wait (`flow.js:178`), which may be behind END_STREAM, when SETTINGS have moved
  the window. `ErrorsAreLateFrames` says that nothing else has this answer,
  except a frame that was queued before `_transition` threw at the user who wrote it.
- A write after RST_STREAM of the peer throws with its frame already queued, and the peer
  then sees it. A stream that is created and reset sends RST_STREAM on an idle stream. A
  promised stream opened with END_STREAM stays HALF_CLOSED_LOCAL. The Serializer refuses
  the PRIORITY frame that `priority` makes.
- A stream that END_STREAM closes on a queued frame is counted as active for ever
  (`stream.js:349`).

**Connections.** A ping, a window update or a second end may be pushed after the end of the
connection. A stream early in a bucket that always has frames starves the others
(`connection.js:300`). A stream refused for its id is still used.

**Bytes.** A chunk that ends within the prelude is never acknowledged, and nothing is read any
more (`endpoint.js:90–118`); nor after a frame that is too large (`framer.js:115–119`) or a
payload too short for its reader, which throws. Padding is not checked. The
Deserializer is built without its role (`endpoint.js:183`).

**Headers.** The compressor uses a larger table before the ACK that enlarges the peer's
(`endpoint.js:193–196`): a block in between refers to what the peer has evicted and
ends in COMPRESSION_ERROR. It never writes a size update, and the decompressor bounds
none it reads. An index out of range, or an integer whose shifts overflow
(`compressor.js:449`), is not reported as an error of the stream. `name in headers` finds the
properties of `Object.prototype` (`compressor.js:1248`): a header called `constructor`
comes with a function for its first value, which `Meant` says. After a colon header
that comes late the headers so far are delivered as they are (1243–1246). When a
block is cut, END_STREAM stays on its first frame, while the comment at 1161–1162 says
that it is false before the end.

## What is not modelled

- Payload contents, TLS, the socket: data no property tells apart.
- A `Dictionary` corrupted by unsynchronised writers: its internal state is .NET's;
  what is modelled of the race is the duplicate `Add` that throws.
- `Connect`, `IsConnected` and `Disconnect` of the client, and `Http2MessageHandler` above
  them: what goes wrong there depends on when `Poll` of a socket is true and on two tasks
  reading one `NetworkStream`, which the repository does not determine. The hazards are
  listed.
- `Send`'s cutting of headers and body, `Ping`; the settings and frame codecs of the client,
  functions without state (the byte layouts of the same frames are in `NodeFramer`).
- `Decode` of a block in pieces and `useIndexing = false`, which nothing but tests of the
  original library uses; `HeaderEntry.Index` after 2^31 insertions.
- Huffman codes of both sides: tables and loops over bits. They enter as lengths in
  `HeaderFields` and as given codes in `NodeHeaders`.
- Of the peer: ALTSVC, priorities other than the two buckets of a promise,
  END_FLOW_CONTROL, padding on the way out, filters, and `_read` of the endpoint; `http.js`
  (the API of node's http module) and `index.js`.
- The test project's own code; logging.

## What could come next

- A model of `Connect` and `Disconnect` with a socket whose `Poll` is open.
- `SettingsCodec` and `FrameCodec` of the client against `NodeFramer`.
- Proofs about `NodePeers`: its operators rewritten as functions, and the invariants of a
  dialogue for each of its streams.
