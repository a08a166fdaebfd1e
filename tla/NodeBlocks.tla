----------------------------- MODULE NodeBlocks -----------------------------
(***************************************************************************)
(* Header blocks from one endpoint of the node server to another, with the *)
(* size of the table changed by SETTINGS on the way.  The frames take      *)
(* three queues: out of the connection and into the compressor (output),   *)
(* from the compressor to the decompressor of the peer (wire), and from    *)
(* there into its connection (input).  The peer changes the size of its    *)
(* decompressor's table when its connection reads the ACK; the compressor  *)
(* changes its own when the SETTINGS come, while the ACK is put into the   *)
(* output queue behind what already waits there.                           *)
(***************************************************************************)
EXTENDS NodeHeaders, TLC

CONSTANTS HeaderSets,   \* what may be sent, with the type of its frame
          Limits,       \* SETTINGS_HEADER_TABLE_SIZE
          MaxBlocks,    \* bound: header sets
          MaxSettings   \* bound: changes of the limit

ASSUME BlocksAssumption == Limits \subseteq Nat /\ {MaxBlocks, MaxSettings} \subseteq Nat

VARIABLES
  compressor,  \* the HeaderTable of the Compressor
  output, wire, input,
  decompressor,  \* table; base, the frame in progress, and frames, the data that
                 \* is collected; error, and stuck if done was not called
  limits,      \* the limits there were, in the order of the SETTINGS
  heard,       \* how many of them the compressor has taken
  applied,     \* how many the decompressor has
  sent, got,   \* the header sets that were sent and the headers that came
  overtaken    \* a block was read before a growth it was written after

vars == <<compressor, output, wire, input, decompressor, limits, heard, applied, sent, got, overtaken>>

NoFrame == [type |-> "none", stream |-> 0]

Init ==
  /\ compressor = HeaderTable
  /\ decompressor = [table |-> HeaderTable, base |-> NoFrame, frames |-> <<>>,
                     error |-> "none", stuck |-> FALSE]
  /\ output = <<>> /\ wire = <<>> /\ input = <<>>
  /\ limits = <<DEFAULT_HEADER_TABLE_LIMIT>> /\ heard = 1 /\ applied = 1
  /\ sent = <<>> /\ got = <<>> /\ overtaken = FALSE

\* A stream sends a header set.
SendHeaders(type, headers) ==
  /\ Len(sent) < MaxBlocks
  /\ output' = Append(output, [type |-> type, stream |-> Len(sent) + 1, headers |-> headers])
  /\ sent' = Append(sent, headers)
  /\ UNCHANGED <<compressor, wire, input, decompressor, limits, heard, applied, got, overtaken>>

\* Mutant of SetLimit: the peer does not wait for the ACK.
SetLimitAtOnce(limit) ==
  /\ Len(limits) <= MaxSettings
  /\ limits' = Append(limits, limit)
  /\ decompressor' = [decompressor EXCEPT !.table = SetSizeLimit(@, limit)]
  /\ UNCHANGED <<compressor, output, wire, input, heard, applied, sent, got, overtaken>>

\* Connection.set of the peer.
SetLimit(limit) ==
  /\ Len(limits) <= MaxSettings
  /\ limits' = Append(limits, limit)
  /\ UNCHANGED <<compressor, output, wire, input, decompressor, heard, applied, sent, got, overtaken>>

\* RECEIVING_SETTINGS_HEADER_TABLE_SIZE, after the ACK is pushed.
ReceiveLimit ==
  /\ heard < Len(limits)
  /\ output' = Append(output, [type |-> "ACK", stream |-> 0])
  /\ compressor' = SetSizeLimit(compressor, limits[heard + 1])
  /\ heard' = heard + 1
  /\ UNCHANGED <<wire, input, decompressor, limits, applied, sent, got, overtaken>>

\* Compressor._transform
CompressFrame ==
  /\ output # <<>>
  /\ LET frame == Head(output)
         block == Compress(compressor, frame.headers)
     IN  IF frame.type = "ACK"
         THEN wire' = Append(wire, [frame |-> frame, heard |-> heard]) /\ UNCHANGED compressor
         ELSE LET chunks == ChunkFrames(frame.type, frame.stream, block.data)
              IN  /\ wire' = wire \o [i \in DOMAIN chunks |-> [frame |-> chunks[i], heard |-> heard]]
                  /\ compressor' = block.table
  /\ output' = Tail(output)
  /\ UNCHANGED <<input, decompressor, limits, heard, applied, sent, got, overtaken>>

\* The end of a block; done is not called when an exception was thrown.
EndBlock(base, data) ==
  \E read \in {Decompress(decompressor.table, data)} :
      /\ decompressor' =
           [decompressor EXCEPT !.table = read.table, !.stuck = read.thrown,
                                !.base = IF read.thrown THEN base ELSE NoFrame, !.frames = <<>>,
                                !.error = IF read.thrown THEN "COMPRESSION_ERROR" ELSE read.error]
      /\ input' = IF read.thrown THEN input
                  ELSE Append(input, [type |-> base.type, stream |-> base.stream, headers |-> read.headers])

\* The limits that a block was written after and is read before.
Missing(frame) == (applied + 1)..frame.heard

\* Decompressor._transform
DecompressFrame ==
  /\ wire # <<>> /\ ~decompressor.stuck
  /\ LET frame == Head(wire).frame
         inProgress == decompressor.base # NoFrame
         base == IF inProgress THEN decompressor.base ELSE frame
         data == decompressor.frames \o frame.data
     IN  CASE inProgress /\ (frame.type # "CONTINUATION" \/ frame.stream # decompressor.base.stream) ->
                /\ decompressor' = [decompressor EXCEPT !.error = "PROTOCOL_ERROR", !.stuck = TRUE]
                /\ UNCHANGED <<input, overtaken>>
           [] ~inProgress /\ frame.type \notin {"HEADERS", "PUSH_PROMISE"} ->
                /\ input' = Append(input, frame)
                /\ UNCHANGED <<decompressor, overtaken>>
           [] OTHER ->
                IF frame.end
                THEN /\ EndBlock(base, data)
                     /\ overtaken' = (overtaken \/ \E i \in Missing(Head(wire)) : limits[i - 1] < limits[i])
                ELSE /\ decompressor' =
                          [decompressor EXCEPT !.base = [type |-> base.type, stream |-> base.stream],
                                               !.frames = data]
                     /\ UNCHANGED <<input, overtaken>>
  /\ wire' = Tail(wire)
  /\ UNCHANGED <<compressor, output, limits, heard, applied, sent, got>>

\* The connection of the peer reads; ACKNOWLEDGED_SETTINGS_HEADER_TABLE_SIZE.
ReceiveFrame ==
  /\ input # <<>>
  /\ LET frame == Head(input)
     IN  IF frame.type = "ACK"
         THEN /\ decompressor' =
                   [decompressor EXCEPT !.table = SetSizeLimit(@, limits[applied + 1])]
              /\ applied' = applied + 1
              /\ UNCHANGED got
         ELSE /\ got' = Append(got, frame.headers)
              /\ UNCHANGED <<decompressor, applied>>
  /\ input' = Tail(input)
  /\ UNCHANGED <<compressor, output, wire, limits, heard, sent, overtaken>>

Next ==
  \/ \E item \in HeaderSets : SendHeaders(item.type, item.headers)
  \/ \E limit \in Limits : SetLimit(limit)
  \/ ReceiveLimit \/ CompressFrame \/ DecompressFrame \/ ReceiveFrame

Spec == Init /\ [][Next]_vars

-----------------------------------------------------------------------------
(* Properties.                                                             *)

\* The values that some header set has for a name in lower case.
Given(headers, name) ==
  FlattenSeq([i \in DOMAIN headers |-> IF Lower[headers[i].name] = name THEN headers[i].values ELSE <<>>])

\* What is to come of a header set.
Meant(headers) ==
  [name \in {n \in {Lower[headers[i].name] : i \in DOMAIN headers} : Given(headers, n) # <<>>} |->
    IF name = "cookie" THEN <<FlattenSeq(Given(headers, name))>>
    ELSE (IF name \in Inherited THEN <<Native>> ELSE <<>>) \o Given(headers, name)]

\* The headers that come are those that were sent, in their order, whatever was
\* indexed, evicted, cut or resized on the way, and the decompressor takes no frame
\* for a wrong one, unless a block was read before a growth of the table it was
\* written after: the ACK waits behind it.
HeadersArrive ==
  overtaken \/ /\ IsPrefix(got, [i \in DOMAIN sent |-> Meant(sent[i])])
               /\ decompressor.error = "none"

\* The pairs of a table.
Held(table) == ToSet(table.entries)

\* What must never be indexed is in neither table: an intermediary could be made
\* to guess it.
SecretsNotHeld ==
  \A pair \in Held(compressor) \cup Held(decompressor.table) : ~MustNeverIndex(pair)

\* Each table counts its size right and keeps the limit it was given last.
LimitsKept ==
  \A table \in {compressor, decompressor.table} :
    /\ table.size = FoldLeft(LAMBDA n, pair : n + SizeOf(pair), 0, table.entries)
    /\ table.size <= table.limit

\* The compressor never refers to a pair that the peer has evicted: with nothing
\* on the wire its table is the beginning of the decompressor's, and the same
\* once the peer has its ACKs, unless a block was overtaken.
TablesAgree ==
  /\ wire = <<>> /\ ~overtaken
  /\ \A i \in (applied + 1)..heard : limits[i] <= limits[i - 1]
  => /\ IsPrefix(compressor.entries, decompressor.table.entries)
     /\ applied = heard => compressor.entries = decompressor.table.entries
=============================================================================
