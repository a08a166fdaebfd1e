----------------------------- MODULE NodeFramer -----------------------------
(***************************************************************************)
(* framer.js of the node server: frames to bytes (Serializer) and bytes,   *)
(* in chunks of any size, to frames (Deserializer).                        *)
(*                                                                         *)
(* A frame is a record of its type, its set of flags, its stream and the   *)
(* attributes of its type.  A Deserializer is a record:                    *)
(*                                                                         *)
(*   size, buffer         _buffer.length and what is in it                 *)
(*   header               _waitingForHeader                                *)
(*   frame                _frame                                           *)
(*   out, errors          the frames pushed and the errors emitted         *)
(*   stuck                _transform returned without calling done, or an  *)
(*                        exception left it                                *)
(***************************************************************************)
EXTENDS Integers, Sequences, FiniteSets, SequencesExt

CONSTANT MAX_PAYLOAD_SIZE

ASSUME FramerAssumption == MAX_PAYLOAD_SIZE \in Nat /\ MAX_PAYLOAD_SIZE < 2^16

COMMON_HEADER_SIZE == 9
WINDOW_UPDATE_PAYLOAD_SIZE == 4

\* Unsigned integers, the most significant byte first.
RECURSIVE WriteUInt(_, _)
WriteUInt(n, bytes) ==
  IF bytes = 0 THEN <<>> ELSE Append(WriteUInt(n \div 256, bytes - 1), n % 256)

ReadUInt(buffer, offset, bytes) ==
  FoldLeft(LAMBDA n, byte : n * 256 + byte, 0, SubSeq(buffer, offset + 1, offset + bytes))

\* readUInt32BE(offset) & 0x7fffffff
ReadUInt31(buffer, offset) ==
  ReadUInt(<<buffer[offset + 1] % 128>> \o SubSeq(buffer, offset + 2, offset + 4), 0, 4)

\* buffer.slice(start, -padding); a padding of 0 is left out.
Slice(buffer, start, padding) == SubSeq(buffer, start + 1, Len(buffer) - padding)

frameTypes ==
  <<"DATA", "HEADERS", "PRIORITY", "RST_STREAM", "SETTINGS", "PUSH_PROMISE", "PING",
    "GOAWAY", "WINDOW_UPDATE", "CONTINUATION", "ALTSVC", "BLOCKED">>

\* The flags of a type, the lowest bit first.
frameFlags(type) ==
  CASE type = "DATA" -> <<"END_STREAM", "RESERVED2", "RESERVED4", "PADDED">>
    [] type = "HEADERS" ->
         <<"END_STREAM", "RESERVED2", "END_HEADERS", "PADDED", "RESERVED5", "PRIORITY">>
    [] type \in {"SETTINGS", "PING"} -> <<"ACK">>
    [] type = "PUSH_PROMISE" -> <<"RESERVED1", "RESERVED2", "END_PUSH_PROMISE", "PADDED">>
    [] type = "CONTINUATION" -> <<"RESERVED1", "RESERVED2", "END_HEADERS">>
    [] OTHER -> <<>>

errorCodes ==
  <<"NO_ERROR", "PROTOCOL_ERROR", "INTERNAL_ERROR", "FLOW_CONTROL_ERROR", "SETTINGS_TIMEOUT",
    "STREAM_CLOSED", "FRAME_SIZE_ERROR", "REFUSED_STREAM", "CANCEL", "COMPRESSION_ERROR",
    "CONNECT_ERROR", "ENHANCE_YOUR_CALM", "INADEQUATE_SECURITY", "HTTP_1_1_REQUIRED">>

\* indexOf
IndexOf(seq, x) == CHOOSE i \in 0..(Len(seq) - 1) : seq[i + 1] = x

\* Unknown codes are INTERNAL_ERROR.
ErrorAt(code) == IF code < Len(errorCodes) THEN errorCodes[code + 1] ELSE "INTERNAL_ERROR"

\* SETTINGS_HEADER_TABLE_SIZE and so on, at their identifiers; the second is a flag.
definedSettings ==
  <<"HEADER_TABLE_SIZE", "ENABLE_PUSH", "MAX_CONCURRENT_STREAMS", "INITIAL_WINDOW_SIZE",
    "MAX_FRAME_SIZE">>

-----------------------------------------------------------------------------
(* The common header.                                                      *)

\* The flags that a byte has set, and the byte of a set of flags.
FlagByte(type, flags) ==
  FoldLeft(LAMBDA n, i : n + (IF frameFlags(type)[i] \in flags THEN 2^(i - 1) ELSE 0), 0,
           [i \in DOMAIN frameFlags(type) |-> i])
FlagsOf(type, byte) ==
  {frameFlags(type)[i] : i \in {j \in DOMAIN frameFlags(type) : (byte \div 2^(j - 1)) % 2 = 1}}

WriteCommonHeader(frame, payload) ==
  <<0>> \o WriteUInt(Len(payload), 2) \o <<IndexOf(frameTypes, frame.type)>>
    \o <<FlagByte(frame.type, frame.flags)>> \o WriteUInt(frame.stream, 4)

PayloadSize(buffer) == ReadUInt(buffer, 0, 3)

\* The frame so far; a type that is not known is "unknown".
ReadCommonHeader(buffer) ==
  IF buffer[4] >= Len(frameTypes) THEN [type |-> "unknown"]
  ELSE LET type == frameTypes[buffer[4] + 1]
       IN  [type |-> type, flags |-> FlagsOf(type, buffer[5]), stream |-> ReadUInt31(buffer, 5)]

-----------------------------------------------------------------------------
(* The payloads.  A reader gives the attributes it adds to the frame.      *)

PaddingOf(buffer, flags) == IF "PADDED" \in flags THEN buffer[1] ELSE 0
OffsetOf(flags) == IF "PADDED" \in flags THEN 1 ELSE 0

WriteData(frame) == frame.data
\* Mutant of ReadData: the padding is not cut off.
ReadDataPadded(buffer, flags) == [data |-> Slice(buffer, OffsetOf(flags), 0)]
ReadData(buffer, flags) == [data |-> Slice(buffer, OffsetOf(flags), PaddingOf(buffer, flags))]

\* Five bytes: the exclusive bit, the dependency and the weight.
WriteDependency(frame) ==
  LET word == WriteUInt(frame.priorityDependency, 4)
  IN  <<word[1] + (IF frame.exclusiveDependency THEN 128 ELSE 0)>> \o Tail(word)
        \o <<frame.priorityWeight>>
ReadDependency(buffer, offset) ==
  [exclusiveDependency |-> buffer[offset + 1] >= 128,
   priorityDependency |-> ReadUInt31(buffer, offset), priorityWeight |-> buffer[offset + 5]]

WriteHeadersPriority(frame) ==
  (IF "PRIORITY" \in frame.flags THEN WriteDependency(frame) ELSE <<>>) \o frame.data
ReadHeadersPriority(buffer, flags) ==
  LET offset == OffsetOf(flags)
      padding == PaddingOf(buffer, flags)
  IN  IF "PRIORITY" \in flags
      THEN ReadDependency(buffer, offset) @@ [data |-> Slice(buffer, offset + 5, padding)]
      ELSE [data |-> Slice(buffer, offset, padding)]

WritePriority(frame) == WriteDependency(frame)
ReadPriority(buffer) == ReadDependency(buffer, 0)

WriteRstStream(frame) == WriteUInt(IndexOf(errorCodes, frame.error), 4)
ReadRstStream(buffer) == [error |-> ErrorAt(ReadUInt(buffer, 0, 4))]

\* frame.settings is a function on some of the names; they are written in the
\* order of their identifiers.
WriteSettings(frame) ==
  FlattenSeq([id \in DOMAIN definedSettings |->
    IF definedSettings[id] \in DOMAIN frame.settings
    THEN WriteUInt(id, 2) \o WriteUInt(frame.settings[definedSettings[id]], 4) ELSE <<>>])

\* Settings that are not defined are left out, and of two the last counts.
ReadSettings(buffer) ==
  LET ids == [i \in 1..(Len(buffer) \div 6) |-> ReadUInt(buffer, 6 * (i - 1), 2)]
      places == {i \in DOMAIN ids : ids[i] \in DOMAIN definedSettings}
      lastOf(name) == CHOOSE i \in places :
        definedSettings[ids[i]] = name /\ \A j \in places : ids[j] = ids[i] => j <= i
      valueOf(i) == ReadUInt(buffer, 6 * (i - 1) + 2, 4)
  IN  [settings |-> [name \in {definedSettings[ids[i]] : i \in places} |->
         IF name = "ENABLE_PUSH" THEN valueOf(lastOf(name)) % 2 ELSE valueOf(lastOf(name))]]
ErrorOfSettings(buffer, flags) ==
  CASE "ACK" \in flags /\ buffer # <<>> -> "FRAME_SIZE_ERROR"
    [] Len(buffer) % 6 # 0 -> "PROTOCOL_ERROR"
    [] OTHER -> "none"

WritePushPromise(frame) == WriteUInt(frame.promised_stream, 4) \o frame.data
ReadPushPromise(buffer, flags) ==
  [promised_stream |-> ReadUInt31(buffer, OffsetOf(flags)),
   data |-> Slice(buffer, OffsetOf(flags) + 4, PaddingOf(buffer, flags))]

WritePing(frame) == frame.data
ReadPing(buffer) == [data |-> buffer]
ErrorOfPing(buffer) == IF Len(buffer) # 8 THEN "FRAME_SIZE_ERROR" ELSE "none"

WriteGoaway(frame) ==
  WriteUInt(frame.last_stream, 4) \o WriteUInt(IndexOf(errorCodes, frame.error), 4)
ReadGoaway(buffer) ==
  [last_stream |-> ReadUInt31(buffer, 0), error |-> ErrorAt(ReadUInt(buffer, 4, 4))]

WriteWindowUpdate(frame) == WriteUInt(frame.window_size, 4)
ReadWindowUpdate(buffer) == [window_size |-> ReadUInt31(buffer, 0)]
ErrorOfWindowUpdate(buffer) ==
  CASE Len(buffer) # WINDOW_UPDATE_PAYLOAD_SIZE -> "FRAME_SIZE_ERROR"
    [] ReadUInt31(buffer, 0) = 0 -> "PROTOCOL_ERROR"
    [] OTHER -> "none"

WriteContinuation(frame) == frame.data
ReadContinuation(buffer) == [data |-> buffer]

WriteBlocked(frame) == <<>>
ReadBlocked(buffer) == <<>>

-----------------------------------------------------------------------------
(* Serializer._transform.                                                  *)

WritePayload(frame) ==
  CASE frame.type = "DATA" -> WriteData(frame)
    [] frame.type = "HEADERS" -> WriteHeadersPriority(frame)
    [] frame.type = "PRIORITY" -> WritePriority(frame)
    [] frame.type = "RST_STREAM" -> WriteRstStream(frame)
    [] frame.type = "SETTINGS" -> WriteSettings(frame)
    [] frame.type = "PUSH_PROMISE" -> WritePushPromise(frame)
    [] frame.type = "PING" -> WritePing(frame)
    [] frame.type = "GOAWAY" -> WriteGoaway(frame)
    [] frame.type = "WINDOW_UPDATE" -> WriteWindowUpdate(frame)
    [] frame.type = "CONTINUATION" -> WriteContinuation(frame)
    [] frame.type = "BLOCKED" -> WriteBlocked(frame)

Serialize(frame) == WriteCommonHeader(frame, WritePayload(frame)) \o WritePayload(frame)

\* The assertions of the writers.
CanSerialize(frame) == frame.stream < 2147483647 /\ Len(WritePayload(frame)) <= MAX_PAYLOAD_SIZE

-----------------------------------------------------------------------------
(* Deserializer.                                                           *)

\* The bytes that a reader takes without asking for the length of its buffer:
\* with fewer it throws.
Needed(type, flags) ==
  CASE type \in {"RST_STREAM"} -> 4
    [] type = "PRIORITY" -> 5
    [] type = "GOAWAY" -> 8
    [] type = "HEADERS" -> OffsetOf(flags) + (IF "PRIORITY" \in flags THEN 5 ELSE 0)
    [] type = "PUSH_PROMISE" -> OffsetOf(flags) + 4
    [] OTHER -> OffsetOf(flags)

\* What a reader returns instead of completing the frame.
PayloadError(type, buffer, flags) ==
  CASE type = "SETTINGS" -> ErrorOfSettings(buffer, flags)
    [] type = "PING" -> ErrorOfPing(buffer)
    [] type = "WINDOW_UPDATE" -> ErrorOfWindowUpdate(buffer)
    [] OTHER -> "none"

ReadPayload(type, buffer, flags) ==
  CASE type = "DATA" -> ReadData(buffer, flags)
    [] type = "HEADERS" -> ReadHeadersPriority(buffer, flags)
    [] type = "PRIORITY" -> ReadPriority(buffer)
    [] type = "RST_STREAM" -> ReadRstStream(buffer)
    [] type = "SETTINGS" -> ReadSettings(buffer)
    [] type = "PUSH_PROMISE" -> ReadPushPromise(buffer, flags)
    [] type = "PING" -> ReadPing(buffer)
    [] type = "GOAWAY" -> ReadGoaway(buffer)
    [] type = "WINDOW_UPDATE" -> ReadWindowUpdate(buffer)
    [] type = "CONTINUATION" -> ReadContinuation(buffer)
    [] type = "BLOCKED" -> ReadBlocked(buffer)

NewDeserializer ==
  [size |-> COMMON_HEADER_SIZE, buffer |-> <<>>, header |-> TRUE, frame |-> [type |-> "none"],
   out |-> <<>>, errors |-> <<>>, stuck |-> FALSE]

\* _next
NextHeader(d) ==
  [d EXCEPT !.size = COMMON_HEADER_SIZE, !.buffer = <<>>, !.header = TRUE,
            !.frame = [type |-> "none"]]

\* Mutant of EndPayload: an error of the payload stops the reading.
EndPayloadStops(d, buffer) ==
  LET type == d.frame.type
      flags == d.frame.flags
      error == PayloadError(type, buffer, flags)
  IN  IF type = "unknown" THEN NextHeader(d)
      ELSE IF Len(buffer) < Needed(type, flags) THEN [d EXCEPT !.stuck = TRUE]
      ELSE IF error # "none" THEN [d EXCEPT !.errors = Append(@, error), !.stuck = TRUE]
      ELSE NextHeader([d EXCEPT !.out = Append(@, ReadPayload(type, buffer, flags) @@ d.frame)])

\* The payload of d.frame is there.
EndPayload(d, buffer) ==
  LET type == d.frame.type
      flags == d.frame.flags
      error == PayloadError(type, buffer, flags)
  IN  IF type = "unknown" THEN NextHeader(d)
      ELSE IF Len(buffer) < Needed(type, flags) THEN [d EXCEPT !.stuck = TRUE]
      ELSE IF error # "none" THEN NextHeader([d EXCEPT !.errors = Append(@, error)])
      ELSE NextHeader([d EXCEPT !.out = Append(@, ReadPayload(type, buffer, flags) @@ d.frame)])

\* Mutant of EndHeader: the payload is awaited even when there is none.
EndHeaderWaits(d, buffer) ==
  IF PayloadSize(buffer) > MAX_PAYLOAD_SIZE
  THEN [d EXCEPT !.errors = Append(@, "FRAME_SIZE_ERROR"), !.stuck = TRUE]
  ELSE [d EXCEPT !.frame = ReadCommonHeader(buffer), !.size = PayloadSize(buffer),
                 !.buffer = <<>>, !.header = FALSE]

\* The header is there; a frame without payload is complete.
EndHeader(d, buffer) ==
  LET size == PayloadSize(buffer)
      begun == [d EXCEPT !.frame = ReadCommonHeader(buffer), !.size = size,
                         !.buffer = <<>>, !.header = FALSE]
  IN  IF size > MAX_PAYLOAD_SIZE
      THEN [d EXCEPT !.errors = Append(@, "FRAME_SIZE_ERROR"), !.stuck = TRUE]
      ELSE IF size = 0 THEN EndPayload(begun, <<>>) ELSE begun

\* _transform with a chunk, a byte at a time.
TakeByte(d, byte) ==
  LET filled == Append(d.buffer, byte)
  IN  IF d.stuck THEN d
      ELSE IF Len(filled) < d.size THEN [d EXCEPT !.buffer = filled]
      ELSE IF d.header THEN EndHeader(d, filled)
      ELSE EndPayload(d, filled)

Transform(d, chunk) == FoldLeft(TakeByte, d, chunk)
=============================================================================
