---------------------------- MODULE NodeEndpoint ----------------------------
(***************************************************************************)
(* endpoint.js of the node server as the receiver of a byte stream: the    *)
(* prelude of the client, which a temporary _write compares, and then the  *)
(* Deserializer.  A client sends its prelude and some items, frames or     *)
(* bytes that are not one; the transport cuts the bytes into chunks.       *)
(***************************************************************************)
EXTENDS NodeFramer, TLC

CONSTANTS CLIENT_PRELUDE,   \* its bytes, fewer than there are
          Items,            \* what may be sent: records with the fields
                            \*   bytes, what is sent
                            \*   frame, <<the frame>> that is meant, or <<>>
                            \*   stops, whether it ends the reading
          MaxItems,         \* how many are sent
          ChunkSizes        \* how many bytes may come at once

ASSUME EndpointAssumption == CLIENT_PRELUDE # <<>> /\ MaxItems \in Nat

VARIABLES sent,    \* the items that the client has sent
          wire,    \* the bytes that are on their way
          cursor,  \* the bytes of the prelude that are compared
          write,   \* "prelude", "deserializer", or "none": the last chunk has not
                   \* been acknowledged, so no other will come
          des      \* the Deserializer

vars == <<sent, wire, cursor, write, des>>

Init ==
  /\ sent = <<>> /\ wire = CLIENT_PRELUDE /\ cursor = 0
  /\ write = "prelude" /\ des = NewDeserializer

Send(item) ==
  /\ Len(sent) < MaxItems
  /\ sent' = Append(sent, item)
  /\ wire' = wire \o item.bytes
  /\ UNCHANGED <<cursor, write, des>>

\* The part of a chunk after the prelude.
Rest(chunk, compared) == SubSeq(chunk, compared + 1, Len(chunk))

\* _temporalWrite.  It calls done only by way of the Deserializer: a chunk that
\* ends within the prelude, or differs from it, is never acknowledged.
ComparePrelude(chunk) ==
  LET left == SubSeq(CLIENT_PRELUDE, cursor + 1, Len(CLIENT_PRELUDE))
      n == IF Len(chunk) < Len(left) THEN Len(chunk) ELSE Len(left)
      matches == SubSeq(chunk, 1, n) = SubSeq(left, 1, n)
      read == Transform(des, Rest(chunk, n))
      complete == matches /\ n = Len(left)
  IN  /\ cursor' = IF matches THEN cursor + n ELSE cursor
      /\ des' = IF complete THEN read ELSE des
      /\ write' = IF complete /\ ~read.stuck THEN "deserializer" ELSE "none"

\* _write
WriteChunk(chunk) ==
  /\ des' = Transform(des, chunk)
  /\ write' = IF des'.stuck THEN "none" ELSE write
  /\ UNCHANGED cursor

Receive(n) ==
  /\ 0 < n /\ n <= Len(wire) /\ write # "none"
  /\ IF write = "prelude" THEN ComparePrelude(SubSeq(wire, 1, n)) ELSE WriteChunk(SubSeq(wire, 1, n))
  /\ wire' = SubSeq(wire, n + 1, Len(wire))
  /\ UNCHANGED sent

Next == (\E item \in Items : Send(item)) \/ (\E n \in ChunkSizes : Receive(n))

Spec == Init /\ [][Next]_vars

-----------------------------------------------------------------------------
\* The bytes of some items, and those of all that are sent but not on the wire.
BytesOf(items) == FlattenSeq([i \in DOMAIN items |-> items[i].bytes])
Taken == Len(BytesOf(sent)) - Len(wire)

\* The frames that some items mean.
Meant(items) == FlattenSeq([i \in DOMAIN items |-> items[i].frame])

\* However the transport cuts the bytes, the Deserializer pushes the frames that
\* were sent, attribute by attribute and in their order, and an item that is no
\* frame, whether skipped or answered by an error, costs no other item a byte.
FramesAsMeant == IsPrefix(des.out, Meant(sent))

\* An item is not kept waiting for bytes after its own: once its last byte is
\* taken, also as the last of a chunk or without any payload, it has been pushed.
NothingKept ==
  write = "deserializer" =>
    \A i \in 0..Len(sent) :
      Len(BytesOf(SubSeq(sent, 1, i))) <= Taken
        => Len(des.out) >= Len(Meant(SubSeq(sent, 1, i)))

\* The endpoint stops to read for good in three cases only: the prelude is cut or
\* differs, a frame is too large, or a payload is too short for its reader.  The
\* other errors, and types nobody knows, leave it reading.
StopsOnlyFor ==
  write = "none" =>
    \/ cursor < Len(CLIENT_PRELUDE)
    \/ \E i \in DOMAIN sent :
         sent[i].stops /\ Len(BytesOf(SubSeq(sent, 1, i - 1))) < Taken
=============================================================================
