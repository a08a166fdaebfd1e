---------------------------- MODULE HeaderBlocks ----------------------------
(***************************************************************************)
(* Header blocks from an Encoder to a Decoder, one after the other over    *)
(* one connection.  The two peers run the same code, but keep its objects  *)
(* for different times:                                                    *)
(*   - "none": both live as long as the connection, as RFC 7541 has it;    *)
(*   - "encoder": Util.PackHeaders makes a new one for each block: these   *)
(*     are the requests of HttpTwo, read by its server;                    *)
(*   - "decoder": Util.UnpackHeaders makes a new one for each block: the   *)
(*     responses.                                                          *)
(* The size of the table is changed between blocks, by the decoder's side; *)
(* in requests the encoder's side does not hear of it.                     *)
(***************************************************************************)
EXTENDS HPackEncoder, HPackDecoder

CONSTANTS Renewals,          \* a subset of {"none", "encoder", "decoder"}
          HeaderTableSize,   \* what a new object starts with
          Capacities,        \* what the size may be changed to
          MaxFields,         \* bound: fields of a block
          MaxBlocks,         \* bound: blocks
          MaxChanges         \* bound: changes of the size

ASSUME HeaderBlocksAssumption ==
  /\ Renewals \subseteq {"none", "encoder", "decoder"}
  /\ HeaderTableSize \in Nat /\ Capacities \subseteq Nat
  /\ {MaxFields, MaxBlocks, MaxChanges, MaxHeaderSize} \subseteq Nat
  /\ MaxBlocks * MaxFields <= MaxIndex   \* no index falls below zero

VARIABLES
  renews,     \* what is made anew for each block
  phase,      \* "between" blocks, while one is "packed", and "unpacked"
  packed,     \* the fields of the block, each with whether it is sensitive
  announced,  \* the size the decoder was given and the encoder was not yet
  blocks, changes,  \* how many of them there were
  truncated   \* EndHeaderBlock has returned true

vars == <<encoder, block, decoder, renews, phase, packed, announced, blocks, changes, truncated>>

Init ==
  /\ encoder = NewEncoder(HeaderTableSize)
  /\ decoder = NewDecoder(HeaderTableSize)
  /\ renews \in Renewals
  /\ block = <<>> /\ packed = <<>> /\ announced = <<>>
  /\ phase = "between" /\ blocks = 0 /\ changes = 0 /\ truncated = FALSE

\* The decoder's side announces a size, one between two blocks: Encoder writes
\* an update for each size it is given, and Decoder refuses the first of two
\* when the second is smaller.
Announce(c) ==
  /\ phase = "between" /\ renews = "none" /\ changes < MaxChanges
  /\ announced = <<>> /\ block = <<>>
  /\ decoder' = DecoderSetMax(decoder, c)
  /\ announced' = Append(announced, c)
  /\ changes' = changes + 1
  /\ UNCHANGED <<encoder, block, renews, phase, packed, blocks, truncated>>

\* The same for requests: SettingsFrame.ParsePayload does not find the size in
\* the frame, and the next Encoder is made as before.
AnnounceUnheard(c) ==
  /\ phase = "between" /\ renews = "encoder" /\ changes < MaxChanges
  /\ decoder' = DecoderSetMax(decoder, c)
  /\ changes' = changes + 1
  /\ UNCHANGED <<encoder, block, renews, phase, packed, announced, blocks, truncated>>

\* The encoder's side takes the size.
Comply ==
  /\ phase = "between" /\ announced # <<>>
  /\ SetMaxHeaderTableSize(Head(announced))
  /\ announced' = Tail(announced)
  /\ UNCHANGED <<decoder, renews, phase, packed, blocks, changes, truncated>>

PackHeaders ==
  /\ phase = "between" /\ announced = <<>> /\ blocks < MaxBlocks
  /\ encoder' = IF renews = "encoder" THEN NewEncoder(HeaderTableSize) ELSE encoder
  /\ phase' = "packed"
  /\ UNCHANGED <<block, decoder, renews, packed, announced, blocks, changes, truncated>>

PackHeader(f, sensitive) ==
  /\ phase = "packed" /\ Len(packed) < MaxFields
  /\ EncodeHeader(f, sensitive)
  /\ packed' = Append(packed, <<f, sensitive>>)
  /\ UNCHANGED <<decoder, renews, phase, announced, blocks, changes, truncated>>

UnpackHeaders ==
  /\ phase = "packed" /\ packed # <<>>
  /\ decoder' = IF renews = "decoder" THEN NewDecoder(HeaderTableSize) ELSE decoder
  /\ phase' = "unpacked"
  /\ UNCHANGED <<encoder, block, renews, packed, announced, blocks, changes, truncated>>

UnpackHeader ==
  /\ phase = "unpacked" /\ block # <<>> /\ ~decoder.failed
  /\ Decode(Head(block))
  /\ block' = Tail(block)
  /\ UNCHANGED <<encoder, renews, phase, packed, announced, blocks, changes, truncated>>

EndBlock ==
  /\ phase = "unpacked" /\ block = <<>> /\ ~decoder.failed
  /\ EndHeaderBlock
  /\ truncated' = (truncated \/ Truncated(decoder))
  /\ phase' = "between" /\ packed' = <<>> /\ blocks' = blocks + 1
  /\ UNCHANGED <<encoder, block, renews, announced, changes>>

Next ==
  \/ \E c \in Capacities : Announce(c) \/ AnnounceUnheard(c)
  \/ Comply
  \/ PackHeaders
  \/ \E f \in Fields, sensitive \in BOOLEAN : PackHeader(f, sensitive)
  \/ UnpackHeaders \/ UnpackHeader \/ EndBlock

Spec == Init /\ [][Next]_vars

-----------------------------------------------------------------------------
(* Properties.                                                             *)

EncoderTable == TableOf(encoder)

AnyTruncation == truncated \/ Truncated(decoder)

\* The three structures of Encoder agree after any Add, Remove and resize: the
\* linked list has consecutive indices, each bucket holds exactly its entries of
\* the list with the newest first, and size is theirs.
LinkedHashMap == Linked(encoder)

\* With no block in flight one table is the beginning of the other: Encoder and
\* Decoder evict alike, and an Encoder made for one block only refers to what it
\* put on top of the table of a Decoder that lives on.  The tables of a
\* connection are equal if no block was truncated.
TablesAgree ==
  phase # "unpacked" /\ block = <<>> /\ announced = <<>> =>
    /\ IsPrefix(decoder.table, EncoderTable) \/ IsPrefix(EncoderTable, decoder.table)
    /\ renews = "none" /\ ~truncated => decoder.table = EncoderTable

\* Decode gives its caller the fields EncodeHeader was given, in their order and
\* with their sensitivity, and never another one, truncated or not.
DeliversPrefix == IsPrefix(decoder.headers, packed)

\* A block that is read to its end without the fields all being delivered is
\* one that EndHeaderBlock reports ("truncation will be reported during
\* endHeaderBlock").
LossReported ==
  phase = "unpacked" /\ block = <<>> /\ ~decoder.failed /\ decoder.headers # packed
    => Truncated(decoder)

\* A block is only truncated if it is too large: it may be counted too large by
\* the length of a name, since ReadValue adds that of an earlier field.
TruncatesOnlyLarge ==
  Truncated(decoder) =>
    \E name \in Names :
      SumFunction([i \in DOMAIN packed |-> Bytes(packed[i][1])]) + WireLength[name]
        > MaxHeaderSize

\* The peer made its table smaller and PackHeaders starts as if it had not.
Unsignalled == renews = "encoder" /\ decoder.changeRequired

\* A Decoder can read what an Encoder wrote, block after block: indices are
\* legal and sizes signalled.  Only three things can make it throw: a truncated
\* block, whose fields it may have kept out of its table; a smaller table that
\* the Encoder of a request does not signal; and a response after the first.
Decodable ==
  decoder.failed => AnyTruncation \/ Unsignalled \/ (renews = "decoder" /\ blocks > 0)
=============================================================================
