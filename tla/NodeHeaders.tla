---------------------------- MODULE NodeHeaders ----------------------------
(***************************************************************************)
(* compressor.js of the node server: header sets to the bytes of header    *)
(* blocks and back, with a HeaderTable at either end.                      *)
(*                                                                         *)
(* A text is a sequence of pieces: "p; q" is <<"p", "q">>, and what is not *)
(* a cookie has one piece.  A header set, an object, is a sequence of      *)
(* records [name, values] in the order of its properties, a name being a   *)
(* piece.  A header frame that leaves the compressor has only its header   *)
(* set read and data put in its place.                                     *)
(*                                                                         *)
(* A HeaderTable is a record:                                              *)
(*   entries   the pairs after the static ones, newest first               *)
(*   size      _size                                                       *)
(*   limit     _limit                                                      *)
(***************************************************************************)
EXTENDS Integers, Sequences, SequencesExt, FiniteSets, FiniteSetsExt, Functions

CONSTANTS
  Plain,          \* the bytes of a piece
  Huffman,        \* the Huffman codes of the texts that have a shorter one
  Texts,          \* all texts
  Lower,          \* a name in lower case
  ColonNames,     \* the names that begin with a colon
  Inherited,      \* the names that every object has a property of
  StaticTable,    \* HeaderTable.staticTable: pairs <<name, text>>
  DEFAULT_HEADER_TABLE_LIMIT,
  MAX_HTTP_PAYLOAD_SIZE

ASSUME HeadersAssumption ==
  /\ \A text \in DOMAIN Huffman : text \in Texts
  /\ ColonNames \subseteq DOMAIN Lower
  /\ DEFAULT_HEADER_TABLE_LIMIT \in Nat
  /\ MAX_HTTP_PAYLOAD_SIZE \in Nat /\ MAX_HTTP_PAYLOAD_SIZE > 4

\* The pieces are joined by a semicolon and a space.
Bytes ==
  [text \in Texts |-> FoldLeft(LAMBDA bytes, piece : bytes \o <<59, 32>> \o Plain[piece],
                              Plain[Head(text)], Tail(text))]

-----------------------------------------------------------------------------
(* The HeaderTable.                                                        *)

SizeOf(pair) == Len(Plain[pair[1]]) + Len(Bytes[pair[2]]) + 32

HeaderTable == [entries |-> <<>>, size |-> 0, limit |-> DEFAULT_HEADER_TABLE_LIMIT]

RECURSIVE EnforceLimit(_, _)
EnforceLimit(table, limit) ==
  IF table.size > 0 /\ table.size > limit
  THEN EnforceLimit([table EXCEPT !.entries = Front(@), !.size = @ - SizeOf(Last(table.entries))],
                    limit)
  ELSE table

\* Mutant of AddPair: room is made after the pair is in.
AddPairFirst(table, pair) ==
  LET full == [table EXCEPT !.entries = <<pair>> \o @, !.size = @ + SizeOf(pair)]
  IN  IF table.size <= table.limit THEN full ELSE EnforceLimit(full, table.limit)

AddPair(table, pair) ==
  LET limit == table.limit - SizeOf(pair)
      evicted == EnforceLimit(table, limit)
  IN  IF evicted.size <= limit
      THEN [evicted EXCEPT !.entries = <<pair>> \o @, !.size = @ + SizeOf(pair)]
      ELSE evicted

SetSizeLimit(table, limit) == EnforceLimit([table EXCEPT !.limit = limit], limit)

\* Static and other pairs, in one index that begins at 0.
PairsOf(table) == StaticTable \o table.entries
PairAt(table, index) == PairsOf(table)[index + 1]
HasIndex(table, index) == index + 1 \in DOMAIN PairsOf(table)

-----------------------------------------------------------------------------
(* Integers, strings and header representations.                           *)

RECURSIVE Groups(_)
Groups(I) == IF I < 128 THEN <<I>> ELSE <<(I % 128) + 128>> \o Groups(I \div 128)

WriteInteger(I, N) ==
  IF I < 2^N - 1 THEN <<I>> ELSE <<2^N - 1>> \o Groups(I - (2^N - 1))

\* The integer at a cursor, and the cursor after it.
ReadInteger(buffer, cursor, N) ==
  LET prefix == buffer[cursor] % 2^N
      last == CHOOSE i \in DOMAIN buffer :
                i > cursor /\ buffer[i] < 128 /\ \A j \in (cursor + 1)..(i - 1) : buffer[j] >= 128
      rest == FoldRight(LAMBDA byte, I : (byte % 128) + 128 * I, SubSeq(buffer, cursor + 1, last), 0)
  IN  IF prefix < 2^N - 1 THEN [value |-> prefix, cursor |-> cursor + 1]
      ELSE [value |-> prefix + rest, cursor |-> last + 1]

\* The same number with bits of a pattern set in its first byte.
Marked(bytes, pattern) == <<bytes[1] + pattern>> \o Tail(bytes)

WriteString(text) ==
  IF text \in DOMAIN Huffman /\ Len(Huffman[text]) < Len(Bytes[text])
  THEN Marked(WriteInteger(Len(Huffman[text]), 7), 128) \o Huffman[text]
  ELSE WriteInteger(Len(Bytes[text]), 7) \o Bytes[text]

ReadText(buffer, huffman, length) ==
  LET after == length.cursor + length.value
      encoded == SubSeq(buffer, length.cursor, after - 1)
  IN  [value |-> IF huffman THEN CHOOSE t \in DOMAIN Huffman : Huffman[t] = encoded
                 ELSE CHOOSE t \in Texts : Bytes[t] = encoded,
       cursor |-> after]
ReadString(buffer, cursor) ==
  ReadText(buffer, buffer[cursor] >= 128, ReadInteger(buffer, cursor, 7))

\* A representation has a kind of these, an index or -1, and the literal name
\* and value where it has them.
representations ==
  [indexed             |-> [prefix |-> 7, pattern |-> 128],
   literalIncremental  |-> [prefix |-> 6, pattern |-> 64],
   contextUpdate       |-> [prefix |-> 5, pattern |-> 32],
   literalNeverIndexed |-> [prefix |-> 4, pattern |-> 16],
   literal             |-> [prefix |-> 4, pattern |-> 0]]

WriteHeader(rep) ==
  LET form == representations[rep.kind]
      index == Marked(WriteInteger(rep.index + 1, form.prefix), form.pattern)
  IN  IF rep.kind = "indexed" THEN index
      ELSE index \o (IF rep.index = -1 THEN WriteString(<<rep.name>>) ELSE <<>>)
             \o WriteString(rep.value)

KindOf(byte) ==
  CASE byte >= 128 -> "indexed"
    [] byte >= 64 /\ byte < 128 -> "literalIncremental"
    [] byte >= 32 /\ byte < 64 -> "contextUpdate"
    [] byte >= 16 /\ byte < 32 -> "literalNeverIndexed"
    [] OTHER -> "literal"

\* A representation of a kind, of which the number is read.
ReadAfterNumber(buffer, kind, number) ==
  LET name == IF number.value = 0 THEN ReadString(buffer, number.cursor) ELSE number
      value == ReadString(buffer, name.cursor)
  IN  CASE kind = "contextUpdate" ->
             [kind |-> kind, newMaxSize |-> number.value, cursor |-> number.cursor]
        [] kind = "indexed" -> [kind |-> kind, index |-> number.value - 1, cursor |-> number.cursor]
        [] OTHER -> [kind |-> kind, index |-> number.value - 1, value |-> value.value,
                     name |-> IF number.value = 0 THEN Head(name.value) ELSE "none",
                     cursor |-> value.cursor]

\* The representation at a cursor, and the cursor after it.
ReadHeader(buffer, cursor) ==
  LET kind == KindOf(buffer[cursor])
  IN  ReadAfterNumber(buffer, kind, ReadInteger(buffer, cursor, representations[kind].prefix))

-----------------------------------------------------------------------------
(* The compressor.                                                         *)

MustNeverIndex(pair) ==
  \/ pair[1] \in {"cookie", "set-cookie"} /\ Len(Bytes[pair[2]]) < 20
  \/ pair[1] = "authorization"

\* The first of some indices, or -1.
First(indices) == IF indices = {} THEN -1 ELSE Min(indices) - 1

\* Mutant of Representation: a pair that must never be indexed may be indexed.
RepresentationOfAny(table, pair) ==
  LET pairs == PairsOf(table)
      full == First({i \in DOMAIN pairs : pairs[i] = pair})
      name == First({i \in DOMAIN pairs : pairs[i][1] = pair[1]})
  IN  IF full # -1 THEN [kind |-> "indexed", index |-> full]
      ELSE [kind |-> IF 2 * SizeOf(pair) < table.limit THEN "literalIncremental" ELSE "literal",
            index |-> name, name |-> pair[1], value |-> pair[2]]

\* The search for a full match ends at it: a name match comes before it.
Representation(table, pair) ==
  LET pairs == PairsOf(table)
      full == First({i \in DOMAIN pairs : pairs[i] = pair})
      name == First({i \in DOMAIN pairs : pairs[i][1] = pair[1] /\ (full = -1 \/ i <= full)})
      indexing == 2 * SizeOf(pair) < table.limit
  IN  IF full # -1 /\ ~MustNeverIndex(pair) THEN [kind |-> "indexed", index |-> full]
      ELSE [kind |-> CASE MustNeverIndex(pair) -> "literalNeverIndexed"
                       [] ~MustNeverIndex(pair) /\ indexing -> "literalIncremental"
                       [] OTHER -> "literal",
            index |-> name, name |-> pair[1], value |-> pair[2]]

\* HeaderSetCompressor._transform
CompressPair(compressed, pair) ==
  LET rep == Representation(compressed.table, pair)
  IN  [table |-> IF rep.kind = "literalIncremental" THEN AddPair(compressed.table, pair)
                 ELSE compressed.table,
       data |-> compressed.data \o WriteHeader(rep)]

\* The values of a header; a cookie is split.
ValuesOf(header) ==
  IF Lower[header.name] = "cookie"
  THEN LET pieces == FlattenSeq(header.values) IN [i \in DOMAIN pieces |-> <<pieces[i]>>]
  ELSE header.values

\* The pairs to write, colon headers first.
Pairs(headers) ==
  LET colon == SelectSeq(headers, LAMBDA header : header.name \in ColonNames)
      others == SelectSeq(headers, LAMBDA header : header.name \notin ColonNames)
      ordered == colon \o others
  IN  FlattenSeq([i \in DOMAIN ordered |->
        [j \in DOMAIN ValuesOf(ordered[i]) |-> <<Lower[ordered[i].name], ValuesOf(ordered[i])[j]>>]])

\* compress: the table after it and the header block.
Compress(table, headers) ==
  FoldLeft(CompressPair, [table |-> table, data |-> <<>>], Pairs(headers))

\* Chunks not larger than size; one, if there is nothing.
RECURSIVE Cut(_, _)
Cut(buffer, size) ==
  IF Len(buffer) <= size THEN <<buffer>>
  ELSE <<SubSeq(buffer, 1, size)>> \o Cut(SubSeq(buffer, size + 1, Len(buffer)), size)

\* The frames that a header frame of this type becomes.
ChunkFrames(type, stream, data) ==
  LET chunks == Cut(data, MAX_HTTP_PAYLOAD_SIZE - (IF type = "PUSH_PROMISE" THEN 4 ELSE 0))
  IN  [i \in DOMAIN chunks |->
        [type |-> IF i = 1 THEN type ELSE "CONTINUATION", stream |-> stream,
         end |-> i = Len(chunks), data |-> chunks[i]]]

-----------------------------------------------------------------------------
(* The decompressor.  While it works on a block it is a record of the      *)
(* table, the pairs so far and whether an exception was thrown.            *)

\* Mutant of Execute: a literal without indexing is indexed too.
ExecuteAll(work, rep) ==
  LET pair == IF rep.kind = "indexed" THEN PairAt(work.table, rep.index)
              ELSE <<IF rep.index = -1 THEN rep.name ELSE PairAt(work.table, rep.index)[1], rep.value>>
  IN  [work EXCEPT !.pairs = Append(@, pair),
                   !.table = IF rep.kind = "indexed" THEN @ ELSE AddPair(@, pair)]

Execute(work, rep) ==
  IF rep.kind = "contextUpdate"
  THEN [work EXCEPT !.table = SetSizeLimit(@, rep.newMaxSize)]
  ELSE IF (rep.kind = "indexed" \/ rep.index # -1) /\ ~HasIndex(work.table, rep.index)
       THEN [work EXCEPT !.thrown = TRUE]
  ELSE LET pair == IF rep.kind = "indexed" THEN PairAt(work.table, rep.index)
                   ELSE <<IF rep.index = -1 THEN rep.name ELSE PairAt(work.table, rep.index)[1],
                          rep.value>>
       IN  [work EXCEPT !.pairs = Append(@, pair),
                        !.table = IF rep.kind = "literalIncremental" THEN AddPair(@, pair) ELSE @]

\* HeaderSetDecompressor._flush
RECURSIVE ExecuteFrom(_, _, _)
ExecuteFrom(work, buffer, cursor) ==
  IF cursor > Len(buffer) \/ work.thrown THEN work
  ELSE LET rep == ReadHeader(buffer, cursor)
       IN  ExecuteFrom(Execute(work, rep), buffer, rep.cursor)

\* A pair is put into the object of headers, here a function of the names; an
\* inherited property is taken for a value that was there.
Native == <<"native">>
PutPair(headers, pair) ==
  LET before == IF pair[1] \in DOMAIN headers THEN headers[pair[1]]
                ELSE IF pair[1] \in Inherited THEN <<Native>> ELSE <<>>
  IN  [n \in DOMAIN headers \cup {pair[1]} |->
         IF n = pair[1] THEN Append(before, pair[2]) ELSE headers[n]]

\* The first colon pair after another one, or one more than there are.
FirstLateColon(pairs) ==
  Min({Len(pairs) + 1} \cup
      {i \in 2..Len(pairs) : pairs[i][1] \in ColonNames /\ pairs[i - 1][1] \notin ColonNames})

\* The table, the headers, the error that is emitted and whether an exception
\* ends it.  What was read before a late colon header is returned.
HeadersOf(work) ==
  LET late == FirstLateColon(work.pairs)
      headers == FoldLeft(PutPair, <<>>, SubSeq(work.pairs, 1, late - 1))
  IN  [table |-> work.table, thrown |-> work.thrown,
       error |-> IF late <= Len(work.pairs) THEN "PROTOCOL_ERROR" ELSE "none",
       headers |-> [n \in DOMAIN headers |->
         IF n = "cookie" /\ late > Len(work.pairs) THEN <<FlattenSeq(headers[n])>> ELSE headers[n]]]

\* decompress
Decompress(table, block) ==
  HeadersOf(ExecuteFrom([table |-> table, pairs |-> <<>>, thrown |-> FALSE], block, 1))
=============================================================================
