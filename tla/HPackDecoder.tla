---------------------------- MODULE HPackDecoder ----------------------------
(***************************************************************************)
(* HttpTwo.HPack.Decoder reading whole header blocks, one representation   *)
(* after the other.  Its table is the list that DynamicTable implements    *)
(* (see HPackTable), newest field first.                                   *)
(*                                                                         *)
(* headerSize above MaxHeaderSize means that the block is truncated; it    *)
(* stays so until EndHeaderBlock.  nameLength is the length of the last    *)
(* name read from the input: ReadName, which takes a name out of a table,  *)
(* does not set it, and no reset does.                                     *)
(***************************************************************************)
EXTENDS HeaderFields

CONSTANT MaxHeaderSize   \* maxHeaderSize

VARIABLE decoder         \* the Decoder object

NewDecoder(c) ==
  [table |-> <<>>, capacity |-> c,
   maxDynamicTableSize |-> c, encoderMaxDynamicTableSize |-> c, changeRequired |-> FALSE,
   headerSize |-> 0, name |-> EMPTY, nameLength |-> 0,
   headers |-> <<>>,      \* what addHeaderDelegate was given for this block
   failed |-> FALSE]      \* Decode threw

Truncated(d) == d.headerSize > MaxHeaderSize

Fail(d) == [d EXCEPT !.failed = TRUE]

\* DynamicTable.SetCapacity.
SetCapacity(d, c) == [d EXCEPT !.capacity = c, !.table = Fit(@, c)]

\* Decoder.SetMaxHeaderTableSize.
DecoderSetMax(d, c) ==
  LET r == [d EXCEPT !.maxDynamicTableSize = c]
  IN  IF c < d.encoderMaxDynamicTableSize
      THEN SetCapacity([r EXCEPT !.changeRequired = TRUE], c)
      ELSE r

SetDynamicTableSize(d, n) ==
  IF n > d.maxDynamicTableSize THEN Fail(d)
  ELSE SetCapacity([d EXCEPT !.encoderMaxDynamicTableSize = n, !.changeRequired = FALSE], n)

\* ReadName and IndexHeader: the index is in one of the tables.
Legal(d, i) == i >= 1 /\ i <= Len(StaticTable) + Len(d.table)

FieldAt(d, i) ==
  IF i <= Len(StaticTable) THEN StaticTable[i] ELSE d.table[i - Len(StaticTable)]

\* Mutant of AddHeader: a field that is too much is left out unmarked.
AddHeaderUnmarked(d, f, sensitive) ==
  LET newSize == d.headerSize + Bytes(f)
  IN  IF newSize <= MaxHeaderSize
      THEN [d EXCEPT !.headers = Append(@, <<f, sensitive>>), !.headerSize = newSize]
      ELSE d

AddHeader(d, f, sensitive) ==
  LET newSize == d.headerSize + Bytes(f)
  IN  IF newSize <= MaxHeaderSize
      THEN [d EXCEPT !.headers = Append(@, <<f, sensitive>>), !.headerSize = newSize]
      ELSE [d EXCEPT !.headerSize = MaxHeaderSize + 1]

\* Mutant of InsertHeader: a field never to be indexed is.
InsertHeaderAlways(d, f, type) ==
  LET r == AddHeader(d, f, type = "NEVER")
  IN  IF type # "NONE" THEN [r EXCEPT !.table = Fit(<<f>> \o @, r.capacity)] ELSE r

InsertHeader(d, f, type) ==
  LET r == AddHeader(d, f, type = "NEVER")
  IN  IF f.name = EMPTY THEN Fail(d)
      ELSE IF type = "INCREMENTAL" THEN [r EXCEPT !.table = Fit(<<f>> \o @, r.capacity)]
      ELSE r

\* The test of a length against maxHeaderSize, which marks the block, and
\* whether what it counts is skipped: it is not for the table, or too large.
Marked(d, length) ==
  IF length + d.headerSize <= MaxHeaderSize THEN d
  ELSE [d EXCEPT !.headerSize = MaxHeaderSize + 1]

Skipped(d, length, type) ==
  /\ length + d.headerSize > MaxHeaderSize
  /\ type = "NONE" \/ length + HEADER_ENTRY_OVERHEAD > d.capacity

\* The table is cleared, unless the field was not for it.
Cleared(d, type) == IF type = "NONE" THEN d ELSE [d EXCEPT !.table = <<>>]

\* A name read from the input: READ_ and SKIP_LITERAL_HEADER_NAME.
ReadLiteralName(d, name, type) ==
  LET length == WireLength[name]
      r      == [Marked(d, length) EXCEPT !.nameLength = length]
  IN  IF Skipped(d, length, type) THEN [Cleared(r, type) EXCEPT !.name = EMPTY]
      ELSE [r EXCEPT !.name = name]

ReadName(d, i) == IF Legal(d, i) THEN [d EXCEPT !.name = FieldAt(d, i).name] ELSE Fail(d)

\* The value, with the length of whatever name was read from the input last.
ReadValue(d, value, type) ==
  LET length == d.nameLength + WireLength[value]
  IN  IF Skipped(d, length, type) THEN Cleared(Marked(d, length), type)
      ELSE InsertHeader(Marked(d, length), [name |-> d.name, value |-> value], type)

ReadLiteral(d, r) ==
  LET named == IF r.index = 0 THEN ReadLiteralName(d, r.name, r.type) ELSE ReadName(d, r.index)
  IN  IF named.failed THEN named ELSE ReadValue(named, r.value, r.type)

-----------------------------------------------------------------------------
(* Decode, one action for each representation.                             *)

\* An update of the table size has to come first if one is required.
DecodeOutOfTurn(r) ==
  /\ decoder.changeRequired /\ r.rep # "update"
  /\ decoder' = Fail(decoder)

DecodeSizeUpdate(r) ==
  /\ r.rep = "update"
  /\ decoder' = SetDynamicTableSize(decoder, r.size)

DecodeIndexed(r) ==
  /\ ~decoder.changeRequired /\ r.rep = "indexed"
  /\ decoder' = IF Legal(decoder, r.index)
                THEN AddHeader(decoder, FieldAt(decoder, r.index), FALSE)
                ELSE Fail(decoder)

DecodeLiteral(r) ==
  /\ ~decoder.changeRequired /\ r.rep = "literal"
  /\ decoder' = ReadLiteral(decoder, r)

Decode(r) == DecodeOutOfTurn(r) \/ DecodeSizeUpdate(r) \/ DecodeIndexed(r) \/ DecodeLiteral(r)

\* Mutant of EndHeaderBlock: the size counted so far is not reset.
EndHeaderBlockKeepsSize == decoder' = [decoder EXCEPT !.headers = <<>>]

\* EndHeaderBlock; the headers it delivered are its caller's.
EndHeaderBlock == decoder' = [decoder EXCEPT !.headerSize = 0, !.headers = <<>>]
=============================================================================
