---------------------------- MODULE HeaderFields ----------------------------
(***************************************************************************)
(* Header fields, the static table, and what a header block is made of.    *)
(* Names and values are model values with two lengths: as text, which is   *)
(* what tables and limits count, and on the wire, where the encoder takes  *)
(* the Huffman code when it is shorter.                                    *)
(***************************************************************************)
EXTENDS Integers, Sequences, SequencesExt

CONSTANTS Fields,                 \* records of a name and a value
          TextLength, WireLength, \* of a name or a value
          StaticTable,            \* a sequence of fields, 61 in the code
          HEADER_ENTRY_OVERHEAD,  \* 32 in the code
          EMPTY                   \* the empty name

Names == {f.name : f \in Fields}

ASSUME HeaderFieldsAssumption ==
  /\ \A f \in Fields : f = [name |-> f.name, value |-> f.value]
  /\ \A f \in Fields : \A s \in {f.name, f.value} :
       /\ TextLength[s] \in Nat
       /\ WireLength[s] \in 0 .. TextLength[s]
  /\ \A f \in Fields : WireLength[f.name] > 0
  /\ StaticTable \in Seq(Fields)
  /\ HEADER_ENTRY_OVERHEAD \in Nat \ {0}
  /\ EMPTY \notin Names

\* Bytes of name and value.
Bytes(f) == TextLength[f.name] + TextLength[f.value]

SizeOf(f) == Bytes(f) + HEADER_ENTRY_OVERHEAD

INSTANCE FieldLists WITH FieldSize <- [f \in Fields |-> SizeOf(f)]

\* StaticTable.GetIndex of a name: the first field with it; -1 if none has it.
StaticNameIndex(name) ==
  LET found == {i \in DOMAIN StaticTable : StaticTable[i].name = name}
  IN  IF found = {} THEN -1 ELSE Min(found)

\* StaticTable.GetIndex of a field.
StaticIndex(f) ==
  IF f \in Range(StaticTable) THEN Min({i \in DOMAIN StaticTable : StaticTable[i] = f})
  ELSE -1

\* The representations of RFC 7541, 6.1 to 6.3, as the code writes them.
Indexed(i)    == [rep |-> "indexed", index |-> i]
SizeUpdate(n) == [rep |-> "update", size |-> n]
Literal(type, nameIndex, f) ==
  [rep |-> "literal", type |-> type, value |-> f.value,
   index |-> IF nameIndex = -1 THEN 0 ELSE nameIndex,
   name  |-> IF nameIndex = -1 THEN f.name ELSE EMPTY]
=============================================================================
