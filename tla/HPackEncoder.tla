---------------------------- MODULE HPackEncoder ----------------------------
(***************************************************************************)
(* HttpTwo.HPack.Encoder: its dynamic table is a linked hash map.  chain   *)
(* is the linked list of entries, oldest first; headerFields holds for     *)
(* each bucket the entries chained in it, newest first.  An entry carries  *)
(* an index that falls by one with each Add, from which its place in the   *)
(* table is computed.                                                      *)
(***************************************************************************)
EXTENDS HeaderFields

CONSTANTS Bucket,    \* Index(Hash(name)) of a name
          MaxIndex   \* int.MaxValue, the index of the list's head

ASSUME HPackEncoderAssumption == MaxIndex \in Nat

VARIABLES encoder,   \* the Encoder object
          block      \* the header block written so far and not yet read

Buckets == {Bucket[n] : n \in Names}

NewEncoder(c) ==
  [capacity |-> c, size |-> 0, chain |-> <<>>, headerFields |-> [b \in Buckets |-> <<>>]]

\* head.Before.Index and head.After.Index; an empty list has only its head.
NewestIndex(e) == IF e.chain = <<>> THEN MaxIndex ELSE Last(e.chain).index
OldestIndex(e) == IF e.chain = <<>> THEN MaxIndex ELSE Head(e.chain).index

Length(e) == IF e.size = 0 THEN 0 ELSE OldestIndex(e) - NewestIndex(e) + 1

\* The place in the table of the entry with this index.
GetIndex(e, index) ==
  IF index = -1 THEN -1 ELSE index - NewestIndex(e) + 1

\* The entries of the bucket of a name, the lowest index first.
InBucket(e, name) == IF Length(e) = 0 THEN <<>> ELSE e.headerFields[Bucket[name]]

\* GetEntry: the first place in the bucket with this field, 0 if there is none.
GetEntry(e, f) == SelectInSeq(InBucket(e, f.name), LAMBDA x : x.field = f)

GetNameIndex(e, name) ==
  LET bucket == InBucket(e, name)
      found  == SelectInSeq(bucket, LAMBDA x : x.field.name = name)
      place  == GetIndex(e, IF found = 0 THEN -1 ELSE bucket[found].index)
  IN  IF StaticNameIndex(name) # -1 THEN StaticNameIndex(name)
      ELSE IF place >= 0 THEN place + Len(StaticTable) ELSE place

\* Mutant of RemoveEldest: the entry stays in its bucket.
RemoveFromChainOnly(e) ==
  LET eldest == Head(e.chain)
  IN  IF e.size = 0 THEN e
      ELSE [e EXCEPT !.chain = Tail(@), !.size = @ - SizeOf(eldest.field)]

\* Remove: the oldest entry leaves the list and the chain of its bucket.
RemoveEldest(e) ==
  LET eldest == Head(e.chain)
  IN  IF e.size = 0 THEN e
      ELSE [e EXCEPT !.chain = Tail(@),
                     !.size = @ - SizeOf(eldest.field),
                     !.headerFields[Bucket[eldest.field.name]] = RemoveFirst(@, eldest)]

\* One round of the loop of EnsureCapacity.
MakeRoom(e, headerSize) ==
  IF e.size + headerSize > e.capacity /\ Length(e) # 0 THEN RemoveEldest(e) ELSE e

\* EnsureCapacity: at most one removal for each entry.
EnsureCapacity(e, headerSize) ==
  LET after[n \in 0 .. Len(e.chain)] ==
        IF n = 0 THEN e ELSE MakeRoom(after[n - 1], headerSize)
  IN  after[Len(e.chain)]

Add(e, f) ==
  LET entry == [field |-> f, index |-> NewestIndex(e) - 1]
  IN  [e EXCEPT !.chain = Append(@, entry),
                !.size = @ + SizeOf(f),
                !.headerFields[Bucket[f.name]] = <<entry>> \o @]

Write(r) == block' = Append(block, r)

-----------------------------------------------------------------------------
(* EncodeHeader, one action for each of its ways out.                      *)

EncodeSensitive(f) ==
  /\ Write(Literal("NEVER", GetNameIndex(encoder, f.name), f))
  /\ UNCHANGED encoder

\* The peer only uses the static table.
EncodeStaticOnly(f) ==
  /\ encoder.capacity = 0
  /\ Write(IF StaticIndex(f) # -1 THEN Indexed(StaticIndex(f))
           ELSE Literal("NONE", StaticNameIndex(f.name), f))
  /\ UNCHANGED encoder

EncodeTooLarge(f) ==
  /\ encoder.capacity # 0
  /\ SizeOf(f) > encoder.capacity
  /\ Write(Literal("NONE", GetNameIndex(encoder, f.name), f))
  /\ UNCHANGED encoder

Fits(f) == encoder.capacity # 0 /\ SizeOf(f) <= encoder.capacity

EncodeFound(f) ==
  /\ Fits(f)
  /\ GetEntry(encoder, f) # 0
  /\ LET entry == InBucket(encoder, f.name)[GetEntry(encoder, f)]
     IN  Write(Indexed(GetIndex(encoder, entry.index) + Len(StaticTable)))
  /\ UNCHANGED encoder

EncodeStatic(f) ==
  /\ Fits(f)
  /\ GetEntry(encoder, f) = 0
  /\ StaticIndex(f) # -1
  /\ Write(Indexed(StaticIndex(f)))
  /\ UNCHANGED encoder

\* Mutant of EncodeIncremental: the index of the name is looked up after the
\* eviction that makes room for the field.
EncodeIncrementalLateIndex(f) ==
  /\ Fits(f)
  /\ GetEntry(encoder, f) = 0
  /\ StaticIndex(f) = -1
  /\ encoder' = Add(EnsureCapacity(encoder, SizeOf(f)), f)
  /\ Write(Literal("INCREMENTAL", GetNameIndex(encoder', f.name), f))

\* The index of the name is that of before the eviction: so the peer reads it.
EncodeIncremental(f) ==
  /\ Fits(f)
  /\ GetEntry(encoder, f) = 0
  /\ StaticIndex(f) = -1
  /\ Write(Literal("INCREMENTAL", GetNameIndex(encoder, f.name), f))
  /\ encoder' = Add(EnsureCapacity(encoder, SizeOf(f)), f)

EncodeHeader(f, sensitive) ==
  IF sensitive THEN EncodeSensitive(f)
  ELSE \/ EncodeStaticOnly(f) \/ EncodeTooLarge(f)
       \/ EncodeFound(f) \/ EncodeStatic(f) \/ EncodeIncremental(f)

\* Mutant of SetMaxHeaderTableSize: the size is not signalled.
SetMaxHeaderTableSizeSilent(c) ==
  /\ encoder' = EnsureCapacity([encoder EXCEPT !.capacity = c], 0)
  /\ UNCHANGED block

SetMaxHeaderTableSize(c) ==
  IF c = encoder.capacity THEN UNCHANGED <<encoder, block>>
  ELSE /\ encoder' = EnsureCapacity([encoder EXCEPT !.capacity = c], 0)
       /\ Write(SizeUpdate(c))

-----------------------------------------------------------------------------
(* What the structures of an Encoder mean.                                 *)

\* The table as HPACK numbers it: newest first.
TableOf(e) == Reverse([i \in DOMAIN e.chain |-> e.chain[i].field])

\* The linked list has consecutive indices, each bucket holds exactly its
\* entries of the list with the newest first, and size is theirs.
Linked(e) ==
  /\ \A i \in DOMAIN e.chain : e.chain[i].index = OldestIndex(e) - i + 1
  /\ \A b \in Buckets :
       LET bucket == e.headerFields[b]
       IN  /\ Range(bucket) = {x \in Range(e.chain) : Bucket[x.field.name] = b}
           /\ \A i, j \in DOMAIN bucket : i < j => bucket[i].index < bucket[j].index
  /\ e.size = TotalSize(TableOf(e))
=============================================================================
