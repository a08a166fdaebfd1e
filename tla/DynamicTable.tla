---------------------------- MODULE DynamicTable ----------------------------
(***************************************************************************)
(* HttpTwo.HPack.DynamicTable: header fields in a circular array that      *)
(* SetCapacity reallocates.  Add and SetCapacity contain a loop of Remove, *)
(* so a call is a step that starts it, a step for each round of its loop,  *)
(* and a step that ends it.  The other calls are one step.                 *)
(*                                                                         *)
(* A field is its size: the decoder refuses empty names, so it is more     *)
(* than HEADER_ENTRY_OVERHEAD.                                             *)
(***************************************************************************)
EXTENDS FieldLists

CONSTANTS Fields,                 \* the header fields that are added
          HEADER_ENTRY_OVERHEAD,  \* 32 in the code
          Capacities,             \* the capacities SetCapacity is given
          Null                    \* an array slot without a field

ASSUME DynamicTableAssumption ==
  /\ HEADER_ENTRY_OVERHEAD \in Nat \ {0}
  /\ FieldSize \in [Fields -> Nat]
  /\ \A h \in Fields : FieldSize[h] > HEADER_ENTRY_OVERHEAD
  /\ Capacities \subseteq Nat
  /\ Null \notin Fields

VARIABLES
  headerFields,  \* the array: a function on 0 .. slots - 1
  slots,         \* headerFields.Length
  head, tail,    \* the slot of the next field, and of the oldest one
  size,
  capacity,
  call           \* the call in progress

arrayVars == <<headerFields, slots, head, tail>>
vars == <<arrayVars, size, capacity, call>>

Idle == [op |-> "none"]

\* head, tail and cursor after ++ and the test for the end of the array.
Wrapped(i, length) == IF i = length THEN 0 ELSE i

Length == IF head < tail THEN slots - tail + head ELSE head - tail

\* The field at index i of GetEntry, for i in 1 .. Length.
GetEntry(i) == headerFields[IF head - i < 0 THEN head - i + slots ELSE head - i]

\* Mutant of MaxEntries: the remainder is dropped.
MaxEntriesRoundedDown(c) == c \div HEADER_ENTRY_OVERHEAD

\* The array length for a capacity: the quotient, rounded up.
MaxEntries(c) ==
  c \div HEADER_ENTRY_OVERHEAD + (IF c % HEADER_ENTRY_OVERHEAD # 0 THEN 1 ELSE 0)

Init ==
  /\ capacity \in Capacities
  /\ slots = MaxEntries(capacity)
  /\ headerFields = [i \in 0 .. slots - 1 |-> Null]
  /\ head = 0 /\ tail = 0 /\ size = 0
  /\ call = Idle

\* Mutant of Remove: the size is not reduced.
RemoveKeepsSize ==
  IF headerFields[tail] = Null
  THEN UNCHANGED <<headerFields, tail, size>>
  ELSE /\ headerFields' = [headerFields EXCEPT ![tail] = Null]
       /\ tail' = Wrapped(tail + 1, slots)
       /\ UNCHANGED size

Remove ==
  IF headerFields[tail] = Null
  THEN UNCHANGED <<headerFields, tail, size>>
  ELSE /\ size' = size - FieldSize[headerFields[tail]]
       /\ headerFields' = [headerFields EXCEPT ![tail] = Null]
       /\ tail' = Wrapped(tail + 1, slots)

\* Clear nulls the slots from tail up to head.
Clear ==
  /\ headerFields' =
       [i \in DOMAIN headerFields |->
          IF IF tail <= head THEN tail <= i /\ i < head ELSE tail <= i \/ i < head
          THEN Null ELSE headerFields[i]]
  /\ head' = 0 /\ tail' = 0 /\ size' = 0

-----------------------------------------------------------------------------
(* Add.                                                                    *)

AddTooLarge(h) ==
  /\ call = Idle
  /\ FieldSize[h] > capacity
  /\ Clear
  /\ UNCHANGED <<slots, capacity, call>>

Add(h) ==
  /\ call = Idle
  /\ FieldSize[h] <= capacity
  /\ call' = [op |-> "Add", field |-> h]
  /\ UNCHANGED <<arrayVars, size, capacity>>

AddRemoves ==
  /\ call.op = "Add"
  /\ size + FieldSize[call.field] > capacity
  /\ Remove
  /\ UNCHANGED <<slots, head, capacity, call>>

AddStores ==
  /\ call.op = "Add"
  /\ size + FieldSize[call.field] <= capacity
  /\ headerFields' = [headerFields EXCEPT ![head] = call.field]
  /\ head' = Wrapped(head + 1, slots)
  /\ size' = size + FieldSize[call.field]
  /\ call' = Idle
  /\ UNCHANGED <<slots, tail, capacity>>

-----------------------------------------------------------------------------
(* SetCapacity.                                                            *)

SetCapacity(c) ==
  /\ call = Idle
  /\ c # capacity
  /\ capacity' = c
  /\ IF c = 0 THEN Clear ELSE UNCHANGED <<headerFields, head, tail, size>>
  /\ call' = [op |-> "SetCapacity"]
  /\ UNCHANGED slots

SetCapacityRemoves ==
  /\ call.op = "SetCapacity"
  /\ size > capacity
  /\ Remove
  /\ UNCHANGED <<slots, head, capacity, call>>

\* Mutant of Reallocate: the fields are copied from slot tail on as if the
\* array did not wrap.
ReallocateUnwrapped ==
  /\ call.op = "SetCapacity"
  /\ size <= capacity
  /\ slots' = MaxEntries(capacity)
  /\ headerFields' = [i \in 0 .. slots' - 1 |->
                        IF i < Length /\ tail + i < slots THEN headerFields[tail + i] ELSE Null]
  /\ tail' = 0 /\ head' = Length
  /\ call' = Idle
  /\ UNCHANGED <<size, capacity>>

\* The oldest field goes to slot 0 of a new array, unless the length is right.
Reallocate ==
  /\ call.op = "SetCapacity"
  /\ size <= capacity
  /\ IF slots = MaxEntries(capacity)
     THEN UNCHANGED arrayVars
     ELSE /\ slots' = MaxEntries(capacity)
          /\ headerFields' = [i \in 0 .. slots' - 1 |->
                                IF i < Length THEN headerFields[(tail + i) % slots] ELSE Null]
          /\ tail' = 0
          /\ head' = Length
  /\ call' = Idle
  /\ UNCHANGED <<size, capacity>>

\* The decoder clears the table when it skips a field too large for it.
SkipLiteral ==
  /\ call = Idle
  /\ Clear
  /\ UNCHANGED <<slots, capacity, call>>

Next ==
  \/ \E h \in Fields : AddTooLarge(h) \/ Add(h)
  \/ AddRemoves \/ AddStores
  \/ \E c \in Capacities : SetCapacity(c)
  \/ SetCapacityRemoves \/ Reallocate
  \/ SkipLiteral

Spec == Init /\ [][Next]_vars

\* A call runs to its end: no thread is needed, the caller is in it.
FairSpec == Spec /\ WF_vars(AddRemoves \/ AddStores \/ SetCapacityRemoves \/ Reallocate)

-----------------------------------------------------------------------------
(* Properties.                                                             *)

\* The fields the table holds, newest first: what its index 1, 2, ... mean.
Entries == [i \in 1 .. Length |-> GetEntry(i)]

\* A slot that holds a field: from tail up to head, around the end.
InRing(i) == IF tail <= head THEN tail <= i /\ i < head ELSE tail <= i \/ i < head

\* The variables stay in their types: head and tail are slots of the array, so
\* no call reads or writes past its end, and no size is subtracted twice.
TypeOK ==
  /\ slots \in Nat
  /\ headerFields \in [0 .. slots - 1 -> Fields \union {Null}]
  /\ head \in 0 .. slots /\ tail \in 0 .. slots
  /\ slots > 0 => head < slots /\ tail < slots
  /\ size \in Nat
  /\ capacity \in Capacities
  /\ call \in {Idle, [op |-> "SetCapacity"]} \union [op : {"Add"}, field : Fields]

\* The array is never full, so head = tail means empty: the slots outside the
\* ring hold nothing, those inside hold a field.  It rests on MaxEntries
\* rounding up and on fields having a name.
RingOK == \A i \in 0 .. slots - 1 : headerFields[i] # Null <=> InRing(i)

\* The size the table remembers is that of the fields it holds, in every
\* round of every loop: a loop ends only because of it, and one that ends too
\* late removes from an empty array for ever.
Accounted == size = TotalSize(Entries)

\* The fields fit the array, although SetCapacity changes the capacity before
\* it reallocates; Add removes only for a field that fits.
Bounded ==
  /\ size <= slots * HEADER_ENTRY_OVERHEAD
  /\ call.op # "SetCapacity" => slots = MaxEntries(capacity) /\ size <= capacity
  /\ call.op = "Add" => FieldSize[call.field] <= capacity

\* The array is a ring: what the calls of the table rely on of each other, in
\* every round of their loops.
RingInv == TypeOK /\ RingOK /\ Accounted /\ Bounded

\* The list of the table once the call in progress has ended.
Settled ==
  CASE call.op = "Add"         -> Fit(<<call.field>> \o Entries, capacity)
    [] call.op = "SetCapacity" -> Fit(Entries, capacity)
    [] OTHER                   -> Entries

Abstract == INSTANCE HPackTable WITH entries <- Settled, limit <- capacity

\* Through wrapping, evictions and reallocations the array is the list of
\* HPACK: the same fields at the same indices, the fewest evicted.
ImplementsHPackTable == Abstract!Spec

\* The loops of Add and SetCapacity end.
CallsEnd == call # Idle ~> call = Idle
=============================================================================
