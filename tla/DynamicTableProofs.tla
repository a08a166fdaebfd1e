------------------------ MODULE DynamicTableProofs -------------------------
(***************************************************************************)
(* Proofs about DynamicTable, for any fields, overhead and capacities: the *)
(* array is a ring that accounts for what it holds, and it implements the  *)
(* list of HPackTable.                                                     *)
(***************************************************************************)
EXTENDS DynamicTable, FieldListProofs

USE DynamicTableAssumption

-----------------------------------------------------------------------------
(* Arithmetic.                                                             *)

LEMMA ModWrap ==
  ASSUME NEW n \in Nat, n > 0, NEW x \in Nat, x < 2 * n
  PROVE  x % n = IF x < n THEN x ELSE x - n
OBVIOUS

LEMMA Division ==
  ASSUME NEW k \in Nat, k > 0, NEW c \in Nat
  PROVE  /\ c \div k \in Nat /\ c % k \in 0 .. k - 1
         /\ c = ((c \div k) * k) + (c % k)
OBVIOUS

\* MaxEntries rounds up: so many overheads are not less than the capacity.
LEMMA RoundedUp ==
  ASSUME NEW c \in Nat
  PROVE  MaxEntries(c) \in Nat /\ c <= MaxEntries(c) * HEADER_ENTRY_OVERHEAD
<1> DEFINE k == HEADER_ENTRY_OVERHEAD
           q == c \div k
           r == c % k
<1>1. k \in Nat /\ k > 0
  OBVIOUS
<1>2. q \in Nat /\ r \in 0 .. k - 1 /\ c = (q * k) + r
  BY <1>1, Division
<1>3. MaxEntries(c) = IF r # 0 THEN q + 1 ELSE q + 0
  BY DEF MaxEntries
<1> HIDE DEF k, q, r
<1>4. (q + 1) * k = (q * k) + k /\ (q + 0) * k = q * k
  BY <1>1, <1>2
<1> QED
  BY <1>1, <1>2, <1>3, <1>4 DEF k

\* Fields larger than the overhead are fewer than the overheads they fit in.
LEMMA Fewer ==
  ASSUME NEW k \in Nat, NEW n \in Nat, NEW m \in Nat, NEW s \in Nat,
         n * (k + 1) <= s, s <= m * k
  PROVE  n < m \/ n = 0
<1> SUFFICES ASSUME n >= m PROVE n = 0
  OBVIOUS
<1>1. n * (k + 1) = n * k + n
  OBVIOUS
<1>2. (n - m) * k >= 0
  OBVIOUS
<1>3. (n - m) * k = n * k - m * k
  OBVIOUS
<1>4. n * k \in Int /\ m * k \in Int
  OBVIOUS
<1> QED
  BY <1>1, <1>2, <1>3, <1>4

-----------------------------------------------------------------------------
(* The ring.                                                               *)

\* The slot of the field at index i.
Slot(i) == IF head - i < 0 THEN head - i + slots ELSE head - i

LEMMA LengthInRange ==
  TypeOK => /\ Length \in Nat
            /\ slots > 0 => Length < slots
            /\ slots = 0 => Length = 0
BY DEF TypeOK, Length

\* The slots of the indices are the slots of the ring.
LEMMA SlotsInRing ==
  TypeOK => \A i \in 1 .. Length : Slot(i) \in 0 .. slots - 1 /\ InRing(Slot(i))
BY DEF TypeOK, Length, Slot, InRing

LEMMA EntriesAre ==
  TypeOK /\ RingOK =>
    /\ Entries \in Seq(Fields) /\ Len(Entries) = Length
    /\ \A i \in 1 .. Length : Entries[i] = headerFields[Slot(i)]
<1> SUFFICES ASSUME TypeOK, RingOK
             PROVE  /\ Entries \in Seq(Fields) /\ Len(Entries) = Length
                    /\ \A i \in 1 .. Length : Entries[i] = headerFields[Slot(i)]
  OBVIOUS
<1>1. Length \in Nat
  BY LengthInRange
<1>2. \A i \in 1 .. Length : GetEntry(i) = headerFields[Slot(i)]
  BY DEF GetEntry, Slot
<1>3. \A i \in 1 .. Length : headerFields[Slot(i)] \in Fields
  <2>1. \A j \in 0 .. slots - 1 : InRing(j) => headerFields[j] \in Fields
    BY DEF TypeOK, RingOK
  <2> QED
    BY <2>1, SlotsInRing
<1>4. Entries = [i \in 1 .. Length |-> GetEntry(i)]
  BY DEF Entries
<1> QED
  BY <1>1, <1>2, <1>3, <1>4

\* The fields fit the array, and not all of it.
LEMMA NotFull ==
  ASSUME TypeOK, RingOK, Accounted, NEW m \in Nat, size <= m * HEADER_ENTRY_OVERHEAD
  PROVE  Length < m \/ Length = 0
<1>1. Length \in Nat
  BY LengthInRange
<1>2. Entries \in Seq(Fields) /\ Len(Entries) = Length
  BY EntriesAre
<1>3. HEADER_ENTRY_OVERHEAD + 1 \in Nat
      /\ \A h \in Fields : FieldSize[h] \in Nat /\ FieldSize[h] >= HEADER_ENTRY_OVERHEAD + 1
  OBVIOUS
<1>4. TotalSize(Entries) >= Len(Entries) * (HEADER_ENTRY_OVERHEAD + 1)
  BY <1>2, <1>3, SizeAtLeast
<1>5. size \in Nat /\ Length * (HEADER_ENTRY_OVERHEAD + 1) <= size
  BY <1>1, <1>2, <1>4 DEF Accounted, TypeOK
<1> QED
  BY <1>1, <1>5, Fewer

LEMMA Sizes == \A h \in Fields : FieldSize[h] \in Nat
OBVIOUS

-----------------------------------------------------------------------------
(* What Remove, Clear, AddStores and Reallocate do to the ring.            *)

\* Remove takes the oldest field, when the size says that there is one.
LEMMA RemoveStep ==
  ASSUME TypeOK, RingOK, Accounted, size > 0, Remove, UNCHANGED <<slots, head, capacity>>
  PROVE  /\ headerFields' \in [0 .. slots' - 1 -> Fields \union {Null}]
         /\ slots > 0 /\ tail' \in 0 .. slots - 1
         /\ size' \in Nat /\ size' <= size
         /\ RingOK' /\ Accounted'
         /\ Entries' = First(Entries, Len(Entries) - 1)
<1> DEFINE n == Length
<1>1. n \in Nat /\ (slots > 0 => n < slots) /\ (slots = 0 => n = 0)
  BY LengthInRange
<1>2. Entries \in Seq(Fields) /\ Len(Entries) = n
  BY EntriesAre
<1>3. n > 0 /\ slots > 0
  <2>1. n = 0 => Entries = <<>>
    BY <1>2, EmptySeq
  <2>2. n = 0 => size = 0
    BY <2>1, SizeOfNone DEF Accounted
  <2> QED
    BY <1>1, <2>2 DEF TypeOK
<1>4. Slot(n) = tail /\ Entries[n] = headerFields[tail] /\ headerFields[tail] \in Fields
  <2>1. Slot(n) = tail
    BY <1>1, <1>3 DEF Length, Slot, TypeOK
  <2>2. n \in 1 .. n /\ Entries[n] \in Fields
    BY <1>1, <1>2, <1>3, ElementOfSeq
  <2> QED
    BY <2>1, <2>2, EntriesAre
<1>5. /\ size' = size - FieldSize[headerFields[tail]]
      /\ headerFields' = [headerFields EXCEPT ![tail] = Null]
      /\ tail' = Wrapped(tail + 1, slots)
  BY <1>4 DEF Remove
<1>6. /\ headerFields' \in [0 .. slots' - 1 -> Fields \union {Null}]
      /\ tail' \in 0 .. slots - 1
  BY SMTT(40), <1>3, <1>5 DEF TypeOK, Wrapped
<1>7. Length' = n - 1
  BY <1>1, <1>3, <1>5 DEF Length, TypeOK, Wrapped
<1>8. RingOK'
  <2>1. ASSUME NEW i \in 0 .. slots - 1
        PROVE  InRing(i)' <=> InRing(i) /\ i # tail
    BY <1>1, <1>3, <1>5 DEF InRing, Length, TypeOK, Wrapped
  <2>2. ASSUME NEW i \in 0 .. slots - 1
        PROVE  headerFields'[i] # Null <=> headerFields[i] # Null /\ i # tail
    BY <1>5 DEF TypeOK
  <2>3. \A i \in 0 .. slots - 1 : headerFields'[i] # Null <=> InRing(i)'
    BY <2>1, <2>2 DEF RingOK
  <2> QED
    BY <2>3 DEF RingOK
<1>9. Entries' = First(Entries, Len(Entries) - 1)
  <2> DEFINE r == n - 1
  <2>1. r \in 0 .. Len(Entries)
    BY <1>1, <1>2, <1>3
  <2>2. /\ First(Entries, r) \in Seq(Fields)
        /\ Len(First(Entries, r)) = r
        /\ \A i \in 1 .. r : First(Entries, r)[i] = Entries[i]
    <3> HIDE DEF n, r
    <3> QED
      BY <1>2, <2>1, Prefix
  <2>3. ASSUME NEW i \in 1 .. n - 1
        PROVE  headerFields'[Slot(i)'] = Entries[i]
    <3>1. Slot(i)' = Slot(i)
      BY DEF Slot
    <3>2. i \in 1 .. n /\ Slot(i) # tail
      BY <1>1, <1>3 DEF Slot, Length, TypeOK
    <3>3. Slot(i) \in 0 .. slots - 1 /\ Entries[i] = headerFields[Slot(i)]
      BY <3>2, SlotsInRing, EntriesAre
    <3> QED
      BY <1>5, <3>1, <3>2, <3>3 DEF TypeOK
  <2>4. \A i \in 1 .. n - 1 : GetEntry(i)' = headerFields'[Slot(i)']
    BY DEF GetEntry, Slot
  <2>5. Entries' = [i \in 1 .. r |-> First(Entries, r)[i]]
    BY <1>7, <2>2, <2>3, <2>4 DEF Entries
  <2>6. r \in Nat /\ Len(Entries) - 1 = r
    BY <1>1, <1>2, <1>3
  <2> HIDE DEF n, r
  <2>7. Entries' = First(Entries, r)
    BY <2>2, <2>5, <2>6, LenProperties
  <2> QED
    BY <2>6, <2>7
<1>10. size' \in Nat /\ size' <= size /\ Accounted'
  <2>1. /\ TotalSize(Entries) = TotalSize(First(Entries, Len(Entries) - 1)) + FieldSize[Entries[n]]
        /\ First(Entries, Len(Entries) - 1) \in Seq(Fields)
    <3>1. Entries # <<>> /\ Entries \in Seq(Fields) /\ n = Len(Entries)
      BY <1>2, <1>3, EmptySeq
    <3> HIDE DEF n
    <3> QED
      BY <3>1, Sizes, SizeLast
  <2>2. 0 \in Nat /\ \A h \in Fields : FieldSize[h] \in Nat /\ FieldSize[h] >= 0
    OBVIOUS
  <2>3. TotalSize(First(Entries, Len(Entries) - 1)) \in Nat
    BY <2>1, <2>2, SizeAtLeast
  <2>4. FieldSize[Entries[n]] \in Nat /\ Entries[n] = headerFields[tail]
    BY <1>4
  <2>5. size = TotalSize(Entries)
    BY DEF Accounted
  <2>6. size' = TotalSize(First(Entries, Len(Entries) - 1)) /\ size' <= size
    BY <1>5, <2>1, <2>3, <2>4, <2>5
  <2> QED
    BY <1>9, <2>3, <2>6 DEF Accounted
<1> QED
  BY <1>3, <1>6, <1>8, <1>9, <1>10

\* Clear empties the array.
LEMMA ClearStep ==
  ASSUME TypeOK, RingOK, Clear, UNCHANGED slots
  PROVE  /\ headerFields' \in [0 .. slots' - 1 -> Fields \union {Null}]
         /\ head' = 0 /\ tail' = 0 /\ size' = 0
         /\ RingOK' /\ Accounted'
         /\ Entries' = <<>>
<1>1. /\ head' = 0 /\ tail' = 0 /\ size' = 0
      /\ headerFields' \in [0 .. slots - 1 -> Fields \union {Null}]
      /\ \A i \in 0 .. slots - 1 : headerFields'[i] = IF InRing(i) THEN Null ELSE headerFields[i]
  BY DEF Clear, InRing, TypeOK
<1>2. \A i \in 0 .. slots - 1 : headerFields'[i] = Null /\ ~InRing(i)'
  BY <1>1 DEF RingOK, InRing
<1>3. Length' = 0
  BY <1>1 DEF Length
<1>4. Entries' = <<>>
  BY <1>3 DEF Entries
<1>5. RingOK'
  BY <1>2 DEF RingOK
<1> QED
  BY <1>1, <1>4, <1>5, SizeOfNone DEF Accounted

\* A field is stored before the others: a slot is free for it.
LEMMA StoreStep ==
  ASSUME RingInv, AddStores
  PROVE  /\ headerFields' \in [0 .. slots' - 1 -> Fields \union {Null}]
         /\ slots > 0 /\ head' \in 0 .. slots - 1
         /\ size' \in Nat /\ size' <= capacity
         /\ RingOK' /\ Accounted'
         /\ call.field \in Fields
         /\ Entries' = <<call.field>> \o Entries
<1> DEFINE h == call.field
           n == Length
           all == <<h>> \o Entries
<1>1. /\ TypeOK /\ RingOK /\ Accounted /\ Bounded
      /\ n \in Nat /\ (slots > 0 => n < slots) /\ (slots = 0 => n = 0)
  BY LengthInRange DEF RingInv
<1>2. /\ h \in Fields /\ FieldSize[h] \in Nat /\ slots = MaxEntries(capacity)
      /\ size + FieldSize[h] <= capacity /\ capacity \in Nat
      /\ slots \in Nat /\ slots' = slots /\ tail' = tail
  BY SMTT(40), <1>1 DEF AddStores, Bounded, TypeOK, Idle
<1>3. Entries \in Seq(Fields) /\ Len(Entries) = n
  BY <1>1, EntriesAre
<1>4. /\ all \in Seq(Fields) /\ Len(all) = n + 1
      /\ TotalSize(all) = FieldSize[h] + TotalSize(Entries)
      /\ all[1] = h /\ \A i \in 1 .. n : all[i + 1] = Entries[i]
  <2>1. all \in Seq(Fields) /\ TotalSize(all) = FieldSize[h] + TotalSize(Entries)
    <3> HIDE DEF h
    <3> QED
      BY <1>2, <1>3, Sizes, SizeFirst
  <2> QED
    BY SMTT(40), <1>1, <1>2, <1>3, <2>1
<1>5. n + 1 < slots
  <2> DEFINE k == HEADER_ENTRY_OVERHEAD
             m == n + 1
             s == TotalSize(all)
  <2>1. k \in Nat /\ k + 1 \in Nat /\ \A f \in Fields : FieldSize[f] \in Nat /\ FieldSize[f] >= k + 1
    OBVIOUS
  <2>2. TotalSize(all) \in Nat /\ TotalSize(all) >= Len(all) * (k + 1)
    <3> HIDE DEF k, all
    <3> QED
      BY <1>4, <2>1, SizeAtLeast
  <2>3. s \in Nat /\ m * (k + 1) <= s /\ m \in Nat /\ m > 0
    <3>1. Len(all) = m /\ m \in Nat /\ m > 0
      BY <1>1, <1>4
    <3> HIDE DEF k, all, m
    <3>2. TotalSize(all) \in Nat /\ TotalSize(all) >= m * (k + 1)
      BY <2>2, <3>1, Zenon
    <3>3. m * (k + 1) \in Int
      BY <2>1, <3>1
    <3> QED
      BY <3>1, <3>2, <3>3
  <2>4. s <= capacity
    <3>1. s = FieldSize[h] + size /\ size \in Nat
      BY <1>1, <1>4, Zenon DEF Accounted, TypeOK
    <3> HIDE DEF s, h
    <3> QED
      BY <1>2, <3>1
  <2>5. capacity <= slots * k
    BY <1>2, RoundedUp
  <2>6. s <= slots * k
    <3> HIDE DEF s
    <3> QED
      BY <1>2, <2>1, <2>3, <2>4, <2>5
  <2>7. m < slots \/ m = 0
    <3> HIDE DEF s, m, k
    <3> QED
      BY <1>2, <2>1, <2>3, <2>6, Fewer
  <2> QED
    BY <2>3, <2>7
<1>6. /\ headerFields' = [headerFields EXCEPT ![head] = h]
      /\ head' = Wrapped(head + 1, slots)
      /\ size' = size + FieldSize[h]
      /\ head \in 0 .. slots - 1 /\ tail \in 0 .. slots - 1 /\ ~InRing(head)
  BY <1>1, <1>5 DEF AddStores, TypeOK, InRing
<1>7. /\ headerFields' \in [0 .. slots' - 1 -> Fields \union {Null}]
      /\ head' \in 0 .. slots - 1
      /\ size' \in Nat /\ size' <= capacity
  <2>1. headerFields' \in [0 .. slots' - 1 -> Fields \union {Null}]
    <3> HIDE DEF h
    <3> QED
      BY <1>1, <1>2, <1>6 DEF TypeOK
  <2>2. head' \in 0 .. slots - 1
    BY <1>2, <1>5, <1>6 DEF Wrapped
  <2>3. size' \in Nat /\ size' <= capacity
    <3> HIDE DEF h
    <3> QED
      BY SMTT(40), <1>1, <1>2, <1>6 DEF TypeOK
  <2> QED
    BY <2>1, <2>2, <2>3
<1>8. Length' = n + 1
  BY <1>1, <1>2, <1>5, <1>6 DEF Length, Wrapped
<1>9. RingOK'
  <2>1. ASSUME NEW i \in 0 .. slots - 1
        PROVE  InRing(i)' <=> InRing(i) \/ i = head
    BY <1>1, <1>2, <1>5, <1>6 DEF InRing, Length, Wrapped
  <2>2. ASSUME NEW i \in 0 .. slots - 1
        PROVE  headerFields'[i] # Null <=> headerFields[i] # Null \/ i = head
    BY <1>1, <1>2, <1>6 DEF TypeOK
  <2>3. \A i \in 0 .. slots - 1 : headerFields'[i] # Null <=> InRing(i)'
    BY <1>1, <2>1, <2>2 DEF RingOK
  <2> QED
    BY <1>2, <2>3 DEF RingOK
<1>10. Entries' = all
  <2>1. Slot(1)' = head /\ headerFields'[head] = h
    BY <1>1, <1>2, <1>5, <1>6 DEF Slot, Wrapped, TypeOK
  <2>2. ASSUME NEW i \in 1 .. n
        PROVE  headerFields'[Slot(i + 1)'] = Entries[i]
    <3>1. Slot(i + 1)' = Slot(i)
      BY <1>1, <1>2, <1>5, <1>6 DEF Slot, Wrapped, Length
    <3>2. Slot(i) \in 0 .. slots - 1 /\ Slot(i) # head /\ Entries[i] = headerFields[Slot(i)]
      BY <1>1, <1>6, SlotsInRing, EntriesAre
    <3> QED
      BY <1>1, <1>6, <3>1, <3>2 DEF TypeOK
  <2>3. \A i \in 1 .. n + 1 : GetEntry(i)' = headerFields'[Slot(i)']
    BY DEF GetEntry, Slot
  <2>4. ASSUME NEW i \in 1 .. n + 1
        PROVE  GetEntry(i)' = all[i]
    <3>1. CASE i = 1
      BY <1>4, <2>1, <2>3, <3>1
    <3>2. CASE i # 1
      <4>1. i - 1 \in 1 .. n /\ i = (i - 1) + 1
        BY <1>1, <3>2
      <4>2. headerFields'[Slot((i - 1) + 1)'] = Entries[i - 1] /\ all[(i - 1) + 1] = Entries[i - 1]
        BY <1>4, <2>2, <4>1
      <4> QED
        BY <2>3, <4>1, <4>2
    <3> QED
      BY <3>1, <3>2
  <2>5. Entries' = [i \in 1 .. n + 1 |-> all[i]]
    BY <1>8, <2>4 DEF Entries
  <2> HIDE DEF all
  <2> QED
    BY <1>4, <2>5, LenProperties
<1>11. Accounted'
  <2> HIDE DEF all
  <2> QED
    BY SMTT(40), <1>1, <1>2, <1>4, <1>6, <1>10 DEF Accounted, TypeOK
<1> QED
  BY <1>2, <1>5, <1>7, <1>9, <1>10, <1>11

\* The new array holds the same fields, from its first slot on.
LEMMA ReallocateStep ==
  ASSUME RingInv, Reallocate
  PROVE  /\ TypeOK' /\ RingOK' /\ Accounted'
         /\ slots' = MaxEntries(capacity)
         /\ Entries' = Entries
<1> DEFINE n == Length
<1>1. /\ TypeOK /\ RingOK /\ Accounted /\ Bounded
      /\ n \in Nat /\ (slots > 0 => n < slots) /\ (slots = 0 => n = 0)
      /\ call' = Idle /\ size' = size /\ capacity' = capacity
      /\ capacity \in Nat /\ size <= capacity
  BY LengthInRange DEF RingInv, Reallocate, TypeOK
<1>2. MaxEntries(capacity) \in Nat /\ capacity <= MaxEntries(capacity) * HEADER_ENTRY_OVERHEAD
  BY <1>1, RoundedUp
<1>3. CASE slots = MaxEntries(capacity)
  <2>1. UNCHANGED arrayVars
    BY <1>3 DEF Reallocate
  <2>2. Entries' = Entries
    BY <2>1 DEF Entries, arrayVars, Length, GetEntry
  <2>3. TypeOK' /\ RingOK'
    BY <1>1, <2>1 DEF arrayVars, TypeOK, RingOK, InRing
  <2> QED
    BY <1>1, <1>3, <2>1, <2>2, <2>3 DEF arrayVars, Accounted
<1>4. CASE slots # MaxEntries(capacity)
  <2> DEFINE m == MaxEntries(capacity)
  <2>1. /\ slots' = m /\ tail' = 0 /\ head' = n
        /\ headerFields' = [i \in 0 .. m - 1 |->
                               IF i < n THEN headerFields[(tail + i) % slots] ELSE Null]
    BY <1>4 DEF Reallocate
  <2>2. n < m \/ n = 0
    <3>1. m \in Nat /\ size <= m * HEADER_ENTRY_OVERHEAD
      <4>1. m * HEADER_ENTRY_OVERHEAD \in Nat
        BY <1>2
      <4> QED
        BY <1>1, <1>2, <4>1 DEF TypeOK
    <3> HIDE DEF m
    <3> QED
      BY <1>1, <3>1, NotFull
  <2>3. ASSUME NEW i \in 0 .. n - 1
        PROVE  /\ (tail + i) % slots = Slot(n - i)
               /\ headerFields[(tail + i) % slots] \in Fields
    <3>1. slots \in Nat /\ slots > 0 /\ tail + i \in Nat /\ tail + i < 2 * slots
      BY <1>1 DEF TypeOK
    <3>2. (tail + i) % slots = IF tail + i < slots THEN tail + i ELSE (tail + i) - slots
      <4> DEFINE x == tail + i
      <4>1. x \in Nat /\ x < 2 * slots
        BY <3>1
      <4> HIDE DEF x
      <4>2. x % slots = IF x < slots THEN x ELSE x - slots
        BY <3>1, <4>1, ModWrap
      <4> QED
        BY <4>2 DEF x
    <3>3. Slot(n - i) = IF tail + i < slots THEN tail + i ELSE (tail + i) - slots
      BY <1>1, <3>1 DEF Slot, Length, TypeOK
    <3>4. (tail + i) % slots = Slot(n - i)
      BY <3>2, <3>3
    <3>5. n - i \in 1 .. n
      BY <1>1
    <3>6. Slot(n - i) \in 0 .. slots - 1 /\ InRing(Slot(n - i))
      BY <1>1, <3>5, SlotsInRing
    <3>7. headerFields[Slot(n - i)] \in Fields
      BY <1>1, <3>6 DEF RingOK, TypeOK
    <3> QED
      BY <3>4, <3>7
  <2>4. TypeOK'
    <3>1. m \in Nat /\ n \in 0 .. m /\ (m > 0 => n < m)
      BY <1>1, <1>2, <2>2
    <3>2. headerFields' \in [0 .. m - 1 -> Fields \union {Null}]
      BY <2>1, <2>3, <3>1
    <3> HIDE DEF m
    <3> QED
      BY <1>1, <2>1, <3>1, <3>2 DEF TypeOK
  <2>5. Length' = n
    BY <1>1, <2>1 DEF Length
  <2>6. RingOK'
    <3>1. ASSUME NEW i \in 0 .. m - 1
          PROVE  headerFields'[i] # Null <=> InRing(i)'
      BY <1>1, <1>2, <2>1, <2>3 DEF InRing
    <3> QED
      BY <2>1, <3>1 DEF RingOK
  <2>7. Entries' = Entries
    <3>1. ASSUME NEW i \in 1 .. n
          PROVE  GetEntry(i)' = GetEntry(i)
      <4>1. n - i \in 0 .. n - 1 /\ n - (n - i) = i /\ n - i \in 0 .. m - 1
        <5> HIDE DEF n, m
        <5> QED
          BY <1>1, <1>2, <2>2 DEF m
      <4>2. GetEntry(i)' = headerFields'[n - i]
        <5>1. GetEntry(i)' = headerFields'[IF head' - i < 0 THEN head' - i + slots' ELSE head' - i]
          BY DEF GetEntry
        <5>2. (IF head' - i < 0 THEN head' - i + slots' ELSE head' - i) = n - i
          BY <1>1, <2>1, <4>1
        <5> QED
          BY <5>1, <5>2, Zenon
      <4>3. headerFields'[n - i] = headerFields[(tail + (n - i)) % slots]
        BY <1>1, <2>1, <4>1
      <4>4. (tail + (n - i)) % slots = Slot(i)
        BY <2>3, <4>1
      <4>5. GetEntry(i) = headerFields[Slot(i)]
        BY DEF GetEntry, Slot
      <4> QED
        BY <4>2, <4>3, <4>4, <4>5
    <3> QED
      BY <2>5, <3>1 DEF Entries
  <2>8. Accounted'
    BY <1>1, <2>7 DEF Accounted
  <2> QED
    BY <2>1, <2>4, <2>6, <2>7, <2>8
<1> QED
  BY <1>3, <1>4

-----------------------------------------------------------------------------
(* The invariant.                                                          *)

LEMMA RingInitially == Init => RingInv
<1> SUFFICES ASSUME Init PROVE RingInv
  OBVIOUS
<1>1. /\ capacity \in Capacities /\ capacity \in Nat
      /\ slots = MaxEntries(capacity) /\ slots \in Nat
      /\ headerFields = [i \in 0 .. slots - 1 |-> Null]
      /\ head = 0 /\ tail = 0 /\ size = 0 /\ call = Idle
  BY RoundedUp DEF Init
<1>2. TypeOK
  BY <1>1 DEF TypeOK
<1>3. RingOK
  BY <1>1 DEF RingOK, InRing
<1>4. Length = 0
  BY <1>1 DEF Length
<1>5. Entries = <<>>
  BY <1>4 DEF Entries
<1>6. Accounted
  BY <1>1, <1>5, SizeOfNone DEF Accounted
<1>7. Bounded
  <2>1. slots * HEADER_ENTRY_OVERHEAD >= 0
    BY <1>1
  <2> QED
    BY <1>1, <2>1 DEF Bounded, Idle
<1> QED
  BY <1>2, <1>3, <1>6, <1>7 DEF RingInv

\* A smaller size is bounded as the size was.
LEMMA BoundedStays ==
  ASSUME RingInv, size' \in Nat, size' <= size, UNCHANGED <<slots, capacity, call>>
  PROVE  Bounded'
<1>1. slots \in Nat /\ size \in Nat /\ capacity \in Nat /\ slots * HEADER_ENTRY_OVERHEAD \in Nat
  BY DEF RingInv, TypeOK
<1>2. Bounded
  BY DEF RingInv
<1>3. size' <= slots * HEADER_ENTRY_OVERHEAD
  <2> DEFINE x == slots * HEADER_ENTRY_OVERHEAD
  <2>1. size <= x /\ x \in Nat
    BY <1>1, <1>2 DEF Bounded
  <2> HIDE DEF x
  <2>2. size' <= x
    BY <1>1, <2>1
  <2> QED
    BY <2>2 DEF x
<1>4. call.op # "SetCapacity" => slots = MaxEntries(capacity) /\ size' <= capacity
  BY <1>1, <1>2 DEF Bounded
<1>5. call.op = "Add" => FieldSize[call.field] <= capacity
  BY <1>2 DEF Bounded
<1>6. MaxEntries(capacity)' = MaxEntries(capacity)
  BY DEF MaxEntries
<1> QED
  BY <1>3, <1>4, <1>5, <1>6 DEF Bounded

\* A call that takes the table as it is keeps the ring.
LEMMA SameRing ==
  ASSUME RingInv, UNCHANGED <<arrayVars, size>>
  PROVE  RingOK' /\ Accounted' /\ Entries' = Entries
<1>1. Entries' = Entries
  BY DEF Entries, arrayVars, Length, GetEntry
<1>2. RingOK'
  BY DEF RingInv, RingOK, arrayVars, InRing
<1> QED
  BY <1>1, <1>2 DEF RingInv, Accounted

LEMMA ClearKeeps ==
  ASSUME RingInv, Clear, UNCHANGED <<slots, capacity, call>>
  PROVE  RingInv'
<1>1. TypeOK' /\ RingOK' /\ Accounted'
  BY ClearStep DEF RingInv, TypeOK
<1>2. Bounded'
  BY ClearStep, BoundedStays DEF RingInv, TypeOK
<1> QED
  BY <1>1, <1>2 DEF RingInv

LEMMA RemoveKeeps ==
  ASSUME RingInv, size > 0, Remove, UNCHANGED <<slots, head, capacity, call>>
  PROVE  RingInv'
<1>1. TypeOK' /\ RingOK' /\ Accounted'
  BY RemoveStep DEF RingInv, TypeOK
<1>2. Bounded'
  BY RemoveStep, BoundedStays DEF RingInv
<1> QED
  BY <1>1, <1>2 DEF RingInv

\* Each loop removes only while there is something to remove.
LEMMA SomethingToRemove ==
  ASSUME RingInv, AddRemoves \/ SetCapacityRemoves
  PROVE  size > 0
<1>1. size \in Nat /\ capacity \in Nat
  BY DEF RingInv, TypeOK
<1>2. CASE AddRemoves
  <2>1. call.field \in Fields /\ FieldSize[call.field] <= capacity
        /\ size + FieldSize[call.field] > capacity
    BY <1>2 DEF AddRemoves, RingInv, TypeOK, Bounded, Idle
  <2>2. FieldSize[call.field] \in Nat
    BY <2>1
  <2> QED
    BY <1>1, <2>1, <2>2
<1>3. CASE SetCapacityRemoves
  BY <1>1, <1>3 DEF SetCapacityRemoves
<1> QED
  BY <1>2, <1>3

LEMMA RingStep == RingInv /\ [Next]_vars => RingInv'
<1> SUFFICES ASSUME RingInv, [Next]_vars PROVE RingInv'
  OBVIOUS
<1>0. TypeOK /\ RingOK /\ Accounted /\ Bounded
  BY DEF RingInv
<1>1. ASSUME NEW h \in Fields, AddTooLarge(h)
      PROVE  RingInv'
  BY <1>1, ClearKeeps DEF AddTooLarge
<1>2. ASSUME NEW h \in Fields, Add(h)
      PROVE  RingInv'
  <2>1. RingOK' /\ Accounted'
    BY <1>2, SameRing DEF Add
  <2>2. TypeOK'
    BY <1>0, <1>2 DEF Add, TypeOK, arrayVars
  <2>3. Bounded'
    <3>1. /\ call = Idle /\ FieldSize[h] <= capacity
          /\ call' = [op |-> "Add", field |-> h]
          /\ UNCHANGED <<slots, size, capacity>>
      BY <1>2 DEF Add, arrayVars
    <3>2. MaxEntries(capacity)' = MaxEntries(capacity)
      BY <3>1 DEF MaxEntries
    <3> QED
      BY <1>0, <3>1, <3>2 DEF Bounded, Idle
  <2> QED
    BY <2>1, <2>2, <2>3 DEF RingInv
<1>3. CASE AddRemoves
  BY <1>3, SomethingToRemove, RemoveKeeps DEF AddRemoves
<1>4. CASE AddStores
  <2>1. TypeOK'
    BY SMTT(40), <1>0, <1>4, StoreStep DEF AddStores, TypeOK
  <2>2. Bounded'
    <3>1. call' = Idle /\ UNCHANGED <<slots, capacity>> /\ slots = MaxEntries(capacity)
      BY <1>0, <1>4 DEF AddStores, Bounded
    <3>2. size' \in Nat /\ size' <= capacity /\ capacity \in Nat /\ slots \in Nat
      BY <1>0, <1>4, StoreStep DEF TypeOK
    <3>3. capacity <= slots * HEADER_ENTRY_OVERHEAD
      BY <3>1, <3>2, RoundedUp
    <3>4. size' <= slots' * HEADER_ENTRY_OVERHEAD
      BY <3>1, <3>2, <3>3
    <3>5. MaxEntries(capacity)' = MaxEntries(capacity)
      BY <3>1 DEF MaxEntries
    <3> QED
      BY <3>1, <3>2, <3>4, <3>5 DEF Bounded, Idle
  <2> QED
    BY <1>4, <2>1, <2>2, StoreStep DEF RingInv
<1>5. ASSUME NEW c \in Capacities, SetCapacity(c)
      PROVE  RingInv'
  <2>1. capacity' = c /\ call' = [op |-> "SetCapacity"] /\ slots' = slots
    BY <1>5 DEF SetCapacity
  <2>2. CASE c = 0
    <3>1. Clear
      BY <1>5, <2>2 DEF SetCapacity
    <3>2. TypeOK' /\ RingOK' /\ Accounted' /\ size' = 0
      BY <1>0, <2>1, <3>1, ClearStep DEF TypeOK
    <3>3. slots * HEADER_ENTRY_OVERHEAD >= 0
      BY <1>0 DEF TypeOK
    <3>4. Bounded'
      BY <2>1, <3>2, <3>3 DEF Bounded
    <3> QED
      BY <3>2, <3>4 DEF RingInv
  <2>3. CASE c # 0
    <3>1. UNCHANGED <<arrayVars, size>>
      BY <1>5, <2>3 DEF SetCapacity, arrayVars
    <3>2. RingOK' /\ Accounted'
      BY <3>1, SameRing
    <3>3. TypeOK'
      BY <1>0, <2>1, <3>1 DEF TypeOK, arrayVars
    <3>4. Bounded'
      BY <1>0, <2>1, <3>1 DEF Bounded, arrayVars
    <3> QED
      BY <3>2, <3>3, <3>4 DEF RingInv
  <2> QED
    BY <2>2, <2>3
<1>6. CASE SetCapacityRemoves
  BY <1>6, SomethingToRemove, RemoveKeeps DEF SetCapacityRemoves
<1>7. CASE Reallocate
  <2>1. TypeOK' /\ RingOK' /\ Accounted' /\ slots' = MaxEntries(capacity)
    BY <1>7, ReallocateStep
  <2>2. /\ call' = Idle /\ UNCHANGED <<size, capacity>>
        /\ size <= capacity /\ size \in Nat /\ capacity \in Nat
    BY <1>0, <1>7 DEF Reallocate, TypeOK
  <2>3. size <= slots' * HEADER_ENTRY_OVERHEAD
    <3> DEFINE m == MaxEntries(capacity)
               x == m * HEADER_ENTRY_OVERHEAD
    <3>1. m \in Nat /\ capacity <= x
      BY <2>2, RoundedUp
    <3>2. x \in Nat
      <4> HIDE DEF m
      <4> QED
        BY <3>1
    <3> HIDE DEF x
    <3>3. size <= x
      BY <2>2, <3>1, <3>2
    <3> QED
      BY <2>1, <3>3 DEF x
  <2>4. MaxEntries(capacity)' = MaxEntries(capacity)
    BY <2>2 DEF MaxEntries
  <2>5. Bounded'
    BY <2>1, <2>2, <2>3, <2>4 DEF Bounded, Idle
  <2> QED
    BY <2>1, <2>5 DEF RingInv
<1>8. CASE SkipLiteral
  BY <1>8, ClearKeeps DEF SkipLiteral
<1>9. CASE UNCHANGED vars
  <2>1. UNCHANGED <<arrayVars, slots, size, capacity, call>>
    BY <1>9 DEF vars, arrayVars
  <2>2. RingOK' /\ Accounted'
    BY <2>1, SameRing
  <2>3. TypeOK'
    BY <1>0, <2>1 DEF TypeOK, arrayVars
  <2>4. Bounded'
    BY <1>0, <2>1, BoundedStays DEF TypeOK
  <2> QED
    BY <2>2, <2>3, <2>4 DEF RingInv
<1> QED
  BY <1>1, <1>2, <1>3, <1>4, <1>5, <1>6, <1>7, <1>8, <1>9 DEF Next

\* Whatever the fields and the capacities, in every round of every loop the
\* array is a ring of the fields whose sizes it adds up, and is never full.
THEOREM TableIsRing == Spec => []RingInv
BY RingInitially, RingStep, PTL DEF Spec

-----------------------------------------------------------------------------
(* The refinement of HPackTable.                                           *)

LEMMA SameFit == ASSUME NEW s, NEW b PROVE Abstract!Fit(s, b) = Fit(s, b)
<1>1. ASSUME NEW f, NEW S PROVE Abstract!SumFunctionOnSet(f, S) = SumFunctionOnSet(f, S)
  BY Zenon DEF SumFunctionOnSet, Abstract!SumFunctionOnSet, FoldFunctionOnSet,
               Abstract!FoldFunctionOnSet, MapThenFoldSet, Abstract!MapThenFoldSet
<1>2. ASSUME NEW r PROVE Abstract!TotalSize(r) = TotalSize(r)
  BY <1>1, Zenon DEF TotalSize, Abstract!TotalSize, SumFunction, Abstract!SumFunction
<1>3. {n \in 0 .. Len(s) : Abstract!TotalSize(SubSeq(s, 1, n)) <= b}
        = {n \in 0 .. Len(s) : TotalSize(SubSeq(s, 1, n)) <= b}
  BY <1>2, Zenon
<1> QED
  BY <1>3, Zenon DEF Fit, Abstract!Fit, Max, Abstract!Max

\* What the list is in each state of a call.
LEMMA SettledIs ==
  /\ call = Idle => Settled = Entries
  /\ call.op = "Add" => Settled = Fit(<<call.field>> \o Entries, capacity)
  /\ call.op = "SetCapacity" => Settled = Fit(Entries, capacity)
BY DEF Settled, Idle

\* Removing the oldest field does not change the list the call ends with.
LEMMA AddRemovesKeepsList == RingInv /\ AddRemoves => UNCHANGED <<Settled, capacity>>
<1> SUFFICES ASSUME RingInv, AddRemoves PROVE UNCHANGED <<Settled, capacity>>
  OBVIOUS
<1> DEFINE h == call.field
           all == <<h>> \o Entries
<1>1. /\ call.op = "Add" /\ h \in Fields /\ capacity \in Nat /\ size \in Nat
      /\ size + FieldSize[h] > capacity /\ FieldSize[h] \in Nat
      /\ call' = call /\ capacity' = capacity
      /\ TypeOK /\ RingOK /\ Accounted
  BY DEF AddRemoves, RingInv, TypeOK, Idle
<1>2. size > 0 /\ Remove /\ UNCHANGED <<slots, head, capacity>>
  BY SomethingToRemove DEF AddRemoves
<1>3. Entries' = First(Entries, Len(Entries) - 1)
  BY <1>1, <1>2, RemoveStep
<1>4. Entries \in Seq(Fields) /\ Entries # <<>>
  <2>1. Entries = <<>> => size = 0
    BY <1>1, SizeOfNone DEF Accounted
  <2> QED
    BY <1>1, <1>2, <2>1, EntriesAre
<1>5. all \in Seq(Fields) /\ TotalSize(all) = FieldSize[h] + size
  <2> HIDE DEF h
  <2> QED
    BY <1>1, <1>4, Sizes, SizeFirst DEF Accounted
<1>6. ~(TotalSize(all) <= capacity)
  <2> HIDE DEF h, all
  <2> QED
    BY <1>1, <1>5
<1>7. Fit(all, capacity) = Fit(First(all, Len(all) - 1), capacity)
  <2> HIDE DEF all
  <2> QED
    BY <1>1, <1>5, <1>6, FitDropsLast
<1>8. First(all, Len(all) - 1) = <<h>> \o Entries'
  <2> HIDE DEF h
  <2> QED
    BY <1>1, <1>3, <1>4, PrefixOfPrepended
<1>9. Settled = Fit(all, capacity)
  BY <1>1, SettledIs
<1>10. Settled' = Fit(<<h>> \o Entries', capacity)
  BY <1>1 DEF Settled
<1> QED
  BY <1>1, <1>7, <1>8, <1>9, <1>10, Zenon

LEMMA AddStoresKeepsList == RingInv /\ AddStores => UNCHANGED <<Settled, capacity>>
<1> SUFFICES ASSUME RingInv, AddStores PROVE UNCHANGED <<Settled, capacity>>
  OBVIOUS
<1> DEFINE h == call.field
           all == <<h>> \o Entries
<1>1. /\ call.op = "Add" /\ h \in Fields /\ capacity \in Nat /\ size \in Nat
      /\ size + FieldSize[h] <= capacity /\ FieldSize[h] \in Nat
      /\ call' = Idle /\ capacity' = capacity
      /\ TypeOK /\ RingOK /\ Accounted
  BY DEF AddStores, RingInv, TypeOK, Idle
<1>2. Entries \in Seq(Fields)
  BY <1>1, EntriesAre
<1>3. all \in Seq(Fields) /\ TotalSize(all) = FieldSize[h] + size
  <2> HIDE DEF h
  <2> QED
    BY <1>1, <1>2, Sizes, SizeFirst DEF Accounted
<1>4. TotalSize(all) <= capacity
  <2> HIDE DEF h, all
  <2> QED
    BY <1>1, <1>3
<1>5. Fit(all, capacity) = all
  <2> HIDE DEF all
  <2> QED
    BY <1>1, <1>3, <1>4, FitAll
<1>6. Settled = Fit(all, capacity)
  BY <1>1, SettledIs
<1>7. Settled' = Entries'
  BY <1>1 DEF Settled, Idle
<1>8. Entries' = all
  BY StoreStep
<1> QED
  BY <1>1, <1>5, <1>6, <1>7, <1>8, Zenon

LEMMA SetCapacityRemovesKeepsList ==
  RingInv /\ SetCapacityRemoves => UNCHANGED <<Settled, capacity>>
<1> SUFFICES ASSUME RingInv, SetCapacityRemoves PROVE UNCHANGED <<Settled, capacity>>
  OBVIOUS
<1>1. /\ call.op = "SetCapacity" /\ capacity \in Nat /\ size \in Nat /\ size > capacity
      /\ call' = call /\ capacity' = capacity
      /\ TypeOK /\ RingOK /\ Accounted
  BY DEF SetCapacityRemoves, RingInv, TypeOK
<1>2. size > 0 /\ Remove /\ UNCHANGED <<slots, head, capacity>>
  BY SomethingToRemove DEF SetCapacityRemoves
<1>3. Entries' = First(Entries, Len(Entries) - 1)
  BY <1>1, <1>2, RemoveStep
<1>4. Entries \in Seq(Fields) /\ ~(TotalSize(Entries) <= capacity)
  BY <1>1, EntriesAre DEF Accounted
<1>5. Fit(Entries, capacity) = Fit(First(Entries, Len(Entries) - 1), capacity)
  BY <1>1, <1>4, FitDropsLast
<1>6. Settled = Fit(Entries, capacity)
  BY <1>1, SettledIs
<1>7. Settled' = Fit(Entries', capacity)
  BY <1>1 DEF Settled
<1> QED
  BY <1>1, <1>3, <1>5, <1>6, <1>7, Zenon

LEMMA ReallocateKeepsList == RingInv /\ Reallocate => UNCHANGED <<Settled, capacity>>
<1> SUFFICES ASSUME RingInv, Reallocate PROVE UNCHANGED <<Settled, capacity>>
  OBVIOUS
<1>1. /\ call.op = "SetCapacity" /\ capacity \in Nat /\ size <= capacity
      /\ call' = Idle /\ capacity' = capacity
      /\ TypeOK /\ RingOK /\ Accounted
  BY DEF Reallocate, RingInv, TypeOK
<1>2. Entries \in Seq(Fields) /\ TotalSize(Entries) <= capacity
  BY <1>1, EntriesAre DEF Accounted
<1>3. Fit(Entries, capacity) = Entries
  BY <1>1, <1>2, FitAll
<1>4. Settled = Fit(Entries, capacity)
  BY <1>1, SettledIs
<1>5. Settled' = Entries'
  BY <1>1 DEF Settled, Idle
<1>6. Entries' = Entries
  BY ReallocateStep
<1> QED
  BY <1>1, <1>3, <1>4, <1>5, <1>6, Zenon

\* A field is inserted when the call starts.
LEMMA AddInserts ==
  ASSUME RingInv, NEW h \in Fields, Add(h)
  PROVE  Abstract!Insert(h)
<1>1. /\ call = Idle /\ capacity' = capacity /\ call' = [op |-> "Add", field |-> h]
      /\ UNCHANGED <<arrayVars, size>>
  BY DEF Add
<1>2. Entries' = Entries
  BY <1>1, SameRing
<1>3. Settled = Entries
  BY <1>1, SettledIs
<1>4. Settled' = Fit(<<h>> \o Entries', capacity)
  BY <1>1 DEF Settled
<1>5. Settled' = Abstract!Fit(<<h>> \o Settled, capacity)
  BY <1>2, <1>3, <1>4, SameFit, Zenon
<1> QED
  BY <1>1, <1>5, Zenon DEF Abstract!Insert

LEMMA AddTooLargeInserts ==
  ASSUME RingInv, NEW h \in Fields, AddTooLarge(h)
  PROVE  Abstract!Insert(h)
<1> DEFINE all == <<h>> \o Entries
<1>1. /\ call = Idle /\ capacity' = capacity /\ call' = Idle /\ Clear /\ slots' = slots
      /\ FieldSize[h] > capacity /\ capacity \in Nat
      /\ TypeOK /\ RingOK
  BY DEF AddTooLarge, RingInv, TypeOK
<1>2. Settled = Entries /\ Settled' = Entries'
  BY <1>1, SettledIs DEF Settled, Idle
<1>3. Entries' = <<>> /\ Entries \in Seq(Fields)
  BY <1>1, ClearStep, EntriesAre
<1>4. all \in Seq(Fields) /\ all # <<>> /\ all[1] = h
  BY <1>3
<1>5. Fit(all, capacity) = <<>>
  <2> HIDE DEF all
  <2> QED
    BY <1>1, <1>4, Sizes, FitNone
<1>6. Settled' = Abstract!Fit(<<h>> \o Settled, capacity)
  BY <1>2, <1>3, <1>5, SameFit, Zenon
<1> QED
  BY <1>1, <1>6, Zenon DEF Abstract!Insert

\* The limit changes when the call starts, also when Clear ends it.
LEMMA SetCapacityResizes ==
  ASSUME RingInv, NEW c \in Capacities, SetCapacity(c)
  PROVE  Abstract!Resize(c)
<1>1. /\ call = Idle /\ capacity' = c /\ call' = [op |-> "SetCapacity"] /\ slots' = slots
      /\ c \in Nat /\ TypeOK /\ RingOK
  BY DEF SetCapacity, RingInv
<1>2. Settled = Entries /\ Entries \in Seq(Fields)
  BY <1>1, SettledIs, EntriesAre
<1>3. Settled' = Fit(Entries', c)
  BY <1>1 DEF Settled
<1>4. Fit(Entries', c) = Fit(Entries, c)
  <2>1. CASE c # 0
    <3>1. Entries' = Entries
      BY <2>1, SameRing DEF SetCapacity, arrayVars
    <3> QED
      BY <3>1, Zenon
  <2>2. CASE c = 0
    <3>1. Entries' = <<>>
      BY <1>1, <2>2, ClearStep DEF SetCapacity
    <3>2. Fit(<<>>, c) = <<>>
      <4> DEFINE none == <<>>
      <4>1. none \in Seq(Fields) /\ none = <<>>
        OBVIOUS
      <4> HIDE DEF none
      <4>2. TotalSize(none) <= c /\ c \in Nat
        BY <1>1, <4>1, SizeOfNone
      <4>3. Fit(none, c) = none
        BY ONLY <4>1, <4>2, FitAll
      <4> QED
        BY <4>3 DEF none
    <3>3. CASE Entries = <<>>
      BY <3>1, <3>3, Zenon
    <3>4. CASE Entries # <<>>
      <4>1. Entries[1] \in Fields
        BY <1>2, <3>4
      <4>2. FieldSize[Entries[1]] > c
        BY <2>2, <4>1
      <4>3. Fit(Entries, c) = <<>>
        BY <1>1, <1>2, <3>4, <4>2, Sizes, FitNone
      <4> QED
        BY <3>1, <3>2, <4>3, Zenon
    <3> QED
      BY <3>3, <3>4
  <2> QED
    BY <2>1, <2>2
<1>5. Settled' = Abstract!Fit(Settled, c)
  BY <1>2, <1>3, <1>4, SameFit, Zenon
<1> QED
  BY <1>1, <1>5, Zenon DEF Abstract!Resize

LEMMA SkipLiteralForgets == RingInv /\ SkipLiteral => Abstract!Forget
<1> SUFFICES ASSUME RingInv, SkipLiteral PROVE Abstract!Forget
  OBVIOUS
<1>1. call' = Idle /\ capacity' = capacity
  BY DEF SkipLiteral
<1>2. Entries' = <<>>
  BY ClearStep DEF SkipLiteral, RingInv
<1>3. Settled' = Entries'
  BY <1>1 DEF Settled, Idle
<1> QED
  BY <1>1, <1>2, <1>3 DEF Abstract!Forget

\* Each step of the array is a step of the list, or none.
LEMMA ListStep == RingInv /\ [Next]_vars => [Abstract!Next]_<<Settled, capacity>>
<1> SUFFICES ASSUME RingInv, [Next]_vars
             PROVE  Abstract!Next \/ UNCHANGED <<Settled, capacity>>
  OBVIOUS
<1>1. ASSUME NEW h \in Fields, AddTooLarge(h) \/ Add(h)
      PROVE  Abstract!Next
  BY <1>1, AddTooLargeInserts, AddInserts DEF Abstract!Next
<1>2. ASSUME AddRemoves \/ AddStores \/ SetCapacityRemoves \/ Reallocate
      PROVE  UNCHANGED <<Settled, capacity>>
  BY <1>2, AddRemovesKeepsList, AddStoresKeepsList, SetCapacityRemovesKeepsList,
     ReallocateKeepsList
<1>3. ASSUME NEW c \in Capacities, SetCapacity(c)
      PROVE  Abstract!Next
  BY <1>3, SetCapacityResizes DEF Abstract!Next
<1>4. CASE SkipLiteral
  BY <1>4, SkipLiteralForgets DEF Abstract!Next
<1>5. CASE UNCHANGED vars
  <2>1. UNCHANGED <<arrayVars, size, capacity, call>>
    BY <1>5 DEF vars
  <2>2. Entries' = Entries
    BY <2>1, SameRing
  <2> QED
    BY <2>1, <2>2 DEF Settled
<1> QED
  BY <1>1, <1>2, <1>3, <1>4, <1>5 DEF Next

LEMMA ListInitially == Init => Abstract!Init
<1> SUFFICES ASSUME Init PROVE Abstract!Init
  OBVIOUS
<1>1. call = Idle /\ capacity \in Capacities /\ Length = 0
  BY DEF Init, Length
<1>2. Entries = <<>>
  BY <1>1 DEF Entries
<1> QED
  BY <1>1, <1>2, SettledIs DEF Abstract!Init

\* The array, its wrapping, its evictions and its reallocations are a way to
\* keep the list of HPackTable.
THEOREM TableIsList == Spec => ImplementsHPackTable
<1>1. Init => Abstract!Init
  BY ListInitially
<1>2. RingInv /\ [Next]_vars => [Abstract!Next]_<<Settled, capacity>>
  BY ListStep
<1> QED
  BY <1>1, <1>2, TableIsRing, PTL DEF Spec, ImplementsHPackTable, Abstract!Spec
=============================================================================
