------------------------- MODULE HeaderBlocksProofs -------------------------
(***************************************************************************)
(* What holds of every header block from an Encoder to a Decoder, for any  *)
(* fields, static table, buckets, sizes of the tables and limits.  First   *)
(* what the operations of an Encoder do: its linked hash map stays what it *)
(* is through every removal, eviction and insertion, and its lookups find  *)
(* in it what they look for.                                               *)
(***************************************************************************)
EXTENDS HeaderBlocks, SumLemmas, SequenceTheorems

\* FieldListProofs speaks of sizes as a function.
Sizes == [f \in Fields |-> SizeOf(f)]

Lists == INSTANCE FieldListProofs WITH FieldSize <- Sizes

-----------------------------------------------------------------------------
(* Lists of fields.                                                        *)

LEMMA SameSize == ASSUME NEW s PROVE Lists!TotalSize(s) = TotalSize(s)
BY Zenon DEF Sizes, TotalSize, Lists!TotalSize, SumFunction, Lists!SumFunction,
             SumFunctionOnSet, Lists!SumFunctionOnSet, FoldFunctionOnSet,
             Lists!FoldFunctionOnSet, MapThenFoldSet, Lists!MapThenFoldSet

LEMMA SameFit == ASSUME NEW s, NEW bound PROVE Lists!Fit(s, bound) = Fit(s, bound)
BY SameSize, Zenon DEF Fit, Lists!Fit, Max, Lists!Max

LEMMA FieldSizes ==
  \A f \in Fields : Sizes[f] = SizeOf(f) /\ SizeOf(f) \in Nat \ {0} /\ Bytes(f) \in Nat
BY HeaderFieldsAssumption DEF Sizes, SizeOf, Bytes

LEMMA SizeIsNat ==
  ASSUME NEW s \in Seq(Fields)
  PROVE  /\ TotalSize(s) \in Nat /\ TotalSize(s) >= Len(s)
         /\ s = <<>> => TotalSize(s) = 0
<1>1. 1 \in Nat /\ \A h \in Fields : Sizes[h] \in Nat /\ Sizes[h] >= 1
  BY FieldSizes
<1>2. Lists!TotalSize(s) \in Nat /\ Lists!TotalSize(s) >= Len(s) * 1
  BY <1>1, Lists!SizeAtLeast
<1>3. Len(s) * 1 = Len(s)
  OBVIOUS
<1>4. s = <<>> => Lists!TotalSize(s) = 0
  BY Lists!SizeOfNone
<1> QED
  BY <1>2, <1>3, <1>4, SameSize

LEMMA SizeWithoutLast ==
  ASSUME NEW s \in Seq(Fields), s # <<>>
  PROVE  /\ TotalSize(s) = TotalSize(Lists!First(s, Len(s) - 1)) + SizeOf(s[Len(s)])
         /\ Lists!First(s, Len(s) - 1) \in Seq(Fields)
         /\ s[Len(s)] \in Fields
<1>1. \A h \in Fields : Sizes[h] \in Nat
  BY FieldSizes
<1>2. /\ Lists!TotalSize(s) = Lists!TotalSize(Lists!First(s, Len(s) - 1)) + Sizes[s[Len(s)]]
      /\ Lists!First(s, Len(s) - 1) \in Seq(Fields)
      /\ s[Len(s)] \in Fields
  BY <1>1, Lists!SizeLast
<1> QED
  BY <1>2, SameSize, FieldSizes

LEMMA SizeWithFirst ==
  ASSUME NEW f \in Fields, NEW s \in Seq(Fields)
  PROVE  /\ <<f>> \o s \in Seq(Fields)
         /\ TotalSize(<<f>> \o s) = SizeOf(f) + TotalSize(s)
<1>1. \A h \in Fields : Sizes[h] \in Nat
  BY FieldSizes
<1>2. /\ <<f>> \o s \in Seq(Fields)
      /\ Lists!TotalSize(<<f>> \o s) = Sizes[f] + Lists!TotalSize(s)
  BY <1>1, Lists!SizeFirst
<1> QED
  BY <1>2, SameSize, FieldSizes

LEMMA FitWhole ==
  ASSUME NEW s \in Seq(Fields), NEW bound \in Nat, TotalSize(s) <= bound
  PROVE  Fit(s, bound) = s
<1>1. Lists!TotalSize(s) <= bound
  BY SameSize
<1> QED
  BY <1>1, Lists!FitAll, SameFit

LEMMA FitWithoutLast ==
  ASSUME NEW s \in Seq(Fields), NEW bound \in Nat, ~(TotalSize(s) <= bound)
  PROVE  s # <<>> /\ Fit(s, bound) = Fit(Lists!First(s, Len(s) - 1), bound)
<1>1. ~(Lists!TotalSize(s) <= bound)
  BY SameSize
<1> QED
  BY <1>1, Lists!FitDropsLast, SameFit

LEMMA FitWithFirst ==
  ASSUME NEW f \in Fields, NEW s \in Seq(Fields), NEW bound \in Nat, SizeOf(f) <= bound
  PROVE  Fit(<<f>> \o s, bound) = <<f>> \o Fit(s, bound - SizeOf(f))
<1>1. (\A h \in Fields : Sizes[h] \in Nat) /\ Sizes[f] <= bound /\ Sizes[f] = SizeOf(f)
  BY FieldSizes
<1>2. Lists!Fit(<<f>> \o s, bound) = <<f>> \o Lists!Fit(s, bound - Sizes[f])
  BY <1>1, Lists!FitPrepended
<1> QED
  BY <1>1, <1>2, SameFit

LEMMA FitIsPrefix ==
  ASSUME NEW s \in Seq(Fields), NEW bound \in Nat
  PROVE  \E n \in 0 .. Len(s) :
           /\ Fit(s, bound) = Lists!First(s, n)
           /\ TotalSize(Fit(s, bound)) <= bound
           /\ \A k \in 0 .. Len(s) : TotalSize(Lists!First(s, k)) <= bound => k <= n
BY Lists!FitIsLongest, SameFit, SameSize

LEMMA FitType ==
  ASSUME NEW s \in Seq(Fields), NEW bound \in Nat
  PROVE  Fit(s, bound) \in Seq(Fields) /\ TotalSize(Fit(s, bound)) <= bound
<1>1. PICK n \in 0 .. Len(s) :
        Fit(s, bound) = Lists!First(s, n) /\ TotalSize(Fit(s, bound)) <= bound
  BY FitIsPrefix
<1>2. Lists!First(s, n) \in Seq(Fields)
  BY Lists!Prefix
<1> QED
  BY <1>1, <1>2

-----------------------------------------------------------------------------
(* Places in sequences.                                                    *)

\* The smallest of some positive numbers is one of them.
LEMMA MinOfSome ==
  ASSUME NEW S, S \subseteq Nat, S # {}
  PROVE  Min(S) \in S
<1>1. \E m \in S : \A n \in S : m <= n
  BY Lists!LeastNat
<1> QED
  BY <1>1, Zenon DEF Min

Increasing(s) == \A i, j \in DOMAIN s : i < j => s[i].index < s[j].index

Entries == [field : Fields, index : Int]

\* RemoveFirst takes one entry out of a bucket and leaves its order alone.
LEMMA RemoveOne ==
  ASSUME NEW s \in Seq(Entries), Increasing(s), NEW x \in Range(s)
  PROVE  /\ RemoveFirst(s, x) \in Seq(Entries)
         /\ Increasing(RemoveFirst(s, x))
         /\ Range(RemoveFirst(s, x)) = Range(s) \ {x}
<1> DEFINE S == {i \in 1 .. Len(s) : s[i] = x}
           k == SelectInSeq(s, LAMBDA v : v = x)
           a == SubSeq(s, 1, k - 1)
           b == SubSeq(s, k + 1, Len(s))
           n == Len(s)
           r == a \o b
<1>1. n \in Nat /\ DOMAIN s = 1 .. n /\ \A i \in 1 .. n : s[i] \in Entries
  OBVIOUS
<1>2. PICK i0 \in 1 .. n : s[i0] = x
  BY <1>1, Zenon DEF Range
<1>3. S # {} /\ S \subseteq Nat
  BY <1>1, <1>2
<1>4. k \in S
  <2>1. k = Min(S)
    BY <1>3, Zenon DEF SelectInSeq
  <2> QED
    BY <1>3, <2>1, MinOfSome
<1>5. k \in 1 .. n /\ s[k] = x
  BY <1>4
<1>6. RemoveFirst(s, x) = r
  BY <1>2, Zenon DEF RemoveFirst, RemoveAt
<1> HIDE DEF S, k, n
<1>7. a \in Seq(Entries) /\ Len(a) = k - 1 /\ \A i \in 1 .. k - 1 : a[i] = s[i]
  <2>1. 1 \in Int /\ k - 1 \in Int /\ \A i \in 1 .. k - 1 : s[i] \in Entries
    BY <1>1, <1>5
  <2>2. /\ a \in Seq(Entries)
        /\ Len(a) = IF 1 <= k - 1 THEN k - 1 - 1 + 1 ELSE 0
        /\ \A i \in 1 .. k - 1 - 1 + 1 : a[i] = s[1 + i - 1]
    BY <2>1, SubSeqProperties
  <2> HIDE DEF a
  <2>3. Len(a) = k - 1 /\ \A i \in 1 .. k - 1 : a[i] = s[i]
    BY <1>1, <1>5, <2>2
  <2> QED
    BY <2>2, <2>3
<1>8. b \in Seq(Entries) /\ Len(b) = n - k /\ \A i \in 1 .. n - k : b[i] = s[k + i]
  <2>1. k + 1 \in Int /\ n \in Int /\ \A i \in k + 1 .. n : s[i] \in Entries
    BY <1>1, <1>5
  <2>2. b = SubSeq(s, k + 1, n)
    BY Zenon DEF n
  <2> HIDE DEF b
  <2>3. /\ SubSeq(s, k + 1, n) \in Seq(Entries)
        /\ Len(SubSeq(s, k + 1, n)) = IF k + 1 <= n THEN n - (k + 1) + 1 ELSE 0
        /\ \A i \in 1 .. n - (k + 1) + 1 : SubSeq(s, k + 1, n)[i] = s[k + 1 + i - 1]
    BY <2>1, SubSeqProperties
  <2>4. /\ b \in Seq(Entries)
        /\ Len(b) = IF k + 1 <= n THEN n - (k + 1) + 1 ELSE 0
        /\ \A i \in 1 .. n - (k + 1) + 1 : b[i] = s[k + 1 + i - 1]
    BY <2>2, <2>3, Zenon
  <2>5. Len(b) = n - k /\ \A i \in 1 .. n - k : b[i] = s[k + i]
    <3>1. k \in Int /\ n \in Int /\ k <= n
      BY <1>1, <1>5
    <3>2. n - (k + 1) + 1 = n - k /\ (~(k + 1 <= n) => n - k = 0)
      BY <3>1
    <3>3. ASSUME NEW i \in 1 .. n - k PROVE b[i] = s[k + i]
      <4>1. i \in 1 .. n - (k + 1) + 1 /\ k + 1 + i - 1 = k + i
        BY <3>1
      <4> QED
        BY <2>4, <4>1, Zenon
    <3>4. Len(b) = n - k
      BY <2>4, <3>2
    <3> QED
      BY <3>3, <3>4, Zenon
  <2> QED
    BY <2>4, <2>5
<1> HIDE DEF a, b
<1>9. /\ r \in Seq(Entries) /\ Len(r) = n - 1 /\ DOMAIN r = 1 .. n - 1
      /\ \A i \in 1 .. n - 1 : r[i] = IF i < k THEN s[i] ELSE s[i + 1]
  <2>1. a \in Seq(Entries) /\ b \in Seq(Entries)
    BY <1>7, <1>8
  <2>2. r \in Seq(Entries) /\ Len(r) = Len(a) + Len(b)
        /\ \A i \in 1 .. Len(a) + Len(b) : r[i] = IF i <= Len(a) THEN a[i] ELSE b[i - Len(a)]
    BY <2>1, ConcatProperties
  <2> HIDE DEF r
  <2> QED
    BY <1>1, <1>5, <1>7, <1>8, <2>2
<1> HIDE DEF r
<1>10. Increasing(r)
  <2>1. ASSUME NEW i \in 1 .. n - 1, NEW j \in 1 .. n - 1, i < j
        PROVE  r[i].index < r[j].index
    <3>1. PICK u \in 1 .. n, v \in 1 .. n : u < v /\ r[i] = s[u] /\ r[j] = s[v]
      <4>1. r[i] = s[IF i < k THEN i ELSE i + 1] /\ r[j] = s[IF j < k THEN j ELSE j + 1]
        BY <1>9
      <4> QED
        BY <1>1, <1>5, <2>1, <4>1
    <3> QED
      BY <1>1, <3>1 DEF Increasing
  <2> QED
    BY <1>9, <2>1 DEF Increasing
<1>11. ASSUME NEW i \in 1 .. n, s[i] = x
       PROVE  i = k
  <2>1. s[i].index \in Int /\ s[k].index \in Int
    BY <1>1, <1>5 DEF Entries
  <2>2. i < k => s[i].index < s[k].index
    BY <1>1, <1>5 DEF Increasing
  <2>3. k < i => s[k].index < s[i].index
    BY <1>1, <1>5 DEF Increasing
  <2> QED
    BY <1>1, <1>5, <1>11, <2>1, <2>2, <2>3
<1>12. Range(r) = Range(s) \ {x}
  <2>1. ASSUME NEW z \in Range(r)
        PROVE  z \in Range(s) \ {x}
    <3>1. PICK i \in 1 .. n - 1 : z = r[i]
      BY <1>9, Zenon DEF Range
    <3>2. CASE i < k
      <4>1. i \in 1 .. n /\ i # k /\ z = s[i]
        BY <1>1, <1>5, <1>9, <3>1, <3>2
      <4> QED
        BY <1>1, <1>11, <4>1 DEF Range
    <3>3. CASE ~(i < k)
      <4>1. i + 1 \in 1 .. n /\ i + 1 # k /\ z = s[i + 1]
        BY <1>1, <1>5, <1>9, <3>1, <3>3
      <4> QED
        BY <1>1, <1>11, <4>1 DEF Range
    <3> QED
      BY <3>2, <3>3
  <2>2. ASSUME NEW z \in Range(s), z # x
        PROVE  z \in Range(r)
    <3>1. PICK i \in 1 .. n : z = s[i]
      BY <1>1, Zenon DEF Range
    <3>2. i # k
      BY <1>5, <2>2, <3>1
    <3>3. CASE i < k
      <4>1. i \in 1 .. n - 1 /\ r[i] = z
        BY <1>1, <1>5, <1>9, <3>1, <3>3
      <4> QED
        BY <1>9, <4>1 DEF Range
    <3>4. CASE ~(i < k)
      <4>1. i - 1 \in 1 .. n - 1 /\ r[i - 1] = z
        BY <1>1, <1>5, <1>9, <3>1, <3>2, <3>4
      <4> QED
        BY <1>9, <4>1 DEF Range
    <3> QED
      BY <3>3, <3>4
  <2> QED
    BY <2>1, <2>2
<1> QED
  BY <1>6, <1>9, <1>10, <1>12

-----------------------------------------------------------------------------
(* The table of a linked hash map.                                         *)

EncoderObjects ==
  [capacity : Nat, size : Nat, chain : Seq(Entries), headerFields : [Buckets -> Seq(Entries)]]

\* The table is the list of entries from its end.
LEMMA TableFacts ==
  ASSUME NEW e \in EncoderObjects
  PROVE  /\ TableOf(e) \in Seq(Fields)
         /\ Len(TableOf(e)) = Len(e.chain)
         /\ Len(e.chain) \in Nat /\ DOMAIN e.chain = 1 .. Len(e.chain)
         /\ \A i \in 1 .. Len(e.chain) :
              /\ e.chain[i] \in Entries
              /\ TableOf(e)[i] = e.chain[Len(e.chain) - i + 1].field
<1> DEFINE c == e.chain
           n == Len(c)
           s == [i \in DOMAIN c |-> c[i].field]
<1>1. c \in Seq(Entries)
  BY DEF EncoderObjects
<1> HIDE DEF c
<1>2. n \in Nat /\ DOMAIN c = 1 .. n /\ \A i \in 1 .. n : c[i] \in Entries /\ c[i].field \in Fields
  <2>1. n \in Nat /\ DOMAIN c = 1 .. n /\ \A i \in 1 .. n : c[i] \in Entries
    BY <1>1
  <2>2. \A x \in Entries : x.field \in Fields
    BY DEF Entries
  <2> QED
    BY <2>1, <2>2
<1>3. s \in Seq(Fields) /\ Len(s) = n /\ \A i \in 1 .. n : s[i] = c[i].field
  BY <1>2
<1>4. TableOf(e) = [i \in 1 .. Len(s) |-> s[(Len(s) - i) + 1]]
  BY Zenon DEF TableOf, Reverse, s, c
<1> HIDE DEF s, n
<1>5. TableOf(e) = [i \in 1 .. n |-> s[n - i + 1]]
  BY <1>3, <1>4
<1>6. \A i \in 1 .. n : n - i + 1 \in 1 .. n
  BY <1>2
<1>7. TableOf(e) \in Seq(Fields) /\ Len(TableOf(e)) = n
      /\ \A i \in 1 .. n : TableOf(e)[i] = c[n - i + 1].field
  BY SMTT(40), <1>2, <1>3, <1>5, <1>6
<1> QED
  BY <1>2, <1>7 DEF n, c

\* Two places of the list hold different entries.
LEMMA ChainFacts ==
  ASSUME NEW e \in EncoderObjects, Linked(e), e.chain # <<>>
  PROVE  /\ OldestIndex(e) = e.chain[1].index /\ OldestIndex(e) \in Int
         /\ NewestIndex(e) = OldestIndex(e) - Len(e.chain) + 1
         /\ Len(e.chain) \in Nat \ {0}
         /\ \A i \in 1 .. Len(e.chain) :
              /\ e.chain[i] \in Entries
              /\ e.chain[i].index = OldestIndex(e) - i + 1
         /\ \A i, j \in 1 .. Len(e.chain) : e.chain[i] = e.chain[j] => i = j
<1>1. e.chain \in Seq(Entries) /\ Len(e.chain) \in Nat \ {0} /\ DOMAIN e.chain = 1 .. Len(e.chain)
  BY EmptySeq DEF EncoderObjects
<1>2. OldestIndex(e) = e.chain[1].index /\ e.chain[1] \in Entries
  BY <1>1 DEF OldestIndex
<1>3. OldestIndex(e) \in Int
  BY <1>2 DEF Entries
<1>4. \A i \in 1 .. Len(e.chain) : e.chain[i].index = OldestIndex(e) - i + 1
  BY <1>1 DEF Linked
<1>5. NewestIndex(e) = e.chain[Len(e.chain)].index
  BY DEF NewestIndex, Last
<1>6. ASSUME NEW i \in 1 .. Len(e.chain), NEW j \in 1 .. Len(e.chain), e.chain[i] = e.chain[j]
      PROVE  i = j
  <2>1. OldestIndex(e) - i + 1 = OldestIndex(e) - j + 1
    BY <1>4, <1>6
  <2> QED
    BY <1>1, <1>3, <2>1
<1>7. \A i \in 1 .. Len(e.chain) : e.chain[i] \in Entries
  BY <1>1
<1> QED
  BY <1>1, <1>2, <1>3, <1>4, <1>5, <1>6, <1>7

\* The number of entries, computed from two indices, is theirs.
LEMMA LengthIsThatOfChain ==
  ASSUME NEW e \in EncoderObjects, Linked(e)
  PROVE  /\ Length(e) = Len(e.chain)
         /\ e.size = 0 <=> e.chain = <<>>
         /\ Length(e) = 0 <=> e.chain = <<>>
<1>1. TableOf(e) \in Seq(Fields) /\ Len(TableOf(e)) = Len(e.chain) /\ Len(e.chain) \in Nat
  BY TableFacts
<1>2. /\ e.size = TotalSize(TableOf(e))
      /\ TotalSize(TableOf(e)) \in Nat
      /\ TotalSize(TableOf(e)) >= Len(e.chain)
      /\ TableOf(e) = <<>> => TotalSize(TableOf(e)) = 0
  BY <1>1, SizeIsNat DEF Linked
<1>3. e.chain = <<>> <=> Len(e.chain) = 0
  <2>1. e.chain \in Seq(Entries)
    BY DEF EncoderObjects
  <2> QED
    BY <2>1, EmptySeq
<1>4. TableOf(e) = <<>> <=> Len(e.chain) = 0
  BY <1>1, EmptySeq
<1>5. e.size = 0 <=> e.chain = <<>>
  BY <1>1, <1>2, <1>3, <1>4
<1>6. CASE e.chain = <<>>
  BY <1>3, <1>5, <1>6 DEF Length
<1>7. CASE e.chain # <<>>
  <2>1. /\ OldestIndex(e) \in Int
        /\ NewestIndex(e) = OldestIndex(e) - Len(e.chain) + 1
    BY <1>7, ChainFacts
  <2>2. OldestIndex(e) - NewestIndex(e) + 1 = Len(e.chain)
    BY <1>1, <2>1
  <2> QED
    BY <1>3, <1>5, <1>7, <2>2 DEF Length
<1> QED
  BY <1>6, <1>7

-----------------------------------------------------------------------------
(* Removal, eviction and insertion.                                        *)

\* The oldest entry goes; the others stay linked.
LEMMA RemovesEldest ==
  ASSUME NEW e \in EncoderObjects, Linked(e), e.chain # <<>>
  PROVE  /\ RemoveEldest(e) \in EncoderObjects
         /\ Linked(RemoveEldest(e))
         /\ RemoveEldest(e).chain = Tail(e.chain)
         /\ RemoveEldest(e).capacity = e.capacity
         /\ TableOf(RemoveEldest(e)) = Lists!First(TableOf(e), Len(e.chain) - 1)
<1> DEFINE c == e.chain
           n == Len(c)
           x == c[1]
           bx == Bucket[x.field.name]
           r == RemoveEldest(e)
           T == TableOf(e)
           t == Tail(c)
<1>1. /\ c \in Seq(Entries) /\ e.size \in Nat /\ e.capacity \in Nat
      /\ e.headerFields \in [Buckets -> Seq(Entries)]
  BY DEF EncoderObjects
<1>2. /\ n \in Nat \ {0} /\ OldestIndex(e) = x.index /\ OldestIndex(e) \in Int
      /\ \A i \in 1 .. n : c[i] \in Entries /\ c[i].index = OldestIndex(e) - i + 1
      /\ \A i, j \in 1 .. n : c[i] = c[j] => i = j
  BY ChainFacts
<1>3. /\ T \in Seq(Fields) /\ Len(T) = n
      /\ \A i \in 1 .. n : T[i] = c[n - i + 1].field
  BY TableFacts
<1>4. x \in Entries /\ x.field \in Fields /\ bx \in Buckets
  <2>1. x \in Entries
    BY <1>2
  <2>2. x.field \in Fields
    BY <2>1 DEF Entries
  <2> QED
    BY <2>1, <2>2 DEF Buckets, Names
<1>5. e.size # 0
  BY LengthIsThatOfChain
<1>6. r = [e EXCEPT !.chain = t,
                    !.size = @ - SizeOf(x.field),
                    !.headerFields[bx] = RemoveFirst(@, x)]
  <2>1. Head(c) = x
    BY <1>1, <1>2
  <2> QED
    BY <1>5, <2>1 DEF RemoveEldest
<1>7. t \in Seq(Entries) /\ Len(t) = n - 1 /\ DOMAIN t = 1 .. n - 1
      /\ \A i \in 1 .. n - 1 : t[i] = c[i + 1]
  <2>1. t \in Seq(Entries) /\ Len(t) = n - 1 /\ \A i \in 1 .. Len(t) : t[i] = c[i + 1]
    BY <1>1, HeadTailProperties
  <2> QED
    BY <2>1
<1>8. Range(t) = Range(c) \ {x}
  <2>1. DOMAIN c = 1 .. n
    BY <1>1
  <2>2. ASSUME NEW z \in Range(t)
        PROVE  z \in Range(c) /\ z # x
    <3>1. PICK i \in 1 .. n - 1 : z = c[i + 1]
      BY <1>7, Zenon DEF Range
    <3>2. i + 1 \in 1 .. n /\ i + 1 # 1 /\ 1 \in 1 .. n
      BY <1>2
    <3>3. z # x
      BY <1>2, <3>1, <3>2
    <3> QED
      BY <2>1, <3>1, <3>2, <3>3, Zenon DEF Range
  <2>3. ASSUME NEW z \in Range(c), z # x
        PROVE  z \in Range(t)
    <3>1. PICK i \in 1 .. n : z = c[i]
      BY <2>1, Zenon DEF Range
    <3>2. i # 1
      BY <2>3, <3>1
    <3>3. i - 1 \in 1 .. n - 1 /\ i - 1 + 1 = i
      BY <1>2, <3>2
    <3>4. t[i - 1] = z
      BY SMTT(40), <1>7, <3>1, <3>3
    <3> QED
      BY <1>7, <3>3, <3>4, Zenon DEF Range
  <2> QED
    BY <2>2, <2>3
<1>9. /\ e.headerFields[bx] \in Seq(Entries)
      /\ Increasing(e.headerFields[bx])
      /\ Range(e.headerFields[bx]) = {z \in Range(c) : Bucket[z.field.name] = bx}
  BY ZenonT(60), <1>1, <1>4 DEF Linked, Increasing
<1>10. x \in Range(e.headerFields[bx])
  <2>1. x \in Range(c)
    BY SMTT(40), <1>1, <1>2 DEF Range
  <2> QED
    BY <1>9, <2>1
<1>11. /\ RemoveFirst(e.headerFields[bx], x) \in Seq(Entries)
       /\ Increasing(RemoveFirst(e.headerFields[bx], x))
       /\ Range(RemoveFirst(e.headerFields[bx], x)) = Range(e.headerFields[bx]) \ {x}
  BY <1>9, <1>10, RemoveOne
<1>12. /\ TotalSize(T) = TotalSize(Lists!First(T, n - 1)) + SizeOf(x.field)
       /\ Lists!First(T, n - 1) \in Seq(Fields)
  <2>1. T # <<>>
    BY <1>2, <1>3, EmptySeq
  <2>2. n - n + 1 = 1 /\ n \in 1 .. n
    BY <1>2
  <2>3. T[Len(T)] = x.field
    BY <1>3, <2>2
  <2> HIDE DEF T
  <2>4. TotalSize(T) = TotalSize(Lists!First(T, Len(T) - 1)) + SizeOf(T[Len(T)])
        /\ Lists!First(T, Len(T) - 1) \in Seq(Fields)
    BY <1>3, <2>1, SizeWithoutLast
  <2> QED
    BY <1>3, <2>3, <2>4, Zenon
<1>13. TotalSize(Lists!First(T, n - 1)) \in Nat /\ SizeOf(x.field) \in Nat /\ e.size = TotalSize(T)
  BY <1>4, <1>12, SizeIsNat, FieldSizes DEF Linked
<1>14. /\ r.chain = t /\ r.capacity = e.capacity
       /\ r.size = TotalSize(Lists!First(T, n - 1))
       /\ r.headerFields = [e.headerFields EXCEPT ![bx] = RemoveFirst(e.headerFields[bx], x)]
       /\ r \in EncoderObjects
  <2>1. e.size - SizeOf(x.field) = TotalSize(Lists!First(T, n - 1))
    BY <1>12, <1>13
  <2> HIDE DEF T, n, t, x, bx
  <2>2. /\ r.chain = t /\ r.capacity = e.capacity
        /\ r.size = TotalSize(Lists!First(T, n - 1))
        /\ r.headerFields = [e.headerFields EXCEPT ![bx] = RemoveFirst(e.headerFields[bx], x)]
    BY <1>6, <2>1 DEF EncoderObjects
  <2>3. [e.headerFields EXCEPT ![bx] = RemoveFirst(e.headerFields[bx], x)] \in [Buckets -> Seq(Entries)]
    BY <1>1, <1>4, <1>11
  <2>4. r \in EncoderObjects
    BY <1>1, <1>6, <1>7, <1>13, <2>2, <2>3 DEF EncoderObjects
  <2> QED
    BY <2>2, <2>4
<1>15. TableOf(r) = Lists!First(T, n - 1)
  <2>1. /\ TableOf(r) \in Seq(Fields) /\ Len(TableOf(r)) = Len(r.chain)
        /\ \A i \in 1 .. Len(r.chain) : TableOf(r)[i] = r.chain[Len(r.chain) - i + 1].field
    BY <1>14, TableFacts
  <2>2. n - 1 \in 0 .. Len(T)
    BY <1>2, <1>3
  <2> HIDE DEF T, n, t, r
  <2>3. /\ Len(TableOf(r)) = n - 1
        /\ \A i \in 1 .. n - 1 : TableOf(r)[i] = t[n - 1 - i + 1].field
    BY <1>7, <1>14, <2>1
  <2>4. ASSUME NEW i \in 1 .. n - 1
        PROVE  TableOf(r)[i] = T[i]
    <3> DEFINE j == n - 1 - i + 1
    <3>1. j \in 1 .. n - 1 /\ j + 1 = n - i + 1 /\ i \in 1 .. n
      BY <1>2
    <3>2. TableOf(r)[i] = t[j].field
      BY <2>3
    <3> HIDE DEF j, x
    <3>3. t[j] = c[j + 1]
      BY <1>7, <3>1
    <3>4. T[i] = c[n - i + 1].field
      BY <1>3, <3>1
    <3> QED
      BY <3>1, <3>2, <3>3, <3>4, Zenon
  <2>5. /\ Lists!First(T, n - 1) \in Seq(Fields) /\ Len(Lists!First(T, n - 1)) = n - 1
        /\ \A i \in 1 .. n - 1 : Lists!First(T, n - 1)[i] = T[i]
    <3> DEFINE m == n - 1
    <3>1. m \in 0 .. Len(T)
      BY <2>2
    <3> HIDE DEF m
    <3>2. /\ Lists!First(T, m) \in Seq(Fields) /\ Len(Lists!First(T, m)) = m
          /\ \A i \in 1 .. m : Lists!First(T, m)[i] = T[i]
      BY <1>3, <3>1, Lists!Prefix
    <3> QED
      BY <3>2 DEF m
  <2> QED
    BY <2>1, <2>3, <2>4, <2>5, SeqEqual
<1>16. Linked(r)
  <2>1. ASSUME NEW i \in DOMAIN r.chain
        PROVE  r.chain[i].index = OldestIndex(r) - i + 1
    <3>1. i \in 1 .. n - 1 /\ i + 1 \in 1 .. n /\ 2 \in 1 .. n /\ 1 \in 1 .. n - 1
      BY SMTT(40), <1>2, <1>7, <1>14, <2>1
    <3>2. r.chain[i].index = OldestIndex(e) - (i + 1) + 1
      BY SMTT(40), <1>2, <1>7, <1>14, <3>1
    <3>3. OldestIndex(r) = OldestIndex(e) - 2 + 1
      <4>1. r.chain # <<>> /\ Head(t) = t[1]
        BY <1>7, <1>14, <3>1
      <4>2. OldestIndex(r) = t[1].index
        BY <1>14, <4>1 DEF OldestIndex
      <4>3. t[1] = c[1 + 1]
        BY <1>7, <3>1
      <4> QED
        BY <1>2, <3>1, <4>2, <4>3
    <3>4. OldestIndex(e) \in Int /\ i \in Int
      BY <1>2, <3>1
    <3> QED
      BY ONLY <3>2, <3>3, <3>4
  <2>2. ASSUME NEW b \in Buckets
        PROVE  /\ Range(r.headerFields[b]) = {z \in Range(r.chain) : Bucket[z.field.name] = b}
               /\ Increasing(r.headerFields[b])
    <3> HIDE DEF r, t, x, c
    <3>1. Range(r.chain) = Range(c) \ {x}
      BY <1>8, <1>14
    <3>2. CASE b = bx
      <4>1. r.headerFields[b] = RemoveFirst(e.headerFields[bx], x)
        BY <1>1, <1>4, <1>14, <3>2
      <4> HIDE DEF bx
      <4>2. Range(r.headerFields[b]) = {z \in Range(c) : Bucket[z.field.name] = bx} \ {x}
        BY <1>9, <1>11, <4>1
      <4> QED
        BY <1>11, <3>1, <3>2, <4>1, <4>2
    <3>3. CASE b # bx
      <4>1. r.headerFields[b] = e.headerFields[b]
        BY <1>1, <1>4, <1>14, <3>3
      <4>2. /\ Range(e.headerFields[b]) = {z \in Range(c) : Bucket[z.field.name] = b}
            /\ Increasing(e.headerFields[b])
        BY <2>2 DEF Linked, Increasing, c
      <4> QED
        BY <3>1, <3>3, <4>1, <4>2
    <3> QED
      BY <3>2, <3>3
  <2>3. r.size = TotalSize(TableOf(r))
    BY <1>14, <1>15
  <2> QED
    BY <2>1, <2>2, <2>3, Zenon DEF Linked, Increasing
<1> QED
  BY <1>14, <1>15, <1>16

\* The rounds of EnsureCapacity: a function that gives for each number the
\* object after so many rounds.
Rounds(e, headerSize, n) ==
  CHOOSE g : g = [k \in 0 .. n |-> IF k = 0 THEN e ELSE MakeRoom(g[k - 1], headerSize)]

LEMMA EnsuresInRounds ==
  ASSUME NEW e, NEW headerSize
  PROVE  EnsureCapacity(e, headerSize) = Rounds(e, headerSize, Len(e.chain))[Len(e.chain)]
BY DEF EnsureCapacity, Rounds

LEMMA RoundsExist ==
  ASSUME NEW e, NEW headerSize, NEW n \in Nat
  PROVE  /\ Rounds(e, headerSize, n)[0] = e
         /\ \A k \in 1 .. n : Rounds(e, headerSize, n)[k]
                                = MakeRoom(Rounds(e, headerSize, n)[k - 1], headerSize)
<1> DEFINE Step(g, m) == [k \in 0 .. m |-> IF k = 0 THEN e ELSE MakeRoom(g[k - 1], headerSize)]
           Solved(m) == \E g : g = Step(g, m)
           Unsolved == {m \in Nat : ~Solved(m)}
<1>1. Unsolved = {}
  <2> SUFFICES ASSUME Unsolved # {} PROVE FALSE
    OBVIOUS
  <2>1. PICK m \in Unsolved : \A k \in Unsolved : m <= k
    <3> HIDE DEF Solved
    <3>1. Unsolved \subseteq Nat
      OBVIOUS
    <3> QED
      BY <3>1, Lists!LeastNat
  <2>2. CASE m = 0
    <3> DEFINE g == [k \in 0 .. 0 |-> e]
    <3>1. g = Step(g, 0)
      OBVIOUS
    <3> QED
      BY <2>1, <2>2, <3>1
  <2>3. CASE m # 0
    <3> DEFINE p == m - 1
    <3>1. m \in Nat /\ p \in Nat /\ p < m
      BY <2>1, <2>3
    <3>2. Solved(p)
      BY <2>1, <3>1
    <3>3. PICK g : g = Step(g, p)
      BY <3>2
    <3> DEFINE h == Step(g, m)
    <3>4. \A k \in 0 .. p : h[k] = g[k]
      <4>1. \A k \in 0 .. p : k \in 0 .. m
        BY <3>1
      <4>2. \A k \in 0 .. m : h[k] = IF k = 0 THEN e ELSE MakeRoom(g[k - 1], headerSize)
        OBVIOUS
      <4>3. \A k \in 0 .. p : g[k] = IF k = 0 THEN e ELSE MakeRoom(g[k - 1], headerSize)
        BY <3>3
      <4> HIDE DEF h, Step
      <4> QED
        BY <4>1, <4>2, <4>3
    <3>5. \A k \in 0 .. m : k # 0 => h[k - 1] = g[k - 1]
      <4>1. \A k \in 0 .. m : k # 0 => k - 1 \in 0 .. p
        BY <3>1
      <4> HIDE DEF h
      <4> QED
        BY <3>4, <4>1
    <3>6. h = Step(h, m)
      <4>1. \A k \in 0 .. m : (IF k = 0 THEN e ELSE MakeRoom(g[k - 1], headerSize))
                                = IF k = 0 THEN e ELSE MakeRoom(h[k - 1], headerSize)
        <5> HIDE DEF h
        <5> QED
          BY <3>5
      <4>2. Step(g, m) = Step(h, m)
        <5> HIDE DEF h
        <5> QED
          BY <4>1
      <4> QED
        BY <4>2
    <3>7. Solved(m)
      <4> HIDE DEF h, Step
      <4> QED
        BY <3>6
    <3> QED
      BY <2>1, <3>7
  <2> QED
    BY <2>2, <2>3
<1>2. \E g : g = Step(g, n)
  BY <1>1
<1> DEFINE r == Rounds(e, headerSize, n)
<1>3. r = [k \in 0 .. n |-> IF k = 0 THEN e ELSE MakeRoom(r[k - 1], headerSize)]
  BY <1>2, Zenon DEF Rounds
<1> HIDE DEF r
<1>4. r[0] = e /\ \A k \in 1 .. n : r[k] = MakeRoom(r[k - 1], headerSize)
  <2>1. 0 \in 0 .. n /\ \A k \in 1 .. n : k \in 0 .. n /\ k # 0
    OBVIOUS
  <2> QED
    BY <1>3, <2>1
<1> QED
  BY <1>4 DEF r

\* What holds at first and through each of n rounds holds after all of them.
LEMMA EachRound ==
  ASSUME NEW n \in Nat, NEW P, 0 \in P, \A k \in 1 .. n : k - 1 \in P => k \in P
  PROVE  \A k \in 0 .. n : k \in P
<1> DEFINE Missed == {k \in 0 .. n : k \notin P}
<1> SUFFICES ASSUME Missed # {} PROVE FALSE
  OBVIOUS
<1>1. PICK k \in Missed : \A i \in Missed : k <= i
  <2>1. Missed \subseteq Nat
    OBVIOUS
  <2> HIDE DEF Missed
  <2> QED
    BY <2>1, Lists!LeastNat
<1>2. k \in 1 .. n /\ k \notin P
  BY <1>1
<1>3. k - 1 \in P
  BY <1>1, <1>2
<1> QED
  BY <1>2, <1>3

\* After k rounds there is room, or k entries have gone.
RoundInv(e, headerSize, r, k) ==
  /\ r \in EncoderObjects /\ Linked(r)
  /\ r.capacity = e.capacity
  /\ Range(r.chain) \subseteq Range(e.chain)
  /\ Fit(TableOf(r), e.capacity - headerSize) = Fit(TableOf(e), e.capacity - headerSize)
  /\ \/ Len(r.chain) <= Len(e.chain) - k
     \/ TotalSize(TableOf(r)) <= e.capacity - headerSize

LEMMA MakesRoom ==
  ASSUME NEW e \in EncoderObjects, NEW headerSize \in Nat, headerSize <= e.capacity,
         NEW k \in Nat \ {0}, NEW r, RoundInv(e, headerSize, r, k - 1)
  PROVE  RoundInv(e, headerSize, MakeRoom(r, headerSize), k)
<1> DEFINE bound == e.capacity - headerSize
           T == TableOf(r)
           q == RemoveEldest(r)
<1>1. /\ r \in EncoderObjects /\ Linked(r) /\ r.capacity = e.capacity
      /\ Range(r.chain) \subseteq Range(e.chain)
      /\ Fit(T, bound) = Fit(TableOf(e), bound)
      /\ Len(r.chain) <= Len(e.chain) - (k - 1) \/ TotalSize(T) <= bound
  BY DEF RoundInv
<1>2. bound \in Nat /\ e.capacity \in Nat /\ e.size \in Nat /\ r.chain \in Seq(Entries)
  BY <1>1 DEF EncoderObjects
<1>3. /\ T \in Seq(Fields) /\ Len(T) = Len(r.chain)
      /\ Len(r.chain) \in Nat /\ Len(e.chain) \in Nat
  BY <1>1, TableFacts
<1>4. TotalSize(T) \in Nat /\ r.size = TotalSize(T) /\ (T = <<>> => TotalSize(T) = 0)
  <2> HIDE DEF T
  <2>1. TotalSize(T) \in Nat /\ (T = <<>> => TotalSize(T) = 0)
    BY <1>3, SizeIsNat
  <2>2. r.size = TotalSize(T)
    BY <1>1 DEF Linked, T
  <2> QED
    BY <2>1, <2>2
<1>5. r.size + headerSize > r.capacity <=> ~(TotalSize(T) <= bound)
  BY <1>1, <1>2, <1>4
<1>6. Length(r) = 0 <=> r.chain = <<>>
  BY <1>1, LengthIsThatOfChain
<1>7. CASE r.size + headerSize > r.capacity /\ Length(r) # 0
  <2>1. MakeRoom(r, headerSize) = q
    BY <1>7, Zenon DEF MakeRoom
  <2>2. r.chain # <<>>
    BY <1>6, <1>7
  <2>3. /\ q \in EncoderObjects /\ Linked(q) /\ q.chain = Tail(r.chain)
        /\ q.capacity = r.capacity /\ TableOf(q) = Lists!First(T, Len(r.chain) - 1)
    BY <1>1, <2>2, RemovesEldest
  <2>4. Fit(T, bound) = Fit(TableOf(q), bound)
    <3>1. ~(TotalSize(T) <= bound)
      BY <1>5, <1>7
    <3> HIDE DEF T, bound, q
    <3>2. Fit(T, bound) = Fit(Lists!First(T, Len(T) - 1), bound)
      BY <1>2, <1>3, <3>1, FitWithoutLast
    <3> QED
      BY <1>3, <2>3, <3>2, Zenon
  <2>5. Len(q.chain) = Len(r.chain) - 1 /\ Range(q.chain) \subseteq Range(r.chain)
    <3>1. /\ Len(Tail(r.chain)) = Len(r.chain) - 1
          /\ Tail(r.chain) \in Seq(Entries)
          /\ \A i \in 1 .. Len(Tail(r.chain)) : Tail(r.chain)[i] = r.chain[i + 1]
      BY <1>2, <2>2, HeadTailProperties
    <3>2. ASSUME NEW z \in Range(Tail(r.chain))
          PROVE  z \in Range(r.chain)
      <4>0. DOMAIN Tail(r.chain) = 1 .. Len(Tail(r.chain))
        BY <3>1, LenProperties
      <4>1. PICK i \in 1 .. Len(r.chain) - 1 : z = r.chain[i + 1]
        <5>1. PICK i \in DOMAIN Tail(r.chain) : z = Tail(r.chain)[i]
          BY <3>2, Zenon DEF Range
        <5> QED
          BY <3>1, <4>0, <5>1
      <4>2. i + 1 \in DOMAIN r.chain
        BY <1>2, <1>3
      <4> QED
        BY <4>1, <4>2, Zenon DEF Range
    <3> QED
      BY <2>3, <3>1, <3>2
  <2>6. Len(q.chain) <= Len(e.chain) - k
    <3>1. ~(TotalSize(T) <= bound)
      BY <1>5, <1>7
    <3>2. Len(r.chain) <= Len(e.chain) - (k - 1)
      BY <1>1, <3>1
    <3> HIDE DEF q
    <3> QED
      BY <1>3, <2>5, <3>2
  <2> HIDE DEF T, q
  <2>7. RoundInv(e, headerSize, q, k)
    BY <1>1, <2>3, <2>4, <2>5, <2>6 DEF RoundInv
  <2> QED
    BY <2>1, <2>7
<1>8. CASE ~(r.size + headerSize > r.capacity /\ Length(r) # 0)
  <2>1. MakeRoom(r, headerSize) = r
    BY <1>8, Zenon DEF MakeRoom
  <2>2. TotalSize(T) <= bound
    <3>1. CASE r.chain = <<>>
      <4>1. Len(r.chain) = 0
        BY <3>1, EmptySeq
      <4>2. T = <<>>
        BY <1>3, <4>1, EmptySeq
      <4> HIDE DEF T, bound
      <4> QED
        BY <1>2, <1>4, <4>2
    <3>2. CASE r.chain # <<>>
      BY <1>5, <1>6, <1>8, <3>2
    <3> QED
      BY <3>1, <3>2
  <2>3. RoundInv(e, headerSize, r, k)
    BY <1>1, <2>2 DEF RoundInv
  <2> QED
    BY <2>1, <2>3
<1> QED
  BY <1>7, <1>8

\* EnsureCapacity evicts from the end what is too much, and no more.
LEMMA EnsuresCapacity ==
  ASSUME NEW e \in EncoderObjects, Linked(e), NEW headerSize \in Nat, headerSize <= e.capacity
  PROVE  /\ EnsureCapacity(e, headerSize) \in EncoderObjects
         /\ Linked(EnsureCapacity(e, headerSize))
         /\ EnsureCapacity(e, headerSize).capacity = e.capacity
         /\ Range(EnsureCapacity(e, headerSize).chain) \subseteq Range(e.chain)
         /\ TableOf(EnsureCapacity(e, headerSize)) = Fit(TableOf(e), e.capacity - headerSize)
         /\ EnsureCapacity(e, headerSize).size <= e.capacity - headerSize
<1> DEFINE n == Len(e.chain)
           g == Rounds(e, headerSize, n)
           P == {k \in 0 .. n : RoundInv(e, headerSize, g[k], k)}
           bound == e.capacity - headerSize
           r == g[n]
<1>1. n \in Nat /\ bound \in Nat
  BY TableFacts DEF EncoderObjects
<1>2. g[0] = e /\ \A k \in 1 .. n : g[k] = MakeRoom(g[k - 1], headerSize)
  <2> HIDE DEF n
  <2> QED
    BY <1>1, RoundsExist
<1>3. EnsureCapacity(e, headerSize) = r
  BY EnsuresInRounds, Zenon
<1> HIDE DEF g, n, bound
<1>4. 0 \in P
  <2>1. RoundInv(e, headerSize, e, 0)
    <3>1. Len(e.chain) <= Len(e.chain) - 0
      BY <1>1 DEF n
    <3> QED
      BY <3>1 DEF RoundInv
  <2> QED
    BY <1>1, <1>2, <2>1
<1>5. ASSUME NEW k \in 1 .. n, k - 1 \in P
      PROVE  k \in P
  <2>1. RoundInv(e, headerSize, g[k - 1], k - 1) /\ k \in Nat \ {0} /\ k \in 0 .. n
    BY <1>1, <1>5
  <2>2. RoundInv(e, headerSize, MakeRoom(g[k - 1], headerSize), k)
    BY <2>1, MakesRoom
  <2> QED
    BY <1>2, <2>1, <2>2
<1>6. RoundInv(e, headerSize, r, n)
  <2>1. n \in P
    <3> HIDE DEF P
    <3>1. \A k \in 0 .. n : k \in P
      BY ONLY <1>1, <1>4, <1>5, EachRound
    <3> QED
      BY <1>1, <3>1
  <2> QED
    BY <2>1
<1> HIDE DEF r, P
<1>7. /\ r \in EncoderObjects /\ Linked(r) /\ r.capacity = e.capacity
      /\ Range(r.chain) \subseteq Range(e.chain)
      /\ Fit(TableOf(r), bound) = Fit(TableOf(e), bound)
      /\ Len(r.chain) <= n - n \/ TotalSize(TableOf(r)) <= bound
  BY <1>6 DEF RoundInv, bound, n
<1>8. /\ TableOf(r) \in Seq(Fields) /\ Len(TableOf(r)) = Len(r.chain) /\ Len(r.chain) \in Nat
      /\ r.size = TotalSize(TableOf(r))
  BY <1>7, TableFacts DEF Linked
<1>9. TotalSize(TableOf(r)) <= bound
  <2>1. CASE Len(r.chain) <= n - n
    <3>1. TableOf(r) = <<>>
      BY <1>1, <1>8, <2>1, EmptySeq
    <3>2. TotalSize(TableOf(r)) = 0
      BY <1>8, <3>1, SizeIsNat
    <3> QED
      BY <1>1, <3>2
  <2> QED
    BY <1>7, <2>1
<1>10. TableOf(r) = Fit(TableOf(e), bound)
  BY <1>1, <1>7, <1>8, <1>9, FitWhole
<1> QED
  BY <1>3, <1>7, <1>8, <1>9, <1>10 DEF bound

\* A new entry is linked at the end of the list and at the head of its bucket.
LEMMA AddsEntry ==
  ASSUME NEW e \in EncoderObjects, Linked(e), NEW f \in Fields
  PROVE  /\ Add(e, f) \in EncoderObjects
         /\ Linked(Add(e, f))
         /\ Add(e, f).capacity = e.capacity
         /\ Add(e, f).size = e.size + SizeOf(f)
         /\ TableOf(Add(e, f)) = <<f>> \o TableOf(e)
         /\ \A x \in Range(Add(e, f).chain) : x \in Range(e.chain) \/ x.index = NewestIndex(e) - 1
         /\ NewestIndex(e) \in Int
<1> DEFINE c == e.chain
           n == Len(c)
           x == [field |-> f, index |-> NewestIndex(e) - 1]
           bx == Bucket[f.name]
           d == Append(c, x)
           s == <<x>> \o e.headerFields[bx]
           r == Add(e, f)
           T == TableOf(e)
<1>1. /\ c \in Seq(Entries) /\ e.size \in Nat /\ e.capacity \in Nat
      /\ e.headerFields \in [Buckets -> Seq(Entries)]
  BY DEF EncoderObjects
<1>2. n \in Nat /\ DOMAIN c = 1 .. n /\ (c = <<>> <=> n = 0)
  BY <1>1, LenProperties, EmptySeq
<1>3. /\ NewestIndex(e) \in Int
      /\ \A i \in 1 .. n : c[i] \in Entries /\ c[i].index >= NewestIndex(e)
      /\ c # <<>> => /\ OldestIndex(e) = c[1].index /\ OldestIndex(e) \in Int
                     /\ NewestIndex(e) = OldestIndex(e) - n + 1
                     /\ \A i \in 1 .. n : c[i].index = OldestIndex(e) - i + 1
  <2>1. CASE c = <<>>
    <3>1. NewestIndex(e) = MaxIndex /\ MaxIndex \in Int
      BY <2>1, HPackEncoderAssumption DEF NewestIndex
    <3> HIDE DEF c, n
    <3>2. \A i \in 1 .. n : FALSE
      BY <1>2, <2>1
    <3> QED
      BY <2>1, <3>1, <3>2
  <2>2. CASE c # <<>>
    <3>1. /\ OldestIndex(e) = c[1].index /\ OldestIndex(e) \in Int
          /\ NewestIndex(e) = OldestIndex(e) - n + 1
          /\ \A i \in 1 .. n : c[i] \in Entries /\ c[i].index = OldestIndex(e) - i + 1
      BY <2>2, ChainFacts
    <3> HIDE DEF c, n
    <3>2. ASSUME NEW i \in 1 .. n
          PROVE  c[i] \in Entries /\ c[i].index >= NewestIndex(e)
      <4>1. c[i] \in Entries /\ c[i].index = OldestIndex(e) - i + 1
        BY <3>1
      <4>2. c[i].index >= NewestIndex(e)
        BY ONLY <1>2, <3>1, <4>1, i \in 1 .. n
      <4> QED
        BY <4>1, <4>2
    <3>3. NewestIndex(e) \in Int
      BY ONLY <1>2, <3>1
    <3>4. \A i \in 1 .. n : c[i].index = OldestIndex(e) - i + 1
      BY <3>1
    <3> QED
      BY <3>1, <3>2, <3>3, <3>4, Zenon
  <2> QED
    BY <2>1, <2>2
<1>4. x \in Entries /\ bx \in Buckets /\ x.field = f /\ x.index = NewestIndex(e) - 1
  <2>1. f.name \in Names
    BY DEF Names
  <2> QED
    BY <1>3, <2>1 DEF Entries, Buckets
<1>5. /\ d \in Seq(Entries) /\ Len(d) = n + 1 /\ DOMAIN d = 1 .. n + 1 /\ d # <<>>
      /\ \A i \in 1 .. n : d[i] = c[i]
      /\ d[n + 1] = x
  <2> HIDE DEF x
  <2>1. d \in Seq(Entries) /\ Len(d) = n + 1 /\ d # <<>>
        /\ (\A i \in 1 .. n : d[i] = c[i]) /\ d[n + 1] = x
    BY <1>1, <1>4, AppendProperties
  <2>2. DOMAIN d = 1 .. Len(d)
    BY <2>1, LenProperties
  <2> QED
    BY <2>1, <2>2
<1>6. Range(d) = Range(c) \union {x}
  <2> HIDE DEF d, x, c, n
  <2>1. ASSUME NEW z \in Range(d)
        PROVE  z \in Range(c) \/ z = x
    <3>1. PICK i \in 1 .. n + 1 : z = d[i]
      BY <1>5, <2>1, Zenon DEF Range
    <3>2. CASE i = n + 1
      BY <1>5, <3>1, <3>2
    <3>3. CASE i # n + 1
      <4>1. i \in 1 .. n
        BY <1>2, <3>3
      <4> QED
        BY <1>2, <1>5, <3>1, <4>1, Zenon DEF Range
    <3> QED
      BY <3>2, <3>3
  <2>2. x \in Range(d)
    <3>1. n + 1 \in 1 .. n + 1
      BY <1>2
    <3> QED
      BY <1>5, <3>1, Zenon DEF Range
  <2>3. ASSUME NEW z \in Range(c)
        PROVE  z \in Range(d)
    <3>1. PICK i \in 1 .. n : z = c[i]
      BY <1>2, <2>3, Zenon DEF Range
    <3>2. i \in 1 .. n + 1
      BY <1>2
    <3> QED
      BY <1>5, <3>1, <3>2, Zenon DEF Range
  <2> QED
    BY <2>1, <2>2, <2>3
<1>7. /\ e.headerFields[bx] \in Seq(Entries)
      /\ Increasing(e.headerFields[bx])
      /\ Range(e.headerFields[bx]) = {z \in Range(c) : Bucket[z.field.name] = bx}
  BY <1>1, <1>4 DEF Linked, Increasing
<1>8. /\ s \in Seq(Entries) /\ Increasing(s)
      /\ Range(s) = {z \in Range(d) : Bucket[z.field.name] = bx}
  <2> DEFINE q == e.headerFields[bx]
             m == Len(q)
  <2>1. q \in Seq(Entries) /\ m \in Nat /\ DOMAIN q = 1 .. m
    BY <1>7, LenProperties
  <2>2. \A i \in 1 .. m : q[i].index >= NewestIndex(e) /\ q[i].index \in Int
    <3>1. ASSUME NEW i \in 1 .. m
          PROVE  q[i].index >= NewestIndex(e) /\ q[i].index \in Int
      <4>1. q[i] \in Range(q)
        BY <2>1, Zenon DEF Range
      <4>2. q[i] \in Range(c)
        BY <1>7, <4>1
      <4>3. PICK j \in 1 .. n : q[i] = c[j]
        BY <1>2, <4>2, Zenon DEF Range
      <4>4. c[j] \in Entries /\ c[j].index >= NewestIndex(e)
        BY <1>3
      <4> QED
        BY <4>3, <4>4 DEF Entries
    <3> QED
      BY <3>1
  <2>3. s = <<x>> \o q
    OBVIOUS
  <2> HIDE DEF q, m, s, x, d, c
  <2>4. s \in Seq(Entries) /\ Len(s) = m + 1 /\ DOMAIN s = 1 .. m + 1
        /\ s[1] = x /\ \A i \in 2 .. m + 1 : s[i] = q[i - 1]
    <3>1. s \in Seq(Entries) /\ Len(s) = m + 1
          /\ s[1] = x /\ \A i \in 2 .. m + 1 : s[i] = q[i - 1]
      BY <1>4, <2>1, <2>3 DEF m
    <3>2. DOMAIN s = 1 .. Len(s)
      BY <3>1, LenProperties
    <3> QED
      BY <3>1, <3>2
  <2>5. Increasing(s)
    <3> SUFFICES ASSUME NEW i \in 1 .. m + 1, NEW j \in 1 .. m + 1, i < j
                 PROVE  s[i].index < s[j].index
      BY <2>4 DEF Increasing
    <3>1. j - 1 \in 1 .. m /\ s[j] = q[j - 1]
      BY <2>1, <2>4
    <3>2. CASE i = 1
      <4>1. q[j - 1].index >= NewestIndex(e) /\ q[j - 1].index \in Int
        BY <2>2, <3>1
      <4> QED
        BY <1>3, <1>4, <2>4, <3>1, <3>2, <4>1
    <3>3. CASE i # 1
      <4>1. i - 1 \in 1 .. m /\ s[i] = q[i - 1] /\ i - 1 < j - 1
        BY <2>1, <2>4, <3>3
      <4>2. \A u, v \in 1 .. m : u < v => q[u].index < q[v].index
        BY <1>7, <2>1 DEF Increasing, q
      <4>3. q[i - 1].index < q[j - 1].index
        BY ONLY <3>1, <4>1, <4>2
      <4> QED
        BY <3>1, <4>1, <4>3
    <3> QED
      BY <3>2, <3>3
  <2>6. Range(s) = {x} \union Range(q)
    <3>1. ASSUME NEW z \in Range(s)
          PROVE  z = x \/ z \in Range(q)
      <4>1. PICK i \in 1 .. m + 1 : z = s[i]
        BY <2>4, <3>1, Zenon DEF Range
      <4>2. CASE i = 1
        BY <2>4, <4>1, <4>2
      <4>3. CASE i # 1
        <5>1. i \in 2 .. m + 1 /\ i - 1 \in 1 .. m
          BY <2>1, <4>3
        <5>2. z = q[i - 1]
          BY <2>4, <4>1, <5>1
        <5> QED
          BY <2>1, <5>1, <5>2, Zenon DEF Range
      <4> QED
        BY <4>2, <4>3
    <3>2. x \in Range(s)
      <4>1. 1 \in 1 .. m + 1
        BY <2>1
      <4> QED
        BY <2>4, <4>1, Zenon DEF Range
    <3>3. ASSUME NEW z \in Range(q)
          PROVE  z \in Range(s)
      <4>1. PICK i \in 1 .. m : z = q[i]
        BY <2>1, <3>3, Zenon DEF Range
      <4> DEFINE k == i + 1
      <4>2. k \in 2 .. m + 1 /\ k \in 1 .. m + 1 /\ k - 1 = i
        BY <2>1
      <4> HIDE DEF k
      <4>3. z = s[k]
        BY <2>4, <4>1, <4>2
      <4> QED
        BY <2>4, <4>2, <4>3, Zenon DEF Range
    <3> QED
      BY <3>1, <3>2, <3>3
  <2>7. Bucket[x.field.name] = bx
    BY <1>4
  <2>8. Range(q) = {z \in Range(c) : Bucket[z.field.name] = bx}
    BY <1>7 DEF q
  <2> HIDE DEF bx
  <2>9. Range(s) = {z \in Range(d) : Bucket[z.field.name] = bx}
    BY <1>6, <2>6, <2>7, <2>8
  <2> QED
    BY <2>4, <2>5, <2>9
<1>9. /\ r = [e EXCEPT !.chain = d, !.size = @ + SizeOf(f), !.headerFields[bx] = s]
      /\ SizeOf(f) \in Nat
  BY FieldSizes DEF Add
<1> HIDE DEF d, s, bx, x
<1>10. /\ r.chain = d /\ r.capacity = e.capacity /\ r.size = e.size + SizeOf(f)
       /\ r.headerFields = [e.headerFields EXCEPT ![bx] = s]
       /\ r \in EncoderObjects
  <2>1. /\ r.chain = d /\ r.capacity = e.capacity /\ r.size = e.size + SizeOf(f)
        /\ r.headerFields = [e.headerFields EXCEPT ![bx] = s]
    BY <1>9 DEF EncoderObjects
  <2>2. [e.headerFields EXCEPT ![bx] = s] \in [Buckets -> Seq(Entries)]
    BY <1>1, <1>4, <1>8
  <2>3. e.size + SizeOf(f) \in Nat
    BY <1>1, <1>9
  <2>4. r \in EncoderObjects
    BY <1>1, <1>5, <1>9, <2>1, <2>2, <2>3 DEF EncoderObjects
  <2> QED
    BY <2>1, <2>4
<1> HIDE DEF r
<1>11. TableOf(r) = <<f>> \o T
  <2>1. /\ TableOf(r) \in Seq(Fields) /\ Len(TableOf(r)) = n + 1
        /\ \A i \in 1 .. n + 1 : TableOf(r)[i] = d[n + 1 - i + 1].field
    <3>1. /\ TableOf(r) \in Seq(Fields) /\ Len(TableOf(r)) = Len(r.chain)
          /\ \A i \in 1 .. Len(r.chain) : TableOf(r)[i] = r.chain[Len(r.chain) - i + 1].field
      BY <1>10, TableFacts
    <3>2. r.chain = d /\ Len(r.chain) = n + 1
      BY <1>5, <1>10
    <3> HIDE DEF n
    <3>3. ASSUME NEW i \in 1 .. n + 1
          PROVE  TableOf(r)[i] = d[n + 1 - i + 1].field
      <4>1. i \in 1 .. Len(r.chain)
        BY <3>2
      <4>2. TableOf(r)[i] = r.chain[Len(r.chain) - i + 1].field
        BY <3>1, <4>1
      <4> DEFINE k == n + 1 - i + 1
      <4>3. Len(r.chain) - i + 1 = k
        BY ONLY <1>2, <3>2, i \in 1 .. n + 1
      <4> HIDE DEF k
      <4>4. TableOf(r)[i] = d[k].field
        BY <3>2, <4>2, <4>3, Zenon
      <4> QED
        BY <4>4 DEF k
    <3> QED
      BY <3>1, <3>2, <3>3
  <2>2. /\ T \in Seq(Fields) /\ Len(T) = n
        /\ \A i \in 1 .. n : T[i] = c[n - i + 1].field
    BY TableFacts
  <2> HIDE DEF T, n, c
  <2>3. /\ <<f>> \o T \in Seq(Fields) /\ Len(<<f>> \o T) = n + 1
        /\ \A i \in 1 .. n + 1 : (<<f>> \o T)[i] = IF i = 1 THEN f ELSE T[i - 1]
    BY <1>2, <2>2
  <2>4. ASSUME NEW i \in 1 .. n + 1
        PROVE  TableOf(r)[i] = (<<f>> \o T)[i]
    <3>1. CASE i = 1
      <4>1. n + 1 - i + 1 = n + 1
        BY <1>2, <3>1
      <4> QED
        BY <1>4, <1>5, <2>1, <2>3, <3>1, <4>1
    <3>2. CASE i # 1
      <4> DEFINE k == i - 1
                 j == n - k + 1
      <4>1. k \in 1 .. n /\ j \in 1 .. n /\ n + 1 - i + 1 = j
        BY <1>2, <3>2
      <4>2. (<<f>> \o T)[i] = T[k]
        BY <2>3, <3>2
      <4>3. T[k] = c[j].field
        BY <2>2, <4>1
      <4> HIDE DEF j, k
      <4>4. TableOf(r)[i] = d[j].field
        BY <2>1, <4>1
      <4>5. d[j] = c[j]
        BY <1>5, <4>1
      <4> QED
        BY <4>2, <4>3, <4>4, <4>5, Zenon
    <3> QED
      BY <3>1, <3>2
  <2> DEFINE t == <<f>> \o T
  <2> HIDE DEF t
  <2>5. t \in Seq(Fields) /\ Len(t) = n + 1 /\ \A i \in 1 .. n + 1 : TableOf(r)[i] = t[i]
    BY <2>3, <2>4 DEF t
  <2>6. TableOf(r) = t
    BY <2>1, <2>5, SeqEqual
  <2> QED
    BY <2>6 DEF t
<1>12. Linked(r)
  <2>1. ASSUME NEW i \in DOMAIN r.chain
        PROVE  r.chain[i].index = OldestIndex(r) - i + 1
    <3>1. i \in 1 .. n + 1 /\ r.chain[i] = d[i] /\ OldestIndex(r) = d[1].index
      <4>1. Head(d) = d[1]
        BY <1>5
      <4>2. OldestIndex(r) = d[1].index
        BY <1>5, <1>10, <4>1 DEF OldestIndex
      <4> QED
        BY <1>5, <1>10, <2>1, <4>2
    <3> HIDE DEF n, c
    <3>2. CASE c = <<>>
      <4>1. i = 1 /\ d[1].index \in Int
        BY <1>2, <1>3, <1>4, <1>5, <3>1, <3>2
      <4> QED
        BY <3>1, <4>1
    <3>3. CASE c # <<>>
      <4>1. d[1] = c[1] /\ d[1].index = OldestIndex(e) /\ OldestIndex(e) \in Int
        <5>1. 1 \in 1 .. n
          BY <1>2, <3>3
        <5> QED
          BY <1>3, <1>5, <3>3, <5>1
      <4>2. CASE i = n + 1
        <5>1. d[i] = x
          BY <1>5, <4>2, Zenon
        <5>2. d[i].index = NewestIndex(e) - 1
          BY <1>4, <5>1, Zenon
        <5>3. NewestIndex(e) = OldestIndex(e) - n + 1
          BY <1>3, <3>3
        <5>4. r.chain[i].index = OldestIndex(e) - n
          BY ONLY <1>2, <3>1, <4>1, <5>2, <5>3
        <5>5. OldestIndex(r) = OldestIndex(e)
          BY ONLY <3>1, <4>1
        <5> QED
          BY ONLY <1>2, <4>1, <4>2, <5>4, <5>5
      <4>3. CASE i # n + 1
        <5>1. i \in 1 .. n
          BY <1>2, <3>1, <4>3
        <5>2. d[i].index = OldestIndex(e) - i + 1
          BY <1>3, <1>5, <3>3, <5>1
        <5> QED
          BY <3>1, <4>1, <5>2
      <4> QED
        BY <4>2, <4>3
    <3> QED
      BY <3>2, <3>3
  <2>2. ASSUME NEW b \in Buckets
        PROVE  /\ Range(r.headerFields[b]) = {z \in Range(r.chain) : Bucket[z.field.name] = b}
               /\ Increasing(r.headerFields[b])
    <3>1. CASE b = bx
      <4>1. r.headerFields[b] = s
        BY <1>1, <1>4, <1>10, <3>1
      <4> QED
        BY <1>8, <1>10, <3>1, <4>1
    <3>2. CASE b # bx
      <4>1. r.headerFields[b] = e.headerFields[b]
        BY <1>1, <1>4, <1>10, <3>2
      <4>2. /\ Range(e.headerFields[b]) = {z \in Range(c) : Bucket[z.field.name] = b}
            /\ Increasing(e.headerFields[b])
        BY DEF Linked, Increasing
      <4>3. Bucket[x.field.name] # b
        BY <1>4, <3>2 DEF bx
      <4> HIDE DEF c
      <4> QED
        BY <1>6, <1>10, <4>1, <4>2, <4>3
    <3> QED
      BY <3>1, <3>2
  <2>3. r.size = TotalSize(TableOf(r))
    <3>1. T \in Seq(Fields) /\ e.size = TotalSize(T)
      BY TableFacts DEF Linked
    <3> HIDE DEF T
    <3>2. TotalSize(<<f>> \o T) = SizeOf(f) + TotalSize(T)
      BY <3>1, SizeWithFirst
    <3>3. TotalSize(TableOf(r)) = SizeOf(f) + TotalSize(T)
      BY <1>11, <3>2, Zenon
    <3>4. r.size = e.size + SizeOf(f)
      BY <1>10
    <3> QED
      BY ONLY <1>1, <1>9, <3>1, <3>3, <3>4
  <2> QED
    BY <2>1, <2>2, <2>3, Zenon DEF Linked, Increasing
<1>13. \A z \in Range(r.chain) : z \in Range(c) \/ z.index = NewestIndex(e) - 1
  BY <1>4, <1>6, <1>10
<1> QED
  BY <1>3, <1>10, <1>11, <1>12, <1>13 DEF r

-----------------------------------------------------------------------------
(* What the lookups find.                                                  *)

\* The first place in a sequence that passes a test is a place that passes it.
\* (The test is given as the set of the places that pass.)
LEMMA FirstPlace ==
  ASSUME NEW n \in Nat, NEW I, I \subseteq 1 .. n,
         NEW k, k = IF I # {} THEN Min(I) ELSE 0
  PROVE  k = 0 \/ k \in I
<1>1. ASSUME I # {} PROVE k \in I
  <2>1. I \subseteq Nat
    OBVIOUS
  <2> QED
    BY <1>1, <2>1, MinOfSome
<1> QED
  BY <1>1

\* An index into the static table with the name, or with the field.
LEMMA FoundStatic ==
  /\ StaticTable \in Seq(Fields) /\ Len(StaticTable) \in Nat
  /\ \A name : \/ StaticNameIndex(name) = -1
               \/ /\ StaticNameIndex(name) \in 1 .. Len(StaticTable)
                  /\ StaticTable[StaticNameIndex(name)].name = name
  /\ \A f : \/ StaticIndex(f) = -1
            \/ /\ StaticIndex(f) \in 1 .. Len(StaticTable)
               /\ StaticTable[StaticIndex(f)] = f
<1> DEFINE n == Len(StaticTable)
<1>1. StaticTable \in Seq(Fields) /\ n \in Nat /\ DOMAIN StaticTable = 1 .. n
  BY HeaderFieldsAssumption, LenProperties
<1> HIDE DEF n
<1>2. ASSUME NEW name, StaticNameIndex(name) # -1
      PROVE  /\ StaticNameIndex(name) \in 1 .. n
             /\ StaticTable[StaticNameIndex(name)].name = name
  <2> DEFINE I == {i \in DOMAIN StaticTable : StaticTable[i].name = name}
  <2>1. I # {} /\ StaticNameIndex(name) = Min(I)
    BY <1>2, Zenon DEF StaticNameIndex
  <2>2. I \subseteq Nat
    BY <1>1
  <2>3. Min(I) \in I
    BY <2>1, <2>2, MinOfSome
  <2> QED
    BY <1>1, <2>1, <2>3
<1>3. ASSUME NEW f, StaticIndex(f) # -1
      PROVE  StaticIndex(f) \in 1 .. n /\ StaticTable[StaticIndex(f)] = f
  <2> DEFINE I == {i \in DOMAIN StaticTable : StaticTable[i] = f}
  <2>1. f \in Range(StaticTable) /\ StaticIndex(f) = Min(I)
    BY <1>3, Zenon DEF StaticIndex
  <2>2. I \subseteq Nat
    BY <1>1
  <2>3. I # {}
    BY <2>1, Zenon DEF Range
  <2>4. Min(I) \in I
    BY <2>2, <2>3, MinOfSome
  <2> QED
    BY <1>1, <2>1, <2>4
<1> QED
  BY <1>1, <1>2, <1>3, Zenon DEF n

\* The place that GetIndex computes for an entry of the list is that of its field
\* in the table.
LEMMA PlaceOfEntry ==
  ASSUME NEW e \in EncoderObjects, Linked(e), NEW x \in Range(e.chain), x.index >= 0
  PROVE  /\ GetIndex(e, x.index) \in 1 .. Len(TableOf(e))
         /\ TableOf(e)[GetIndex(e, x.index)] = x.field
<1> DEFINE c == e.chain
           n == Len(c)
           T == TableOf(e)
<1>1. n \in Nat /\ DOMAIN c = 1 .. n /\ Len(T) = n
      /\ \A i \in 1 .. n : T[i] = c[n - i + 1].field
  BY TableFacts
<1> HIDE DEF c, T
<1>2. PICK i \in 1 .. n : x = c[i]
  BY <1>1, Zenon DEF Range, c
<1> HIDE DEF n
<1>3. /\ OldestIndex(e) \in Int /\ NewestIndex(e) = OldestIndex(e) - n + 1
      /\ c[i].index = OldestIndex(e) - i + 1
  <2>1. e.chain # <<>>
    BY <1>1, <1>2 DEF n, c
  <2> QED
    BY <1>1, <1>2, <2>1, ChainFacts DEF n, c
<1> DEFINE k == n - i + 1
<1>4. GetIndex(e, x.index) = k
  <2>1. x.index # -1 /\ x.index = OldestIndex(e) - i + 1
    BY <1>1, <1>2, <1>3
  <2>2. GetIndex(e, x.index) = x.index - NewestIndex(e) + 1
    BY <2>1 DEF GetIndex
  <2> QED
    BY ONLY <1>1, <1>3, <2>1, <2>2, i \in 1 .. n
<1>5. k \in 1 .. n /\ n - k + 1 = i
  BY <1>1
<1> HIDE DEF k
<1>6. T[k] = c[i].field
  BY <1>1, <1>5
<1> QED
  BY <1>1, <1>2, <1>4, <1>5, <1>6 DEF T

\* What a bucket holds while the list is not empty.
LEMMA EntriesOfBucket ==
  ASSUME NEW e \in EncoderObjects, Linked(e), NEW name \in Names
  PROVE  /\ InBucket(e, name) \in Seq(Entries)
         /\ Len(InBucket(e, name)) \in Nat
         /\ \A i \in 1 .. Len(InBucket(e, name)) : InBucket(e, name)[i] \in Range(e.chain)
<1> DEFINE q == InBucket(e, name)
           b == Bucket[name]
<1>1. b \in Buckets
  BY DEF Buckets
<1>2. e.headerFields[b] \in Seq(Entries)
  BY <1>1 DEF EncoderObjects
<1>3. Range(e.headerFields[b]) = {x \in Range(e.chain) : Bucket[x.field.name] = b}
  BY <1>1 DEF Linked
<1>4. q = <<>> \/ q = e.headerFields[b]
  BY DEF InBucket
<1> HIDE DEF q, b
<1>5. CASE q = <<>>
  <2>1. q \in Seq(Entries) /\ Len(q) = 0
    BY <1>5
  <2> QED
    BY <2>1 DEF q
<1>6. CASE q = e.headerFields[b]
  <2>1. q \in Seq(Entries) /\ Len(q) \in Nat /\ DOMAIN q = 1 .. Len(q)
    BY <1>2, <1>6, LenProperties
  <2>2. ASSUME NEW i \in 1 .. Len(q) PROVE q[i] \in Range(e.chain)
    <3>1. q[i] \in Range(q)
      BY <2>1, Zenon DEF Range
    <3> QED
      BY <1>3, <1>6, <3>1
  <2> QED
    BY <2>1, <2>2 DEF q
<1> QED
  BY <1>4, <1>5, <1>6

LEMMA FoundEntry ==
  ASSUME NEW e \in EncoderObjects, Linked(e), \A x \in Range(e.chain) : x.index >= 0,
         NEW f \in Fields, GetEntry(e, f) # 0
  PROVE  LET place == GetIndex(e, InBucket(e, f.name)[GetEntry(e, f)].index)
         IN  place \in 1 .. Len(TableOf(e)) /\ TableOf(e)[place] = f
<1> DEFINE q == InBucket(e, f.name)
           I == {i \in 1 .. Len(q) : q[i].field = f}
           k == GetEntry(e, f)
<1>1. f.name \in Names
  BY DEF Names
<1>2. Len(q) \in Nat /\ \A i \in 1 .. Len(q) : q[i] \in Range(e.chain)
  BY <1>1, EntriesOfBucket
<1>3. k = IF I # {} THEN Min(I) ELSE 0
  BY Zenon DEF GetEntry, SelectInSeq
<1>4. I \subseteq 1 .. Len(q)
  OBVIOUS
<1> HIDE DEF q, I, k
<1>5. k = 0 \/ k \in I
  BY <1>2, <1>3, <1>4, FirstPlace
<1>6. k \in 1 .. Len(q) /\ q[k].field = f
  BY <1>5 DEF I, k
<1>7. q[k] \in Range(e.chain) /\ q[k].index >= 0
  BY <1>2, <1>6
<1>8. GetIndex(e, q[k].index) \in 1 .. Len(TableOf(e))
      /\ TableOf(e)[GetIndex(e, q[k].index)] = q[k].field
  BY <1>7, PlaceOfEntry
<1> QED
  BY <1>6, <1>8 DEF q, k

LEMMA FoundName ==
  ASSUME NEW e \in EncoderObjects, Linked(e), \A x \in Range(e.chain) : x.index >= 0,
         NEW name \in Names, GetNameIndex(e, name) # -1
  PROVE  LET i == GetNameIndex(e, name)
             n == Len(StaticTable)
         IN  \/ i \in 1 .. n /\ StaticTable[i].name = name
             \/ i - n \in 1 .. Len(TableOf(e)) /\ i \in Int /\ TableOf(e)[i - n].name = name
<1> DEFINE q == InBucket(e, name)
           I == {i \in 1 .. Len(q) : q[i].field.name = name}
           k == SelectInSeq(q, LAMBDA x : x.field.name = name)
           place == GetIndex(e, IF k = 0 THEN -1 ELSE q[k].index)
           n == Len(StaticTable)
           g == GetNameIndex(e, name)
<1>1. g = IF StaticNameIndex(name) # -1 THEN StaticNameIndex(name)
          ELSE IF place >= 0 THEN place + n ELSE place
  BY Zenon DEF GetNameIndex
<1>2. Len(q) \in Nat /\ \A i \in 1 .. Len(q) : q[i] \in Range(e.chain)
  BY EntriesOfBucket
<1>3. k = IF I # {} THEN Min(I) ELSE 0
  BY Zenon DEF SelectInSeq
<1>4. I \subseteq 1 .. Len(q)
  OBVIOUS
<1> HIDE DEF q, I, k, place, g
<1>5. k = 0 \/ k \in I
  BY <1>2, <1>3, <1>4, FirstPlace
<1>6. CASE StaticNameIndex(name) # -1
  BY <1>1, <1>6, FoundStatic DEF g
<1>7. CASE StaticNameIndex(name) = -1
  <2>1. CASE k = 0
    <3>1. place = -1
      BY <2>1 DEF place, GetIndex
    <3>2. g = -1
      BY <1>1, <1>7, <3>1
    <3> QED
      BY <3>2 DEF g
  <2>2. CASE k # 0
    <3>1. k \in 1 .. Len(q) /\ q[k].field.name = name
      BY <1>5, <2>2 DEF I
    <3>2. q[k] \in Range(e.chain) /\ q[k].index >= 0
      BY <1>2, <3>1
    <3>3. place = GetIndex(e, q[k].index)
      BY <2>2 DEF place
    <3>4. place \in 1 .. Len(TableOf(e)) /\ TableOf(e)[place].name = name
      BY <3>1, <3>2, <3>3, PlaceOfEntry
    <3>5. Len(TableOf(e)) \in Nat /\ n \in Nat
      BY TableFacts, FoundStatic
    <3> HIDE DEF n
    <3>6. g = place + n /\ g - n = place
      BY <1>1, <1>7, <3>4, <3>5
    <3>7. g \in Int /\ g - n \in 1 .. Len(TableOf(e)) /\ TableOf(e)[g - n].name = name
      BY <3>4, <3>5, <3>6
    <3> QED
      BY <3>7 DEF g, n
  <2> QED
    BY <2>1, <2>2
<1> QED
  BY <1>6, <1>7


-----------------------------------------------------------------------------
(* The encoder, from block to block.                                       *)

\* No index has fallen below this yet.
Lowest == MaxIndex - (blocks * MaxFields + Len(packed))

\* What the encoder's side is in between two steps.
EncoderInv ==
  /\ encoder \in EncoderObjects
  /\ Linked(encoder)
  /\ encoder.size <= encoder.capacity
  /\ \A x \in Range(encoder.chain) : x.index >= Lowest
  /\ renews \in {"none", "encoder", "decoder"}
  /\ phase \in {"between", "packed", "unpacked"}
  /\ announced \in Seq(Nat)
  /\ renews # "none" => announced = <<>> /\ encoder.capacity = HeaderTableSize
  /\ packed \in Seq(Fields \X BOOLEAN)
  /\ Len(packed) <= MaxFields
  /\ blocks \in 0 .. MaxBlocks
  /\ phase = "between" => packed = <<>>
  /\ phase # "between" => blocks < MaxBlocks

LEMMA NewEncoderLinked ==
  ASSUME NEW c \in Nat
  PROVE  /\ NewEncoder(c) \in EncoderObjects
         /\ Linked(NewEncoder(c))
         /\ NewEncoder(c).size = 0
         /\ NewEncoder(c).capacity = c
         /\ NewEncoder(c).chain = <<>>
         /\ TableOf(NewEncoder(c)) = <<>>
<1> DEFINE e == NewEncoder(c)
           none == [b \in Buckets |-> <<>>]
<1>1. e = [capacity |-> c, size |-> 0, chain |-> <<>>, headerFields |-> none]
  BY DEF NewEncoder
<1>2. none \in [Buckets -> Seq(Entries)] /\ \A b \in Buckets : none[b] = <<>>
  OBVIOUS
<1> HIDE DEF none, e
<1>3. /\ e \in EncoderObjects /\ e.size = 0 /\ e.capacity = c /\ e.chain = <<>>
      /\ e.headerFields = none
  BY <1>1, <1>2 DEF EncoderObjects
<1>4. TableOf(e) = <<>> /\ TableOf(e) \in Seq(Fields)
  <2>1. TableOf(e) \in Seq(Fields) /\ Len(TableOf(e)) = 0
    BY <1>3, TableFacts
  <2> QED
    BY <2>1, EmptySeq
<1>5. TotalSize(TableOf(e)) = 0
  BY <1>4, SizeIsNat
<1>6. Range(<<>>) = {}
  BY DEF Range
<1>7. DOMAIN <<>> = {}
  OBVIOUS
<1>8. Linked(e)
  <2>1. \A i \in DOMAIN e.chain : e.chain[i].index = OldestIndex(e) - i + 1
    BY <1>3, <1>7
  <2>2. ASSUME NEW b \in Buckets
        PROVE  /\ Range(e.headerFields[b]) = {x \in Range(e.chain) : Bucket[x.field.name] = b}
               /\ \A i, j \in DOMAIN e.headerFields[b] :
                    i < j => e.headerFields[b][i].index < e.headerFields[b][j].index
    <3>1. e.headerFields[b] = <<>>
      BY <1>2, <1>3
    <3> QED
      BY <1>3, <1>6, <1>7, <3>1
  <2> QED
    BY <1>3, <1>5, <2>1, <2>2, Zenon DEF Linked
<1> QED
  BY <1>3, <1>4, <1>8 DEF e

\* Another capacity is only a number until EnsureCapacity is called.
LEMMA CapacityOnly ==
  ASSUME NEW e \in EncoderObjects, Linked(e), NEW c \in Nat
  PROVE  /\ [e EXCEPT !.capacity = c] \in EncoderObjects
         /\ Linked([e EXCEPT !.capacity = c])
         /\ [e EXCEPT !.capacity = c].capacity = c
         /\ [e EXCEPT !.capacity = c].chain = e.chain
         /\ TableOf([e EXCEPT !.capacity = c]) = TableOf(e)
<1> DEFINE r == [e EXCEPT !.capacity = c]
<1>1. /\ r.capacity = c /\ r.chain = e.chain /\ r.size = e.size
      /\ r.headerFields = e.headerFields /\ r \in EncoderObjects
  BY DEF EncoderObjects
<1> HIDE DEF r
<1>2. TableOf(r) = TableOf(e) /\ OldestIndex(r) = OldestIndex(e)
  BY <1>1, Zenon DEF TableOf, OldestIndex
<1>3. Linked(r)
  BY <1>1, <1>2, Zenon DEF Linked
<1> QED
  BY <1>1, <1>2, <1>3 DEF r

\* What SetMaxHeaderTableSize does to the encoder.
LEMMA Resized ==
  ASSUME NEW e \in EncoderObjects, Linked(e), NEW c \in Nat,
         NEW r, r = EnsureCapacity([e EXCEPT !.capacity = c], 0)
  PROVE  /\ r \in EncoderObjects /\ Linked(r)
         /\ r.capacity = c /\ r.size <= c
         /\ Range(r.chain) \subseteq Range(e.chain)
         /\ TableOf(r) = Fit(TableOf(e), c)
<1> DEFINE d == [e EXCEPT !.capacity = c]
<1>1. /\ d \in EncoderObjects /\ Linked(d) /\ d.capacity = c /\ d.chain = e.chain
      /\ TableOf(d) = TableOf(e)
  BY CapacityOnly
<1>2. r = EnsureCapacity(d, 0)
  OBVIOUS
<1> HIDE DEF d
<1>3. /\ r \in EncoderObjects /\ Linked(r) /\ r.capacity = c
      /\ Range(r.chain) \subseteq Range(d.chain)
      /\ TableOf(r) = Fit(TableOf(d), c - 0)
      /\ r.size <= c - 0
  <2>1. 0 \in Nat /\ 0 <= d.capacity
    BY <1>1
  <2> QED
    BY <1>1, <1>2, <2>1, EnsuresCapacity
<1>4. c - 0 = c
  OBVIOUS
<1> QED
  BY <1>1, <1>3, <1>4

\* What EncodeHeader does to the encoder when it adds the field to its table.
LEMMA Inserted ==
  ASSUME NEW e \in EncoderObjects, Linked(e), NEW f \in Fields, SizeOf(f) <= e.capacity,
         NEW r, r = Add(EnsureCapacity(e, SizeOf(f)), f)
  PROVE  /\ r \in EncoderObjects /\ Linked(r)
         /\ r.capacity = e.capacity /\ r.size <= e.capacity
         /\ \A x \in Range(r.chain) :
              x \in Range(e.chain) \/ x.index = MaxIndex - 1
                \/ \E y \in Range(e.chain) : x.index = y.index - 1
         /\ TableOf(r) = Fit(<<f>> \o TableOf(e), e.capacity)
<1> DEFINE d == EnsureCapacity(e, SizeOf(f))
<1>1. SizeOf(f) \in Nat
  BY FieldSizes
<1>2. /\ d \in EncoderObjects /\ Linked(d) /\ d.capacity = e.capacity
      /\ Range(d.chain) \subseteq Range(e.chain)
      /\ TableOf(d) = Fit(TableOf(e), e.capacity - SizeOf(f))
      /\ d.size <= e.capacity - SizeOf(f)
  BY <1>1, EnsuresCapacity
<1>3. r = Add(d, f)
  OBVIOUS
<1> HIDE DEF d
<1>4. /\ r \in EncoderObjects /\ Linked(r) /\ r.capacity = d.capacity
      /\ r.size = d.size + SizeOf(f)
      /\ TableOf(r) = <<f>> \o TableOf(d)
      /\ \A x \in Range(r.chain) : x \in Range(d.chain) \/ x.index = NewestIndex(d) - 1
  BY ZenonT(60), <1>2, <1>3, AddsEntry
<1>5. r.size <= e.capacity
  <2>1. d.size \in Nat /\ e.capacity \in Nat
    BY <1>2 DEF EncoderObjects
  <2> QED
    BY <1>1, <1>2, <1>4, <2>1
<1>6. TableOf(r) = Fit(<<f>> \o TableOf(e), e.capacity)
  <2>1. TableOf(e) \in Seq(Fields) /\ e.capacity \in Nat
    BY TableFacts DEF EncoderObjects
  <2>2. Fit(<<f>> \o TableOf(e), e.capacity) = <<f>> \o Fit(TableOf(e), e.capacity - SizeOf(f))
    BY <2>1, FitWithFirst
  <2> QED
    BY <1>2, <1>4, <2>2, Zenon
<1>7. NewestIndex(d) = MaxIndex \/ \E y \in Range(d.chain) : NewestIndex(d) = y.index
  <2>1. CASE d.chain = <<>>
    BY <2>1 DEF NewestIndex
  <2>2. CASE d.chain # <<>>
    <3> DEFINE n == Len(d.chain)
    <3>1. d.chain \in Seq(Entries) /\ n \in 1 .. n /\ DOMAIN d.chain = 1 .. n
      BY <1>2, <2>2, EmptySeq, LenProperties DEF EncoderObjects
    <3>2. NewestIndex(d) = d.chain[n].index
      BY <2>2, <3>1 DEF NewestIndex, Last
    <3>3. d.chain[n] \in Range(d.chain)
      BY <3>1, Zenon DEF Range
    <3> QED
      BY <3>2, <3>3
  <2> QED
    BY <2>1, <2>2
<1>8. ASSUME NEW x \in Range(r.chain)
      PROVE  x \in Range(e.chain) \/ x.index = MaxIndex - 1
               \/ \E y \in Range(e.chain) : x.index = y.index - 1
  <2>1. CASE x \in Range(d.chain)
    BY <1>2, <2>1
  <2>2. CASE x.index = NewestIndex(d) - 1
    BY <1>2, <1>7, <2>2
  <2> QED
    BY <1>4, <1>8, <2>1, <2>2
<1> QED
  BY <1>2, <1>4, <1>5, <1>6, <1>8

LEMMA IndicesOfChain ==
  ASSUME NEW e \in EncoderObjects
  PROVE  \A x \in Range(e.chain) : x \in Entries /\ x.index \in Int
<1> DEFINE c == e.chain
<1>1. c \in Seq(Entries) /\ DOMAIN c = 1 .. Len(c)
  BY LenProperties DEF EncoderObjects
<1>2. \A i \in 1 .. Len(c) : c[i] \in Entries
  BY <1>1
<1> HIDE DEF c
<1>3. ASSUME NEW x \in Range(c)
      PROVE  x \in Entries /\ x.index \in Int
  <2>1. PICK i \in 1 .. Len(c) : x = c[i]
    BY <1>1, <1>3, Zenon DEF Range
  <2> QED
    BY <1>2, <2>1 DEF Entries
<1> QED
  BY <1>3 DEF c

LEMMA EncodesOrNot ==
  ASSUME NEW f \in Fields, NEW sensitive \in BOOLEAN, EncodeHeader(f, sensitive)
  PROVE  \/ encoder' = encoder
         \/ /\ SizeOf(f) <= encoder.capacity
            /\ encoder' = Add(EnsureCapacity(encoder, SizeOf(f)), f)
BY Zenon DEF EncodeHeader, EncodeSensitive, EncodeStaticOnly, EncodeTooLarge, EncodeFound,
             EncodeStatic, EncodeIncremental, Fits

LEMMA LowestFalls ==
  ASSUME EncoderInv
  PROVE  Lowest \in Int /\ Lowest <= MaxIndex
<1> DEFINE m == blocks * MaxFields
<1>1. MaxFields \in Nat /\ MaxIndex \in Nat /\ Len(packed) \in Nat /\ blocks \in Nat
  BY HeaderBlocksAssumption, HPackEncoderAssumption DEF EncoderInv
<1>2. m \in Nat
  BY <1>1
<1>3. Lowest = MaxIndex - (m + Len(packed))
  BY DEF Lowest
<1> HIDE DEF m
<1> QED
  BY <1>1, <1>2, <1>3

LEMMA EncoderInvInit == Init => EncoderInv
<1> SUFFICES ASSUME Init PROVE EncoderInv
  OBVIOUS
<1> USE DEF Init
<1>1. HeaderTableSize \in Nat /\ MaxFields \in Nat /\ MaxBlocks \in Nat
      /\ renews \in {"none", "encoder", "decoder"}
  BY HeaderBlocksAssumption
<1>2. /\ encoder \in EncoderObjects /\ Linked(encoder) /\ encoder.size = 0
      /\ encoder.capacity = HeaderTableSize /\ encoder.chain = <<>>
  BY <1>1, NewEncoderLinked
<1>3. Range(encoder.chain) = {}
  BY <1>2 DEF Range
<1>4. packed \in Seq(Fields \X BOOLEAN) /\ Len(packed) = 0 /\ announced \in Seq(Nat)
  OBVIOUS
<1> QED
  BY <1>1, <1>2, <1>3, <1>4 DEF EncoderInv

LEMMA EncoderInvNext == EncoderInv /\ [Next]_vars => EncoderInv'
<1> SUFFICES ASSUME EncoderInv, [Next]_vars PROVE EncoderInv'
  OBVIOUS
<1>1. MaxFields \in Nat /\ MaxBlocks \in Nat /\ MaxIndex \in Nat /\ HeaderTableSize \in Nat
      /\ Capacities \subseteq Nat
  BY HeaderBlocksAssumption, HPackEncoderAssumption
<1>2. Lowest \in Int /\ Lowest <= MaxIndex
  BY LowestFalls
<1>3. ASSUME NEW c \in Capacities, Announce(c) \/ AnnounceUnheard(c)
      PROVE  EncoderInv'
  <2>1. UNCHANGED <<encoder, renews, phase, packed, blocks>>
    BY <1>3 DEF Announce, AnnounceUnheard
  <2>2. announced' \in Seq(Nat) /\ (renews # "none" => announced' = <<>>)
    BY <1>1, <1>3 DEF Announce, AnnounceUnheard, EncoderInv
  <2> QED
    BY <2>1, <2>2 DEF EncoderInv, Lowest
<1>4. CASE Comply
  <2>1. /\ UNCHANGED <<renews, phase, packed, blocks>> /\ announced # <<>>
        /\ announced' = Tail(announced) /\ SetMaxHeaderTableSize(Head(announced))
    BY <1>4 DEF Comply
  <2>2. announced \in Seq(Nat) /\ Head(announced) \in Nat /\ announced' \in Seq(Nat)
        /\ renews = "none"
    BY <2>1 DEF EncoderInv
  <2>3. CASE encoder' = encoder
    BY <2>1, <2>2, <2>3 DEF EncoderInv, Lowest
  <2>4. CASE encoder' = EnsureCapacity([encoder EXCEPT !.capacity = Head(announced)], 0)
    <3> DEFINE c == Head(announced)
    <3> HIDE DEF c
    <3>1. encoder \in EncoderObjects /\ Linked(encoder) /\ c \in Nat
          /\ encoder' = EnsureCapacity([encoder EXCEPT !.capacity = c], 0)
      BY <2>2, <2>4 DEF EncoderInv, c
    <3>2. /\ encoder' \in EncoderObjects /\ Linked(encoder')
          /\ encoder'.capacity = c /\ encoder'.size <= c
          /\ Range(encoder'.chain) \subseteq Range(encoder.chain)
      BY ONLY <3>1, Resized
    <3>3. \A x \in Range(encoder'.chain) : x.index >= Lowest'
      BY <2>1, <3>2 DEF EncoderInv, Lowest
    <3>4. EncoderInv'
      BY <2>1, <2>2, <3>2, <3>3 DEF EncoderInv
    <3> QED
      BY <3>4
  <2> QED
    BY <2>1, <2>3, <2>4 DEF SetMaxHeaderTableSize
<1>5. CASE PackHeaders
  <2>1. /\ phase = "between" /\ phase' = "packed" /\ blocks < MaxBlocks
        /\ encoder' = IF renews = "encoder" THEN NewEncoder(HeaderTableSize) ELSE encoder
        /\ UNCHANGED <<renews, packed, announced, blocks>>
    BY <1>5 DEF PackHeaders
  <2>2. CASE renews = "encoder"
    <3>1. /\ encoder' \in EncoderObjects /\ Linked(encoder') /\ encoder'.size = 0
          /\ encoder'.capacity = HeaderTableSize /\ encoder'.chain = <<>>
      BY <1>1, <2>1, <2>2, NewEncoderLinked
    <3>2. Range(encoder'.chain) = {}
      BY <3>1 DEF Range
    <3> QED
      BY <1>1, <2>1, <3>1, <3>2 DEF EncoderInv
  <2>3. CASE renews # "encoder"
    BY <2>1, <2>3 DEF EncoderInv, Lowest
  <2> QED
    BY <2>2, <2>3
<1>6. ASSUME NEW f \in Fields, NEW sensitive \in BOOLEAN, PackHeader(f, sensitive)
      PROVE  EncoderInv'
  <2>1. /\ phase = "packed" /\ Len(packed) < MaxFields
        /\ EncodeHeader(f, sensitive)
        /\ packed' = Append(packed, <<f, sensitive>>)
        /\ UNCHANGED <<renews, phase, announced, blocks>>
    BY <1>6 DEF PackHeader
  <2>2. packed' \in Seq(Fields \X BOOLEAN) /\ Len(packed') = Len(packed) + 1 /\ Len(packed) \in Nat
    BY <2>1 DEF EncoderInv
  <2>3. Lowest' = Lowest - 1
    <3> DEFINE m == blocks * MaxFields
    <3>1. m \in Int /\ Lowest = MaxIndex - (m + Len(packed))
          /\ Lowest' = MaxIndex - (m + Len(packed'))
      BY <1>1, <2>1 DEF EncoderInv, Lowest
    <3> HIDE DEF m
    <3> QED
      BY <1>1, <2>2, <3>1
  <2>4. CASE encoder' = encoder
    <3>1. \A x \in Range(encoder'.chain) : x.index >= Lowest'
      <4>1. encoder \in EncoderObjects
        BY DEF EncoderInv
      <4>2. \A x \in Range(encoder.chain) : x.index \in Int
        BY <4>1, IndicesOfChain
      <4> QED
        BY <1>2, <2>3, <2>4, <4>2 DEF EncoderInv
    <3> QED
      BY <1>1, <2>1, <2>2, <2>4, <3>1 DEF EncoderInv
  <2>5. CASE /\ SizeOf(f) <= encoder.capacity
             /\ encoder' = Add(EnsureCapacity(encoder, SizeOf(f)), f)
    <3>1. /\ encoder' \in EncoderObjects /\ Linked(encoder')
          /\ encoder'.capacity = encoder.capacity /\ encoder'.size <= encoder.capacity
          /\ \A x \in Range(encoder'.chain) :
               x \in Range(encoder.chain) \/ x.index = MaxIndex - 1
                 \/ \E y \in Range(encoder.chain) : x.index = y.index - 1
      BY ZenonT(60), <2>5, Inserted DEF EncoderInv
    <3>2. ASSUME NEW x \in Range(encoder'.chain)
          PROVE  x.index >= Lowest'
      <4>1. encoder \in EncoderObjects
        BY DEF EncoderInv
      <4>2. \A y \in Range(encoder.chain) : y.index \in Int /\ y.index >= Lowest
        BY <4>1, IndicesOfChain DEF EncoderInv
      <4>3. CASE x \in Range(encoder.chain)
        BY <1>2, <2>3, <4>2, <4>3
      <4>4. CASE x.index = MaxIndex - 1
        BY <1>1, <1>2, <2>3, <4>4
      <4>5. ASSUME NEW y \in Range(encoder.chain), x.index = y.index - 1
            PROVE  x.index >= Lowest'
        BY <1>2, <2>3, <4>2, <4>5
      <4> QED
        BY <3>1, <3>2, <4>3, <4>4, <4>5
    <3> QED
      BY <1>1, <2>1, <2>2, <3>1, <3>2 DEF EncoderInv
  <2> QED
    BY <2>1, <2>4, <2>5, EncodesOrNot
<1>7. CASE UnpackHeaders
  BY <1>7 DEF UnpackHeaders, EncoderInv, Lowest
<1>8. CASE UnpackHeader
  BY <1>8 DEF UnpackHeader, EncoderInv, Lowest
<1>9. CASE EndBlock
  <2>1. /\ phase = "unpacked" /\ phase' = "between" /\ packed' = <<>> /\ blocks' = blocks + 1
        /\ UNCHANGED <<encoder, renews, announced>>
    BY <1>9 DEF EndBlock
  <2>2. blocks \in Nat /\ blocks < MaxBlocks /\ Len(packed) \in Nat /\ Len(packed) <= MaxFields
        /\ packed' \in Seq(Fields \X BOOLEAN) /\ Len(packed') = 0
    BY <1>1, <2>1 DEF EncoderInv
  <2>3. Lowest' \in Int /\ Lowest' <= Lowest
    <3> DEFINE m == blocks * MaxFields
    <3>1. m \in Int /\ (blocks + 1) * MaxFields = m + MaxFields
      BY <1>1, <2>2
    <3>2. Lowest = MaxIndex - (m + Len(packed)) /\ Lowest' = MaxIndex - ((m + MaxFields) + 0)
      BY <2>1, <2>2, <3>1 DEF Lowest
    <3> HIDE DEF m
    <3> QED
      BY <1>1, <2>2, <3>1, <3>2
  <2>4. \A x \in Range(encoder'.chain) : x.index >= Lowest'
    <3>1. encoder \in EncoderObjects
      BY DEF EncoderInv
    <3>2. \A x \in Range(encoder.chain) : x.index \in Int /\ x.index >= Lowest
      BY <3>1, IndicesOfChain DEF EncoderInv
    <3> QED
      BY <1>2, <2>1, <2>3, <3>2
  <2> QED
    BY <1>1, <2>1, <2>2, <2>4 DEF EncoderInv
<1>10. CASE UNCHANGED vars
  BY <1>10 DEF vars, EncoderInv, Lowest
<1> QED
  BY <1>3, <1>4, <1>5, <1>6, <1>7, <1>8, <1>9, <1>10 DEF Next

LEMMA EncoderInvAlways == Spec => []EncoderInv
BY EncoderInvInit, EncoderInvNext, PTL DEF Spec

\* The list, the buckets and the size of the Encoder agree for ever: Add, Remove
\* and EnsureCapacity of Encoder keep them so, whatever is encoded and however
\* often the table is resized.
THEOREM EncoderStaysLinked == Spec => []LinkedHashMap
<1>1. EncoderInv => LinkedHashMap
  BY DEF EncoderInv, LinkedHashMap
<1> QED
  BY <1>1, EncoderInvAlways, PTL

-----------------------------------------------------------------------------
(* One list the beginning of another.                                      *)

Comparable(s, t) == IsPrefix(s, t) \/ IsPrefix(t, s)

LEMMA PrefixPoints ==
  ASSUME NEW S, NEW s \in Seq(S), NEW t \in Seq(S)
  PROVE  IsPrefix(s, t) <=> Len(s) <= Len(t) /\ \A i \in 1 .. Len(s) : s[i] = t[i]
<1> DEFINE n == Len(s)
           p == Lists!First(s, n)
           q == Lists!First(t, n)
<1>1. n \in Nat /\ Len(t) \in Nat /\ n \in 0 .. Len(s)
  BY LenProperties
<1>2. IsPrefix(s, t) <=> n <= Len(t) /\ p = q
  BY Zenon DEF IsPrefix, Lists!First
<1>3. p = s
  BY <1>1, Lists!Prefix
<1> HIDE DEF p, q, n
<1>4. ASSUME n <= Len(t)
      PROVE  q \in Seq(S) /\ Len(q) = n /\ \A i \in 1 .. n : q[i] = t[i]
  <2>1. n \in 0 .. Len(t)
    BY <1>1, <1>4
  <2> QED
    BY <2>1, Lists!Prefix DEF q
<1>5. ASSUME n <= Len(t), \A i \in 1 .. n : s[i] = t[i]
      PROVE  s = q
  <2>1. Len(s) = Len(q) /\ \A i \in 1 .. Len(s) : s[i] = q[i]
    BY <1>4, <1>5 DEF n
  <2> QED
    BY <1>4, <1>5, <2>1, SeqEqual
<1> QED
  BY <1>2, <1>3, <1>4, <1>5 DEF n

LEMMA ComparablePoints ==
  ASSUME NEW S, NEW s \in Seq(S), NEW t \in Seq(S)
  PROVE  Comparable(s, t) <=>
           \A i \in Nat : i \in 1 .. Len(s) /\ i \in 1 .. Len(t) => s[i] = t[i]
<1>1. Len(s) \in Nat /\ Len(t) \in Nat
  BY LenProperties
<1>2. IsPrefix(s, t) <=> Len(s) <= Len(t) /\ \A i \in 1 .. Len(s) : s[i] = t[i]
  BY PrefixPoints
<1>3. IsPrefix(t, s) <=> Len(t) <= Len(s) /\ \A i \in 1 .. Len(t) : t[i] = s[i]
  BY PrefixPoints
<1>4. CASE Len(s) <= Len(t)
  <2>1. \A i \in Nat : i \in 1 .. Len(s) => i \in 1 .. Len(t)
    BY <1>1, <1>4
  <2>2. Comparable(s, t) <=> \A i \in 1 .. Len(s) : s[i] = t[i]
    BY <1>1, <1>2, <1>3, <1>4 DEF Comparable
  <2>3. \A i \in 1 .. Len(s) : i \in Nat
    BY <1>1
  <2> QED
    BY <2>1, <2>2, <2>3
<1>5. CASE Len(t) <= Len(s)
  <2>1. \A i \in Nat : i \in 1 .. Len(t) => i \in 1 .. Len(s)
    BY <1>1, <1>5
  <2>2. Comparable(s, t) <=> \A i \in 1 .. Len(t) : t[i] = s[i]
    BY <1>1, <1>2, <1>3, <1>5 DEF Comparable
  <2>3. \A i \in 1 .. Len(t) : i \in Nat
    BY <1>1
  <2> QED
    BY <2>1, <2>2, <2>3
<1> QED
  BY <1>1, <1>4, <1>5

LEMMA NoneComparable ==
  ASSUME NEW s \in Seq(Fields)
  PROVE  Comparable(<<>>, s) /\ Comparable(s, <<>>) /\ IsPrefix(<<>>, s)
<1> DEFINE z == <<>>
<1>1. z \in Seq(Fields) /\ Len(z) = 0 /\ Len(s) \in Nat
  BY LenProperties
<1> HIDE DEF z
<1>2. Lists!First(z, 0) = z /\ Lists!First(s, 0) = z
  <2>1. 0 \in 0 .. Len(s) /\ 0 \in 0 .. Len(z)
    BY <1>1
  <2> QED
    BY <1>1, <2>1, Lists!Prefix DEF z
<1>3. SubSeq(z, 1, Len(z)) = z /\ SubSeq(s, 1, Len(z)) = z /\ Len(z) <= Len(s)
  BY <1>1, <1>2 DEF Lists!First
<1> QED
  BY <1>3, Zenon DEF Comparable, IsPrefix, z

LEMMA SelfPrefix == ASSUME NEW S, NEW s \in Seq(S) PROVE IsPrefix(s, s)
BY LenProperties, PrefixPoints

\* Evicting from one or both leaves comparable lists comparable.
LEMMA ComparableFits ==
  ASSUME NEW s \in Seq(Fields), NEW t \in Seq(Fields), Comparable(s, t),
         NEW b \in Nat, NEW c \in Nat
  PROVE  Comparable(Fit(s, b), t) /\ Comparable(Fit(s, b), Fit(t, c))
<1>1. Len(s) \in Nat /\ Len(t) \in Nat
  BY LenProperties
<1>2. PICK n \in 0 .. Len(s) : Fit(s, b) = Lists!First(s, n)
  BY FitIsPrefix
<1>3. PICK m \in 0 .. Len(t) : Fit(t, c) = Lists!First(t, m)
  BY FitIsPrefix
<1> DEFINE u == Fit(s, b)
           v == Fit(t, c)
<1>4. u \in Seq(Fields) /\ Len(u) = n /\ \A i \in 1 .. n : u[i] = s[i]
  BY <1>2, Lists!Prefix
<1>5. v \in Seq(Fields) /\ Len(v) = m /\ \A i \in 1 .. m : v[i] = t[i]
  BY <1>3, Lists!Prefix
<1>6. \A i \in Nat : i \in 1 .. Len(s) /\ i \in 1 .. Len(t) => s[i] = t[i]
  BY ComparablePoints
<1> HIDE DEF u, v
<1>7. Comparable(u, t)
  <2>1. ASSUME NEW i \in Nat, i \in 1 .. Len(u), i \in 1 .. Len(t)
        PROVE  u[i] = t[i]
    <3>1. i \in 1 .. n /\ i \in 1 .. Len(s)
      BY <1>1, <1>4, <2>1
    <3>2. u[i] = s[i] /\ s[i] = t[i]
      BY <1>4, <1>6, <2>1, <3>1
    <3> QED
      BY <3>2
  <2> QED
    BY <1>4, <2>1, ComparablePoints
<1>8. Comparable(u, v)
  <2>1. ASSUME NEW i \in Nat, i \in 1 .. Len(u), i \in 1 .. Len(v)
        PROVE  u[i] = v[i]
    <3>1. i \in 1 .. n /\ i \in 1 .. Len(s) /\ i \in 1 .. m /\ i \in 1 .. Len(t)
      BY <1>1, <1>4, <1>5, <2>1
    <3>2. u[i] = s[i] /\ s[i] = t[i] /\ v[i] = t[i]
      BY <1>4, <1>5, <1>6, <3>1
    <3> QED
      BY <3>2
  <2> QED
    BY <1>4, <1>5, <2>1, ComparablePoints
<1> QED
  BY <1>7, <1>8 DEF u, v

LEMMA PrependPoints ==
  ASSUME NEW f \in Fields, NEW s \in Seq(Fields)
  PROVE  /\ <<f>> \o s \in Seq(Fields) /\ Len(<<f>> \o s) = Len(s) + 1
         /\ \A i \in 1 .. Len(s) + 1 : (<<f>> \o s)[i] = IF i = 1 THEN f ELSE s[i - 1]
BY LenProperties

LEMMA ComparablePrepended ==
  ASSUME NEW f \in Fields, NEW s \in Seq(Fields), NEW t \in Seq(Fields), Comparable(s, t)
  PROVE  Comparable(<<f>> \o s, <<f>> \o t)
<1> DEFINE u == <<f>> \o s
           v == <<f>> \o t
<1>1. Len(s) \in Nat /\ Len(t) \in Nat
  BY LenProperties
<1>2. /\ u \in Seq(Fields) /\ Len(u) = Len(s) + 1
      /\ \A i \in 1 .. Len(s) + 1 : u[i] = IF i = 1 THEN f ELSE s[i - 1]
  BY PrependPoints
<1>3. /\ v \in Seq(Fields) /\ Len(v) = Len(t) + 1
      /\ \A i \in 1 .. Len(t) + 1 : v[i] = IF i = 1 THEN f ELSE t[i - 1]
  BY PrependPoints
<1>4. \A i \in Nat : i \in 1 .. Len(s) /\ i \in 1 .. Len(t) => s[i] = t[i]
  BY ComparablePoints
<1> HIDE DEF u, v
<1>5. ASSUME NEW i \in Nat, i \in 1 .. Len(u), i \in 1 .. Len(v)
      PROVE  u[i] = v[i]
  <2>1. CASE i = 1
    BY <1>2, <1>3, <1>5, <2>1
  <2>2. CASE i # 1
    <3> DEFINE k == i - 1
    <3>1. k \in Nat /\ k \in 1 .. Len(s) /\ k \in 1 .. Len(t)
      BY <1>1, <1>2, <1>3, <1>5, <2>2
    <3>2. u[i] = s[k] /\ v[i] = t[k]
      BY <1>2, <1>3, <1>5, <2>2
    <3> HIDE DEF k
    <3> QED
      BY <1>4, <3>1, <3>2
  <2> QED
    BY <2>1, <2>2
<1> QED
  BY <1>2, <1>3, <1>5, ComparablePoints DEF u, v

LEMMA PrefixPrepended ==
  ASSUME NEW f \in Fields, NEW s \in Seq(Fields), NEW t \in Seq(Fields), IsPrefix(s, t)
  PROVE  IsPrefix(<<f>> \o s, <<f>> \o t)
<1> DEFINE u == <<f>> \o s
           v == <<f>> \o t
<1>1. Len(s) \in Nat /\ Len(t) \in Nat /\ Len(s) <= Len(t)
  BY LenProperties, PrefixPoints
<1>2. u \in Seq(Fields) /\ Len(u) = Len(s) + 1 /\ v \in Seq(Fields) /\ Len(v) = Len(t) + 1
  BY PrependPoints
<1>3. Comparable(s, t)
  BY DEF Comparable
<1>4. Comparable(u, v)
  BY <1>3, ComparablePrepended
<1> HIDE DEF u, v
<1>5. \A i \in Nat : i \in 1 .. Len(u) /\ i \in 1 .. Len(v) => u[i] = v[i]
  BY <1>2, <1>4, ComparablePoints
<1>6. Len(u) <= Len(v) /\ \A i \in 1 .. Len(u) : u[i] = v[i]
  <2>1. Len(u) <= Len(v)
    BY ONLY <1>1, <1>2
  <2>2. ASSUME NEW i \in 1 .. Len(u) PROVE u[i] = v[i]
    <3>1. i \in Nat /\ i \in 1 .. Len(v)
      BY <1>1, <1>2
    <3> QED
      BY <1>5, <3>1
  <2> QED
    BY <2>1, <2>2
<1> QED
  BY <1>2, <1>6, PrefixPoints DEF u, v

\* What fits of a list is the beginning of what fits of a longer one.
LEMMA PrefixFits ==
  ASSUME NEW s \in Seq(Fields), NEW t \in Seq(Fields), IsPrefix(s, t), NEW c \in Nat
  PROVE  IsPrefix(Fit(s, c), Fit(t, c))
<1>1. Len(s) \in Nat /\ Len(t) \in Nat /\ Len(s) <= Len(t) /\ \A i \in 1 .. Len(s) : s[i] = t[i]
  BY LenProperties, PrefixPoints
<1>2. PICK n \in 0 .. Len(s) : /\ Fit(s, c) = Lists!First(s, n)
                               /\ TotalSize(Fit(s, c)) <= c
  BY FitIsPrefix
<1>3. PICK m \in 0 .. Len(t) :
        /\ Fit(t, c) = Lists!First(t, m)
        /\ \A k \in 0 .. Len(t) : TotalSize(Lists!First(t, k)) <= c => k <= m
  BY FitIsPrefix
<1>4. n \in 0 .. Len(t)
  BY <1>1
<1>5. /\ Lists!First(s, n) \in Seq(Fields) /\ Len(Lists!First(s, n)) = n
      /\ \A i \in 1 .. n : Lists!First(s, n)[i] = s[i]
  BY Lists!Prefix
<1>6. /\ Lists!First(t, n) \in Seq(Fields) /\ Len(Lists!First(t, n)) = n
      /\ \A i \in 1 .. n : Lists!First(t, n)[i] = t[i]
  BY <1>4, Lists!Prefix
<1>7. /\ Lists!First(t, m) \in Seq(Fields) /\ Len(Lists!First(t, m)) = m
      /\ \A i \in 1 .. m : Lists!First(t, m)[i] = t[i]
  BY Lists!Prefix
<1> DEFINE u == Lists!First(s, n)
           v == Lists!First(t, n)
           w == Lists!First(t, m)
<1> HIDE DEF u, v, w
<1>8. u = v
  <2>1. ASSUME NEW i \in 1 .. n PROVE u[i] = v[i]
    <3>1. i \in 1 .. Len(s)
      BY <1>1
    <3> QED
      BY <1>1, <1>5, <1>6, <3>1 DEF u, v
  <2> QED
    BY <1>5, <1>6, <2>1, SeqEqual DEF u, v
<1>9. n <= m
  BY <1>2, <1>3, <1>4, <1>8 DEF u, v
<1>10. IsPrefix(u, w)
  <2>1. Len(u) <= Len(w)
    BY <1>5, <1>7, <1>9 DEF u, w
  <2>2. ASSUME NEW i \in 1 .. n PROVE u[i] = w[i]
    <3>1. i \in 1 .. Len(s) /\ i \in 1 .. m
      BY <1>1, <1>9
    <3>2. u[i] = s[i] /\ s[i] = t[i] /\ w[i] = t[i]
      BY <1>1, <1>5, <1>7, <3>1 DEF u, w
    <3> QED
      BY <3>2
  <2>3. u \in Seq(Fields) /\ w \in Seq(Fields) /\ Len(u) = n
    BY <1>5, <1>7 DEF u, w
  <2> QED
    BY <2>1, <2>2, <2>3, PrefixPoints
<1> QED
  BY <1>2, <1>3, <1>10 DEF u, w

-----------------------------------------------------------------------------
(* The bytes of the fields of a block.                                     *)

Pairs == Fields \X BOOLEAN

Weight(p) == SumFunction([i \in DOMAIN p |-> Bytes(p[i][1])])

LEMMA WeightNone == Weight(<<>>) = 0
<1> DEFINE z == <<>>
           w == [i \in DOMAIN z |-> Bytes(z[i][1])]
<1>1. DOMAIN w = {}
  OBVIOUS
<1> HIDE DEF w
<1>2. SumFunctionOnSet(w, {}) = 0
  BY SumEmpty
<1>3. SumFunction(w) = 0
  BY <1>1, <1>2, Zenon DEF SumFunction
<1> QED
  BY <1>3, Zenon DEF Weight, w

LEMMA WeightOfMore ==
  ASSUME NEW p \in Seq(Pairs), NEW f \in Fields, NEW s \in BOOLEAN
  PROVE  /\ Append(p, <<f, s>>) \in Seq(Pairs)
         /\ Weight(Append(p, <<f, s>>)) = Weight(p) + Bytes(f)
         /\ Weight(p) \in Nat /\ Bytes(f) \in Nat
<1> DEFINE n == Len(p)
           x == <<f, s>>
           q == Append(p, x)
           v == [i \in DOMAIN p |-> Bytes(p[i][1])]
           w == [i \in DOMAIN q |-> Bytes(q[i][1])]
<1>1. n \in Nat /\ DOMAIN p = 1 .. n /\ \A i \in 1 .. n : p[i] \in Pairs
  BY LenProperties, ElementOfSeq
<1>2. x \in Pairs /\ x[1] = f
  BY DEF Pairs
<1> HIDE DEF x
<1>3. q \in Seq(Pairs) /\ Len(q) = n + 1 /\ (\A i \in 1 .. n : q[i] = p[i]) /\ q[n + 1] = x
  BY <1>2, AppendProperties
<1>4. DOMAIN q = 1 .. n + 1
  BY <1>3, LenProperties
<1> HIDE DEF n, q
<1>5. \A z \in Pairs : Bytes(z[1]) \in Nat
  BY FieldSizes DEF Pairs
<1>6. v \in [1 .. n -> Nat] /\ \A i \in 1 .. n : v[i] = Bytes(p[i][1])
  BY <1>1, <1>5
<1>7. \A i \in 1 .. n + 1 : q[i] \in Pairs
  BY <1>1, <1>2, <1>3
<1>8. w \in [1 .. n + 1 -> Nat] /\ \A i \in 1 .. n + 1 : w[i] = Bytes(q[i][1])
  BY <1>4, <1>5, <1>7
<1> HIDE DEF v, w
<1>9. \A i \in 1 .. n : w[i] = v[i]
  <2>1. ASSUME NEW i \in 1 .. n PROVE w[i] = v[i]
    <3>1. i \in 1 .. n + 1
      BY <1>1
    <3> QED
      BY <1>3, <1>6, <1>8, <3>1
  <2> QED
    BY <2>1
<1>10. w[n + 1] = Bytes(f)
  <2>1. n + 1 \in 1 .. n + 1
    BY <1>1
  <2> QED
    BY <1>2, <1>3, <1>8, <2>1
<1>11. SumFunction(w) = SumFunction(v) + w[n + 1]
  <2>1. v \in [1 .. n -> Int] /\ w \in [1 .. n + 1 -> Int]
    BY <1>6, <1>8
  <2> QED
    BY <1>1, <1>9, <2>1, SumOneMore
<1>12. SumFunction(v) \in Nat
  <2>1. DOMAIN v = 1 .. n /\ \A i \in 1 .. n : v[i] \in Nat
    BY <1>6
  <2>2. IsFiniteSet(1 .. n)
    BY <1>1, FS_Interval
  <2>3. SumFunctionOnSet(v, 1 .. n) \in Nat
    BY <2>1, <2>2, SumType
  <2> QED
    BY <2>1, <2>3, Zenon DEF SumFunction
<1>13. Weight(p) = SumFunction(v) /\ Weight(q) = SumFunction(w)
  BY Zenon DEF Weight, v, w
<1>14. Weight(q) = Weight(p) + Bytes(f) /\ Weight(p) \in Nat
  BY <1>10, <1>11, <1>12, <1>13
<1> QED
  BY <1>3, <1>14, FieldSizes DEF q, x

-----------------------------------------------------------------------------
(* What the decoder does with one representation.                          *)

NameLengths == {0} \union {WireLength[n] : n \in Names}

DecoderObjects ==
  [table : Seq(Fields), capacity : Nat, maxDynamicTableSize : Nat,
   encoderMaxDynamicTableSize : Nat, changeRequired : BOOLEAN, headerSize : Nat,
   name : Names \union {EMPTY}, nameLength : NameLengths, headers : Seq(Pairs),
   failed : BOOLEAN]

\* A decoder that differs from d in nothing that concerns the size of its table.
Resembles(d, r) ==
  /\ r \in DecoderObjects
  /\ r.capacity = d.capacity
  /\ r.maxDynamicTableSize = d.maxDynamicTableSize
  /\ r.encoderMaxDynamicTableSize = d.encoderMaxDynamicTableSize
  /\ r.changeRequired = d.changeRequired

\* The field makes the block too large, counted with some name.
TooMuch(d, f) == \E n \in Names : d.headerSize + Bytes(f) + WireLength[n] > MaxHeaderSize

\* The field is delivered.
Given(d, f, sensitive, type, r) ==
  /\ ~r.failed /\ ~Truncated(r)
  /\ r.headers = Append(d.headers, <<f, sensitive>>)
  /\ r.headerSize = d.headerSize + Bytes(f)
  /\ r.table = IF type = "INCREMENTAL" THEN Fit(<<f>> \o d.table, d.capacity) ELSE d.table

\* It is not, and the block is marked; its place in the table may be lost.
Cut(d, f, type, r) ==
  /\ Truncated(r) /\ TooMuch(d, f)
  /\ r.headers = d.headers
  /\ \/ r.failed
     \/ r.table = <<>>
     \/ r.table = IF type = "INCREMENTAL" THEN Fit(<<f>> \o d.table, d.capacity) ELSE d.table

Outcome(d, f, sensitive, type, r) ==
  Resembles(d, r) /\ (Given(d, f, sensitive, type, r) \/ Cut(d, f, type, r))

LEMMA Lengths ==
  /\ MaxHeaderSize \in Nat
  /\ HEADER_ENTRY_OVERHEAD \in Nat
  /\ \A f \in Fields : /\ f.name \in Names /\ f.name # EMPTY
                       /\ f = [name |-> f.name, value |-> f.value]
                       /\ WireLength[f.name] \in Nat /\ WireLength[f.value] \in Nat
                       /\ Bytes(f) \in Nat
                       /\ WireLength[f.name] + WireLength[f.value] <= Bytes(f)
  /\ \A n \in Names : WireLength[n] \in Nat
  /\ NameLengths \subseteq Nat
<1>1. MaxHeaderSize \in Nat /\ HEADER_ENTRY_OVERHEAD \in Nat
  BY HeaderBlocksAssumption, HeaderFieldsAssumption
<1>2. ASSUME NEW f \in Fields
      PROVE  /\ f.name \in Names /\ f.name # EMPTY
             /\ f = [name |-> f.name, value |-> f.value]
             /\ WireLength[f.name] \in Nat /\ WireLength[f.value] \in Nat
             /\ Bytes(f) \in Nat
             /\ WireLength[f.name] + WireLength[f.value] <= Bytes(f)
  <2>1. f.name \in Names
    BY DEF Names
  <2>2. f.name # EMPTY /\ f = [name |-> f.name, value |-> f.value]
    BY <2>1, HeaderFieldsAssumption
  <2>3. /\ TextLength[f.name] \in Nat /\ WireLength[f.name] \in 0 .. TextLength[f.name]
        /\ TextLength[f.value] \in Nat /\ WireLength[f.value] \in 0 .. TextLength[f.value]
    BY HeaderFieldsAssumption
  <2>4. Bytes(f) = TextLength[f.name] + TextLength[f.value]
    BY DEF Bytes
  <2>5. /\ WireLength[f.name] \in Nat /\ WireLength[f.value] \in Nat
        /\ Bytes(f) \in Nat
        /\ WireLength[f.name] + WireLength[f.value] <= Bytes(f)
    BY ONLY <2>3, <2>4
  <2> QED
    BY <2>1, <2>2, <2>5
<1>3. \A n \in Names : WireLength[n] \in Nat
  BY <1>2 DEF Names
<1>4. NameLengths \subseteq Nat
  BY <1>3 DEF NameLengths
<1> QED
  BY <1>1, <1>2, <1>3, <1>4

LEMMA TooMuchWhen ==
  ASSUME NEW d \in DecoderObjects, NEW f \in Fields
  PROVE  /\ Truncated(d) => TooMuch(d, f)
         /\ d.headerSize + Bytes(f) > MaxHeaderSize => TooMuch(d, f)
         /\ WireLength[f.name] + d.headerSize > MaxHeaderSize => TooMuch(d, f)
         /\ \A l \in NameLengths :
              l + WireLength[f.value] + d.headerSize > MaxHeaderSize => TooMuch(d, f)
<1> DEFINE h == d.headerSize
           b == Bytes(f)
           wn == WireLength[f.name]
           wv == WireLength[f.value]
<1>1. h \in Nat /\ MaxHeaderSize \in Nat
  BY Lengths DEF DecoderObjects
<1>2. f.name \in Names /\ wn \in Nat /\ wv \in Nat /\ b \in Nat /\ wn + wv <= b
  BY Lengths
<1>3. h + b + wn > MaxHeaderSize => TooMuch(d, f)
  BY <1>2 DEF TooMuch
<1>4. Truncated(d) => h > MaxHeaderSize
  BY DEF Truncated
<1>5. ASSUME NEW l \in NameLengths, l + wv + h > MaxHeaderSize
      PROVE  TooMuch(d, f)
  <2>1. CASE l = 0
    <3> HIDE DEF h, b, wn, wv
    <3>1. h + b + wn > MaxHeaderSize
      BY <1>1, <1>2, <1>5, <2>1
    <3> QED
      BY <1>3, <3>1
  <2>2. ASSUME NEW n \in Names, l = WireLength[n]
        PROVE  TooMuch(d, f)
    <3>1. l \in Nat
      BY <2>2, Lengths
    <3>2. h + b + l > MaxHeaderSize
      <4> HIDE DEF h, b, wn, wv
      <4> QED
        BY <1>1, <1>2, <1>5, <3>1
    <3> QED
      BY <2>2, <3>2 DEF TooMuch
  <2> QED
    BY <1>5, <2>1, <2>2 DEF NameLengths
<1>6. h > MaxHeaderSize => h + b + wn > MaxHeaderSize
  <2> HIDE DEF h, b, wn, wv
  <2> QED
    BY <1>1, <1>2
<1>7. h + b > MaxHeaderSize => h + b + wn > MaxHeaderSize
  <2> HIDE DEF h, b, wn, wv
  <2> QED
    BY <1>1, <1>2
<1>8. wn + h > MaxHeaderSize => h + b + wn > MaxHeaderSize
  <2> HIDE DEF h, b, wn, wv
  <2> QED
    BY <1>1, <1>2
<1> QED
  BY <1>3, <1>4, <1>5, <1>6, <1>7, <1>8

LEMMA Marks ==
  ASSUME NEW d \in DecoderObjects, NEW length \in Nat
  PROVE  /\ Resembles(d, Marked(d, length))
         /\ Marked(d, length).table = d.table
         /\ Marked(d, length).headers = d.headers
         /\ Marked(d, length).name = d.name
         /\ Marked(d, length).nameLength = d.nameLength
         /\ Marked(d, length).failed = d.failed
         /\ IF length + d.headerSize <= MaxHeaderSize
            THEN Marked(d, length) = d
            ELSE Marked(d, length).headerSize = MaxHeaderSize + 1 /\ Truncated(Marked(d, length))
<1>1. MaxHeaderSize + 1 \in Nat /\ MaxHeaderSize + 1 > MaxHeaderSize
  BY Lengths
<1>2. CASE length + d.headerSize <= MaxHeaderSize
  <2>1. Marked(d, length) = d
    BY <1>2 DEF Marked
  <2> QED
    BY <1>2, <2>1 DEF Resembles
<1>3. CASE ~(length + d.headerSize <= MaxHeaderSize)
  <2> DEFINE r == [d EXCEPT !.headerSize = MaxHeaderSize + 1]
  <2>1. Marked(d, length) = r
    BY <1>3 DEF Marked
  <2>2. /\ r \in DecoderObjects
        /\ r.headerSize = MaxHeaderSize + 1
        /\ r.capacity = d.capacity /\ r.maxDynamicTableSize = d.maxDynamicTableSize
        /\ r.encoderMaxDynamicTableSize = d.encoderMaxDynamicTableSize
        /\ r.changeRequired = d.changeRequired
        /\ r.table = d.table /\ r.headers = d.headers /\ r.name = d.name
        /\ r.nameLength = d.nameLength /\ r.failed = d.failed
    BY <1>1 DEF DecoderObjects
  <2> HIDE DEF r
  <2> QED
    BY <1>1, <1>3, <2>1, <2>2 DEF Resembles, Truncated
<1> QED
  BY <1>2, <1>3

LEMMA Clears ==
  ASSUME NEW d \in DecoderObjects, NEW type
  PROVE  /\ Resembles(d, Cleared(d, type))
         /\ Cleared(d, type).table = IF type = "NONE" THEN d.table ELSE <<>>
         /\ Cleared(d, type).headers = d.headers
         /\ Cleared(d, type).headerSize = d.headerSize
         /\ Cleared(d, type).name = d.name
         /\ Cleared(d, type).nameLength = d.nameLength
         /\ Cleared(d, type).failed = d.failed
<1>1. CASE type = "NONE"
  <2>1. Cleared(d, type) = d
    BY <1>1 DEF Cleared
  <2> QED
    BY <1>1, <2>1 DEF Resembles
<1>2. CASE type # "NONE"
  <2> DEFINE r == [d EXCEPT !.table = <<>>]
  <2>1. Cleared(d, type) = r
    BY <1>2 DEF Cleared
  <2>2. <<>> \in Seq(Fields)
    OBVIOUS
  <2>3. /\ r \in DecoderObjects
        /\ r.headerSize = d.headerSize
        /\ r.capacity = d.capacity /\ r.maxDynamicTableSize = d.maxDynamicTableSize
        /\ r.encoderMaxDynamicTableSize = d.encoderMaxDynamicTableSize
        /\ r.changeRequired = d.changeRequired
        /\ r.table = <<>> /\ r.headers = d.headers /\ r.name = d.name
        /\ r.nameLength = d.nameLength /\ r.failed = d.failed
    BY <2>2 DEF DecoderObjects
  <2> HIDE DEF r
  <2> QED
    BY <1>2, <2>1, <2>3 DEF Resembles
<1> QED
  BY <1>1, <1>2

LEMMA AddsHeader ==
  ASSUME NEW d \in DecoderObjects, NEW f \in Fields, NEW s \in BOOLEAN
  PROVE  /\ Resembles(d, AddHeader(d, f, s))
         /\ AddHeader(d, f, s).table = d.table
         /\ AddHeader(d, f, s).failed = d.failed
         /\ IF d.headerSize + Bytes(f) <= MaxHeaderSize
            THEN /\ AddHeader(d, f, s).headers = Append(d.headers, <<f, s>>)
                 /\ AddHeader(d, f, s).headerSize = d.headerSize + Bytes(f)
            ELSE /\ AddHeader(d, f, s).headers = d.headers
                 /\ AddHeader(d, f, s).headerSize = MaxHeaderSize + 1
<1>1. MaxHeaderSize + 1 \in Nat /\ d.headerSize \in Nat /\ Bytes(f) \in Nat
  BY Lengths DEF DecoderObjects
<1>2. CASE d.headerSize + Bytes(f) <= MaxHeaderSize
  <2> DEFINE r == [d EXCEPT !.headers = Append(@, <<f, s>>), !.headerSize = d.headerSize + Bytes(f)]
             l == Append(d.headers, <<f, s>>)
  <2>1. AddHeader(d, f, s) = r
    BY <1>2 DEF AddHeader
  <2>2. l \in Seq(Pairs) /\ d.headerSize + Bytes(f) \in Nat
    BY <1>1 DEF DecoderObjects, Pairs
  <2>3. r = [d EXCEPT !.headers = l, !.headerSize = d.headerSize + Bytes(f)]
    OBVIOUS
  <2> HIDE DEF l
  <2>4. /\ r \in DecoderObjects
        /\ r.headerSize = d.headerSize + Bytes(f)
        /\ r.capacity = d.capacity /\ r.maxDynamicTableSize = d.maxDynamicTableSize
        /\ r.encoderMaxDynamicTableSize = d.encoderMaxDynamicTableSize
        /\ r.changeRequired = d.changeRequired
        /\ r.table = d.table /\ r.headers = l /\ r.failed = d.failed
    <3> HIDE DEF r
    <3> QED
      BY <2>2, <2>3 DEF DecoderObjects
  <2> HIDE DEF r
  <2> QED
    BY <1>2, <2>1, <2>4 DEF Resembles, l
<1>3. CASE ~(d.headerSize + Bytes(f) <= MaxHeaderSize)
  <2> DEFINE r == [d EXCEPT !.headerSize = MaxHeaderSize + 1]
  <2>1. AddHeader(d, f, s) = r
    BY <1>3 DEF AddHeader
  <2>2. /\ r \in DecoderObjects
        /\ r.headerSize = MaxHeaderSize + 1
        /\ r.capacity = d.capacity /\ r.maxDynamicTableSize = d.maxDynamicTableSize
        /\ r.encoderMaxDynamicTableSize = d.encoderMaxDynamicTableSize
        /\ r.changeRequired = d.changeRequired
        /\ r.table = d.table /\ r.headers = d.headers /\ r.failed = d.failed
    BY <1>1 DEF DecoderObjects
  <2> HIDE DEF r
  <2> QED
    BY <1>3, <2>1, <2>2 DEF Resembles
<1> QED
  BY <1>2, <1>3

\* An indexed field that is where the index says.
LEMMA ReadsIndexed ==
  ASSUME NEW d \in DecoderObjects, ~d.failed, NEW f \in Fields
  PROVE  Outcome(d, f, FALSE, "NONE", AddHeader(d, f, FALSE))
<1> DEFINE r == AddHeader(d, f, FALSE)
<1>1. /\ Resembles(d, r) /\ r.table = d.table /\ r.failed = d.failed
      /\ IF d.headerSize + Bytes(f) <= MaxHeaderSize
         THEN r.headers = Append(d.headers, <<f, FALSE>>) /\ r.headerSize = d.headerSize + Bytes(f)
         ELSE r.headers = d.headers /\ r.headerSize = MaxHeaderSize + 1
  BY AddsHeader
<1> HIDE DEF r
<1>2. MaxHeaderSize \in Nat /\ d.headerSize \in Nat /\ Bytes(f) \in Nat
  BY Lengths DEF DecoderObjects
<1>3. CASE d.headerSize + Bytes(f) <= MaxHeaderSize
  <2>1. ~Truncated(r)
    BY <1>1, <1>2, <1>3 DEF Truncated
  <2> QED
    BY <1>1, <1>3, <2>1 DEF Outcome, Given, r
<1>4. CASE ~(d.headerSize + Bytes(f) <= MaxHeaderSize)
  <2>1. Truncated(r)
    BY <1>1, <1>2, <1>4 DEF Truncated
  <2>2. TooMuch(d, f)
    BY <1>2, <1>4, TooMuchWhen
  <2> QED
    BY <1>1, <1>4, <2>1, <2>2 DEF Outcome, Cut, r
<1> QED
  BY <1>3, <1>4

\* The decoder once it has read the name of a literal: it has the name, or it has
\* skipped it as too long and marked the block.
Named(d, f, type, r) ==
  /\ Resembles(d, r)
  /\ ~r.failed /\ r.headers = d.headers
  /\ \/ /\ r.name = f.name /\ r.table = d.table
        /\ r.headerSize = d.headerSize \/ (Truncated(r) /\ TooMuch(d, f))
     \/ /\ r.name = EMPTY /\ Truncated(r) /\ TooMuch(d, f)
        /\ r.table = IF type = "NONE" THEN d.table ELSE <<>>

LEMMA ReadsLiteralName ==
  ASSUME NEW d \in DecoderObjects, ~d.failed, NEW f \in Fields, NEW type
  PROVE  Named(d, f, type, ReadLiteralName(d, f.name, type))
<1> DEFINE length == WireLength[f.name]
           k == Marked(d, length)
           m == [k EXCEPT !.nameLength = length]
           c == Cleared(m, type)
           r == ReadLiteralName(d, f.name, type)
<1>1. /\ length \in Nat /\ length \in NameLengths /\ f.name \in Names
      /\ MaxHeaderSize \in Nat /\ d.headerSize \in Nat
  BY Lengths DEF NameLengths, DecoderObjects
<1>2. r = IF Skipped(d, length, type) THEN [c EXCEPT !.name = EMPTY]
          ELSE [m EXCEPT !.name = f.name]
  BY DEF ReadLiteralName
<1> HIDE DEF length, r
<1>3. /\ Resembles(d, k) /\ k.table = d.table /\ k.headers = d.headers /\ k.failed = d.failed
      /\ IF length + d.headerSize <= MaxHeaderSize THEN k.headerSize = d.headerSize
         ELSE k.headerSize = MaxHeaderSize + 1
  BY <1>1, Marks
<1> HIDE DEF k
<1>4. /\ Resembles(d, m) /\ m.table = d.table /\ m.headers = d.headers /\ m.failed = d.failed
      /\ m.headerSize = k.headerSize
  BY <1>1, <1>3 DEF Resembles, DecoderObjects
<1> HIDE DEF m
<1>5. length + d.headerSize > MaxHeaderSize => Truncated(m) /\ TooMuch(d, f)
  <2>1. ASSUME length + d.headerSize > MaxHeaderSize
        PROVE  Truncated(m) /\ TooMuch(d, f)
    <3>1. m.headerSize = MaxHeaderSize + 1
      BY <1>1, <1>3, <1>4, <2>1
    <3>2. Truncated(m)
      BY <1>1, <3>1 DEF Truncated
    <3>3. TooMuch(d, f)
      BY <2>1, TooMuchWhen DEF length
    <3> QED
      BY <3>2, <3>3
  <2> QED
    BY <2>1
<1>6. CASE Skipped(d, length, type)
  <2>1. Truncated(m) /\ TooMuch(d, f)
    BY <1>5, <1>6 DEF Skipped
  <2>2. m \in DecoderObjects
    BY <1>4 DEF Resembles
  <2>3. /\ Resembles(m, c) /\ c.table = IF type = "NONE" THEN m.table ELSE <<>>
        /\ c.headers = m.headers /\ c.headerSize = m.headerSize /\ c.failed = m.failed
    BY <2>2, Clears
  <2> HIDE DEF c
  <2>4. r = [c EXCEPT !.name = EMPTY] /\ c \in DecoderObjects
    BY <1>2, <1>6, <2>3 DEF Resembles
  <2>5. /\ Resembles(c, r) /\ r.name = EMPTY /\ r.table = c.table /\ r.headers = c.headers
        /\ r.headerSize = c.headerSize /\ r.failed = c.failed
    BY <2>4 DEF Resembles, DecoderObjects
  <2>6. Resembles(d, r)
    BY <1>4, <2>3, <2>5 DEF Resembles
  <2> QED
    BY <1>4, <2>1, <2>3, <2>5, <2>6 DEF Named, Truncated, r
<1>7. CASE ~Skipped(d, length, type)
  <2>1. r = [m EXCEPT !.name = f.name] /\ m \in DecoderObjects
    BY <1>2, <1>4, <1>7 DEF Resembles
  <2>2. /\ Resembles(m, r) /\ r.name = f.name /\ r.table = m.table /\ r.headers = m.headers
        /\ r.headerSize = m.headerSize /\ r.failed = m.failed
    BY <1>1, <2>1 DEF Resembles, DecoderObjects
  <2>3. Resembles(d, r)
    BY <1>4, <2>2 DEF Resembles
  <2>4. r.headerSize = d.headerSize \/ (Truncated(r) /\ TooMuch(d, f))
    <3>1. CASE length + d.headerSize <= MaxHeaderSize
      BY <1>3, <1>4, <2>2, <3>1
    <3>2. CASE ~(length + d.headerSize <= MaxHeaderSize)
      <4>1. length + d.headerSize > MaxHeaderSize
        BY <1>1, <3>2
      <4> QED
        BY <1>5, <2>2, <4>1 DEF Truncated
    <3> QED
      BY <3>1, <3>2
  <2> QED
    BY <1>4, <2>2, <2>3, <2>4 DEF Named, r
<1> QED
  BY <1>6, <1>7

LEMMA ReadsName ==
  ASSUME NEW d \in DecoderObjects, ~d.failed, NEW f \in Fields, NEW type,
         NEW i, Legal(d, i), FieldAt(d, i).name = f.name
  PROVE  Named(d, f, type, ReadName(d, i))
<1> DEFINE r == [d EXCEPT !.name = f.name]
<1>1. ReadName(d, i) = r
  BY DEF ReadName
<1>2. f.name \in Names
  BY Lengths
<1>3. /\ Resembles(d, r) /\ r.name = f.name /\ r.table = d.table /\ r.headers = d.headers
      /\ r.headerSize = d.headerSize /\ r.failed = d.failed
  BY <1>2 DEF Resembles, DecoderObjects
<1> HIDE DEF r
<1> QED
  BY <1>1, <1>3 DEF Named

\* The value, after the name.
LEMMA ReadsValue ==
  ASSUME NEW d \in DecoderObjects, NEW f \in Fields, NEW type, NEW m, Named(d, f, type, m)
  PROVE  Outcome(d, f, type = "NEVER", type, ReadValue(m, f.value, type))
<1> DEFINE length == m.nameLength + WireLength[f.value]
           k == Marked(m, length)
           g == [name |-> m.name, value |-> f.value]
           r == ReadValue(m, f.value, type)
           s == (type = "NEVER")
<1>1. /\ m \in DecoderObjects /\ Resembles(d, m) /\ ~m.failed /\ m.headers = d.headers
      /\ m.nameLength \in NameLengths
  BY DEF Named, Resembles, DecoderObjects
<1>2. /\ length \in Nat /\ MaxHeaderSize \in Nat /\ d.headerSize \in Nat /\ m.headerSize \in Nat
      /\ Bytes(f) \in Nat
  <2>1. m.nameLength \in Nat /\ WireLength[f.value] \in Nat
    BY <1>1, Lengths
  <2> QED
    BY SMTT(40), <1>1, <2>1, Lengths DEF DecoderObjects
<1>3. r = IF Skipped(m, length, type) THEN Cleared(k, type) ELSE InsertHeader(k, g, type)
  BY DEF ReadValue
<1>4. ASSUME length + m.headerSize > MaxHeaderSize
      PROVE  TooMuch(d, f)
  <2>1. CASE m.headerSize = d.headerSize
    <3>1. m.nameLength + WireLength[f.value] + d.headerSize > MaxHeaderSize
      BY <1>4, <2>1
    <3> QED
      BY <1>1, <3>1, TooMuchWhen
  <2> QED
    BY <2>1 DEF Named
<1> HIDE DEF length, r
<1>5. /\ Resembles(m, k) /\ k.table = m.table /\ k.headers = m.headers /\ k.name = m.name
      /\ k.failed = m.failed
      /\ IF length + m.headerSize <= MaxHeaderSize THEN k.headerSize = m.headerSize
         ELSE k.headerSize = MaxHeaderSize + 1 /\ Truncated(k)
  BY <1>1, <1>2, Marks
<1> HIDE DEF k
<1>6. Resembles(d, k) /\ k \in DecoderObjects /\ ~k.failed /\ k.headers = d.headers
  BY <1>1, <1>5 DEF Resembles
<1>7. Truncated(m) => Truncated(k)
  <2>1. CASE length + m.headerSize <= MaxHeaderSize
    BY <1>5, <2>1 DEF Truncated
  <2>2. CASE ~(length + m.headerSize <= MaxHeaderSize)
    BY <1>5, <2>2
  <2> QED
    BY <2>1, <2>2
<1>8. ASSUME Truncated(k)
      PROVE  TooMuch(d, f)
  <2>1. CASE length + m.headerSize <= MaxHeaderSize
    <3>1. k.headerSize = m.headerSize /\ Truncated(m)
      BY <1>5, <1>8, <2>1 DEF Truncated
    <3>2. CASE m.headerSize = d.headerSize
      <4>1. Truncated(d)
        BY <3>1, <3>2 DEF Truncated
      <4> QED
        BY <4>1, TooMuchWhen
    <3> QED
      BY <3>2 DEF Named
  <2>2. CASE ~(length + m.headerSize <= MaxHeaderSize)
    BY <1>2, <1>4, <2>2
  <2> QED
    BY <2>1, <2>2
<1>9. CASE Skipped(m, length, type)
  <2> DEFINE c == Cleared(k, type)
  <2>1. length + m.headerSize > MaxHeaderSize
    BY <1>9 DEF Skipped
  <2>2. Truncated(k) /\ TooMuch(d, f)
    BY <1>2, <1>4, <1>5, <2>1
  <2>3. /\ Resembles(k, c) /\ c.table = IF type = "NONE" THEN k.table ELSE <<>>
        /\ c.headers = k.headers /\ c.headerSize = k.headerSize /\ c.failed = k.failed
    BY <1>6, Clears
  <2>4. r = c
    BY <1>3, <1>9
  <2> HIDE DEF c
  <2>5. Resembles(d, r) /\ Truncated(r) /\ r.headers = d.headers
    BY <1>6, <2>2, <2>3, <2>4 DEF Resembles, Truncated
  <2>6. r.table = <<>> \/ (type = "NONE" /\ r.table = d.table)
    BY <1>5, <2>3, <2>4 DEF Named
  <2>7. Cut(d, f, type, r)
    BY <2>2, <2>5, <2>6 DEF Cut
  <2> QED
    BY <2>5, <2>7 DEF Outcome, r
<1>10. CASE ~Skipped(m, length, type)
  <2>1. r = InsertHeader(k, g, type)
    BY <1>3, <1>10
  <2>2. CASE m.name = EMPTY
    <3> DEFINE z == Fail(k)
    <3>1. r = z
      BY <2>1, <2>2 DEF InsertHeader
    <3>2. Truncated(m) /\ TooMuch(d, f) /\ Truncated(k)
      BY <1>7, <2>2, Lengths DEF Named
    <3>3. /\ Resembles(k, z) /\ z.failed /\ z.headers = k.headers /\ z.headerSize = k.headerSize
      BY <1>6 DEF Resembles, DecoderObjects, Fail
    <3> HIDE DEF z
    <3>4. Resembles(d, r) /\ Truncated(r) /\ r.headers = d.headers /\ r.failed
      BY <1>6, <3>1, <3>2, <3>3 DEF Resembles, Truncated
    <3>5. Cut(d, f, type, r)
      BY <3>2, <3>4 DEF Cut
    <3> QED
      BY <3>4, <3>5 DEF Outcome, r
  <2>3. CASE m.name # EMPTY
    <3> DEFINE a == AddHeader(k, f, s)
    <3>1. m.name = f.name /\ m.table = d.table
          /\ (m.headerSize = d.headerSize \/ (Truncated(m) /\ TooMuch(d, f)))
      BY <2>3 DEF Named
    <3>2. g = f /\ f.name # EMPTY
      BY <3>1, Lengths
    <3> HIDE DEF g
    <3>3. s \in BOOLEAN
      OBVIOUS
    <3>4. r = IF type = "INCREMENTAL" THEN [a EXCEPT !.table = Fit(<<f>> \o @, a.capacity)] ELSE a
      BY <2>1, <3>2 DEF InsertHeader
    <3> HIDE DEF s
    <3>5. /\ Resembles(k, a) /\ a.table = k.table /\ a.failed = k.failed
          /\ IF k.headerSize + Bytes(f) <= MaxHeaderSize
             THEN a.headers = Append(k.headers, <<f, s>>) /\ a.headerSize = k.headerSize + Bytes(f)
             ELSE a.headers = k.headers /\ a.headerSize = MaxHeaderSize + 1
      BY <1>6, <3>3, AddsHeader
    <3> HIDE DEF a
    <3>6. /\ Resembles(d, a) /\ a \in DecoderObjects /\ a.table = d.table /\ ~a.failed
          /\ a.capacity = d.capacity
      BY <1>5, <1>6, <3>1, <3>5 DEF Resembles
    <3>7. /\ Resembles(d, r) /\ ~r.failed /\ r.headers = a.headers /\ r.headerSize = a.headerSize
          /\ r.table = IF type = "INCREMENTAL" THEN Fit(<<f>> \o d.table, d.capacity) ELSE d.table
      <4>1. CASE type = "INCREMENTAL"
        <5> DEFINE t == Fit(<<f>> \o d.table, d.capacity)
        <5>1. r = [a EXCEPT !.table = t]
          BY <3>4, <3>6, <4>1
        <5>2. t \in Seq(Fields)
          <6>1. d.table \in Seq(Fields) /\ d.capacity \in Nat
            BY DEF DecoderObjects
          <6>2. <<f>> \o d.table \in Seq(Fields)
            BY <6>1, PrependPoints
          <6> QED
            BY <6>1, <6>2, FitType
        <5> HIDE DEF t
        <5>3. /\ Resembles(a, r) /\ r.failed = a.failed /\ r.headers = a.headers
              /\ r.headerSize = a.headerSize /\ r.table = t
          BY <3>6, <5>1, <5>2 DEF Resembles, DecoderObjects
        <5> QED
          BY <3>6, <4>1, <5>3 DEF Resembles, t
      <4>2. CASE type # "INCREMENTAL"
        BY <3>4, <3>6, <4>2
      <4> QED
        BY <4>1, <4>2
    <3>8. CASE Truncated(k)
      <4>1. a.headers = k.headers /\ a.headerSize = MaxHeaderSize + 1
        <5>1. k.headerSize \in Nat /\ k.headerSize > MaxHeaderSize
          BY <1>6, <3>8 DEF Truncated, DecoderObjects
        <5>2. ~(k.headerSize + Bytes(f) <= MaxHeaderSize)
          BY <1>2, <5>1
        <5> QED
          BY <3>5, <5>2
      <4>2. Truncated(r) /\ r.headers = d.headers /\ TooMuch(d, f)
        BY <1>2, <1>6, <1>8, <3>7, <3>8, <4>1 DEF Truncated
      <4>3. Cut(d, f, type, r)
        BY <3>7, <4>2 DEF Cut
      <4> QED
        BY <3>7, <4>3 DEF Outcome, r, s
    <3>9. CASE ~Truncated(k)
      <4>1. k.headerSize = d.headerSize
        <5>1. length + m.headerSize <= MaxHeaderSize
          BY <1>5, <3>9
        <5>2. k.headerSize = m.headerSize
          BY <1>5, <5>1
        <5> QED
          BY <1>7, <3>1, <3>9, <5>2
      <4>2. CASE d.headerSize + Bytes(f) <= MaxHeaderSize
        <5>1. r.headers = Append(d.headers, <<f, s>>) /\ r.headerSize = d.headerSize + Bytes(f)
          BY <1>6, <3>5, <3>7, <4>1, <4>2
        <5>2. ~Truncated(r)
          BY <1>2, <4>2, <5>1 DEF Truncated
        <5>3. Given(d, f, s, type, r)
          BY <3>7, <5>1, <5>2 DEF Given
        <5> QED
          BY <3>7, <5>3 DEF Outcome, r, s
      <4>3. CASE ~(d.headerSize + Bytes(f) <= MaxHeaderSize)
        <5>1. r.headers = d.headers /\ r.headerSize = MaxHeaderSize + 1
          BY <1>6, <3>5, <3>7, <4>1, <4>3
        <5>2. Truncated(r) /\ TooMuch(d, f)
          BY <1>2, <4>3, <5>1, TooMuchWhen DEF Truncated
        <5>3. Cut(d, f, type, r)
          BY <3>7, <5>1, <5>2 DEF Cut
        <5> QED
          BY <3>7, <5>3 DEF Outcome, r, s
      <4> QED
        BY <4>2, <4>3
    <3> QED
      BY <3>8, <3>9
  <2> QED
    BY <2>2, <2>3
<1> QED
  BY <1>9, <1>10

-----------------------------------------------------------------------------
(* What the encoder writes for a field.                                    *)

\* The index is one of the static table and of the dynamic table T.
InTables(T, i) == i \in Int /\ i >= 1 /\ i <= Len(StaticTable) + Len(T)

EntryAt(T, i) == IF i <= Len(StaticTable) THEN StaticTable[i] ELSE T[i - Len(StaticTable)]

Types == {"NONE", "NEVER", "INCREMENTAL"}

\* With T as its table a decoder reads the field f from r.
Says(r, T, f, sensitive, type) ==
  \/ /\ type = "NONE" /\ sensitive = FALSE
     /\ \E i : InTables(T, i) /\ EntryAt(T, i) = f /\ r = Indexed(i)
  \/ /\ type \in Types /\ sensitive = (type = "NEVER")
     /\ \E i : /\ i = -1 \/ (InTables(T, i) /\ EntryAt(T, i).name = f.name)
               /\ r = Literal(type, i, f)

\* While a block is packed no index has fallen below zero.
LEMMA IndicesNatural ==
  ASSUME EncoderInv, phase = "packed"
  PROVE  \A x \in Range(encoder.chain) : x.index >= 0
<1> DEFINE m == blocks * MaxFields
           k == MaxBlocks - blocks - 1
           km == k * MaxFields
           mm == MaxBlocks * MaxFields
<1>1. /\ MaxFields \in Nat /\ MaxBlocks \in Nat /\ MaxIndex \in Nat /\ blocks \in Nat
      /\ Len(packed) \in Nat /\ Len(packed) <= MaxFields /\ mm <= MaxIndex
      /\ blocks < MaxBlocks
  BY HeaderBlocksAssumption, HPackEncoderAssumption DEF EncoderInv
<1>2. k \in Nat /\ m \in Nat
  BY <1>1
<1>3. km \in Nat
  BY <1>1, <1>2
<1>4. mm = m + MaxFields + km
  <2>1. MaxBlocks = blocks + 1 + k
    BY <1>1
  <2>2. \A b, c, d \in Nat : (b + 1 + c) * d = b * d + d + c * d
    OBVIOUS
  <2> HIDE DEF k
  <2> QED
    BY <1>1, <1>2, <2>1, <2>2
<1>5. Lowest = MaxIndex - (m + Len(packed))
  BY DEF Lowest
<1> HIDE DEF m, km, mm
<1>6. Lowest \in Int /\ Lowest >= 0
  BY <1>1, <1>2, <1>3, <1>4, <1>5
<1>7. \A x \in Range(encoder.chain) : x.index \in Int /\ x.index >= Lowest
  BY IndicesOfChain DEF EncoderInv
<1> QED
  BY <1>6, <1>7

LEMMA StaticEntry ==
  ASSUME NEW T, Len(T) \in Nat, NEW i \in 1 .. Len(StaticTable)
  PROVE  InTables(T, i) /\ EntryAt(T, i) = StaticTable[i]
<1>1. Len(StaticTable) \in Nat
  BY FoundStatic
<1> QED
  BY <1>1 DEF InTables, EntryAt

LEMMA DynamicEntry ==
  ASSUME NEW T, Len(T) \in Nat, NEW i \in Int, i - Len(StaticTable) \in 1 .. Len(T)
  PROVE  InTables(T, i) /\ EntryAt(T, i) = T[i - Len(StaticTable)]
<1> DEFINE n == Len(StaticTable)
<1>1. n \in Nat /\ i - n \in 1 .. Len(T)
  BY FoundStatic
<1> HIDE DEF n
<1>2. i >= 1 /\ i <= n + Len(T) /\ ~(i <= n)
  BY <1>1
<1> QED
  BY <1>2 DEF InTables, EntryAt, n

LEMMA NameSaid ==
  ASSUME NEW e \in EncoderObjects, Linked(e), \A x \in Range(e.chain) : x.index >= 0,
         NEW f \in Fields, NEW type \in Types
  PROVE  /\ Says(Literal(type, GetNameIndex(e, f.name), f), TableOf(e), f, type = "NEVER", type)
         /\ Says(Literal(type, StaticNameIndex(f.name), f), TableOf(e), f, type = "NEVER", type)
<1> DEFINE T == TableOf(e)
           i == GetNameIndex(e, f.name)
           j == StaticNameIndex(f.name)
<1>1. Len(T) \in Nat /\ f.name \in Names
  BY TableFacts, Lengths
<1>2. i = -1 \/ (InTables(T, i) /\ EntryAt(T, i).name = f.name)
  <2>1. CASE i # -1
    <3>1. \/ i \in 1 .. Len(StaticTable) /\ StaticTable[i].name = f.name
          \/ /\ i - Len(StaticTable) \in 1 .. Len(T) /\ i \in Int
             /\ T[i - Len(StaticTable)].name = f.name
      BY <1>1, <2>1, FoundName
    <3> HIDE DEF i, T
    <3> QED
      BY <1>1, <3>1, StaticEntry, DynamicEntry
  <2> QED
    BY <2>1
<1>3. j = -1 \/ (InTables(T, j) /\ EntryAt(T, j).name = f.name)
  <2>1. j = -1 \/ (j \in 1 .. Len(StaticTable) /\ StaticTable[j].name = f.name)
    BY FoundStatic
  <2> HIDE DEF j, T
  <2> QED
    BY <1>1, <2>1, StaticEntry
<1> HIDE DEF i, j, T
<1>4. /\ Says(Literal(type, i, f), T, f, type = "NEVER", type)
      /\ Says(Literal(type, j, f), T, f, type = "NEVER", type)
  BY <1>2, <1>3, Zenon DEF Says
<1> QED
  BY <1>4 DEF i, j, T

\* EncodeHeader writes one representation, of the field it was given.
LEMMA Encodes ==
  ASSUME EncoderInv, phase = "packed",
         NEW f \in Fields, NEW sensitive \in BOOLEAN, EncodeHeader(f, sensitive)
  PROVE  \E r, type :
           /\ type \in Types
           /\ Says(r, EncoderTable, f, sensitive, type)
           /\ block' = Append(block, r)
           /\ IF type = "INCREMENTAL"
              THEN /\ SizeOf(f) <= encoder.capacity
                   /\ encoder' = Add(EnsureCapacity(encoder, SizeOf(f)), f)
              ELSE encoder' = encoder
<1> DEFINE T == TableOf(encoder)
           Wanted(r, type) ==
             /\ type \in Types
             /\ Says(r, T, f, sensitive, type)
             /\ block' = Append(block, r)
             /\ IF type = "INCREMENTAL"
                THEN /\ SizeOf(f) <= encoder.capacity
                     /\ encoder' = Add(EnsureCapacity(encoder, SizeOf(f)), f)
                ELSE encoder' = encoder
           i == GetNameIndex(encoder, f.name)
           j == StaticNameIndex(f.name)
<1> SUFFICES \E r, type : Wanted(r, type)
  BY Zenon DEF EncoderTable
<1>1. /\ encoder \in EncoderObjects /\ Linked(encoder)
      /\ \A x \in Range(encoder.chain) : x.index >= 0
  BY IndicesNatural DEF EncoderInv
<1>2. Len(T) \in Nat
  BY <1>1, TableFacts
<1>3. \A type \in Types : /\ Says(Literal(type, i, f), T, f, type = "NEVER", type)
                          /\ Says(Literal(type, j, f), T, f, type = "NEVER", type)
  BY <1>1, NameSaid
<1> HIDE DEF T, i, j, Wanted
<1>4. ASSUME sensitive, EncodeSensitive(f)
      PROVE  \E r, type : Wanted(r, type)
  <2>1. "NEVER" \in Types /\ sensitive = ("NEVER" = "NEVER")
    BY <1>4 DEF Types
  <2>2. Wanted(Literal("NEVER", i, f), "NEVER")
    BY <1>3, <1>4, <2>1 DEF EncodeSensitive, Write, i, Wanted
  <2> QED
    BY <2>2
<1>5. CASE ~sensitive
  <2>1. sensitive = FALSE /\ "NONE" \in Types /\ "INCREMENTAL" \in Types
        /\ ("NONE" = "NEVER") = FALSE /\ ("INCREMENTAL" = "NEVER") = FALSE
    BY <1>5 DEF Types
  <2>2. ASSUME NEW k, InTables(T, k), EntryAt(T, k) = f
        PROVE  Says(Indexed(k), T, f, sensitive, "NONE")
    BY <2>1, <2>2, Zenon DEF Says
  <2>3. StaticIndex(f) # -1 => Says(Indexed(StaticIndex(f)), T, f, sensitive, "NONE")
    <3>1. ASSUME StaticIndex(f) # -1
          PROVE  Says(Indexed(StaticIndex(f)), T, f, sensitive, "NONE")
      <4>1. StaticIndex(f) \in 1 .. Len(StaticTable) /\ StaticTable[StaticIndex(f)] = f
        BY <3>1, FoundStatic
      <4>2. InTables(T, StaticIndex(f)) /\ EntryAt(T, StaticIndex(f)) = f
        BY <1>2, <4>1, StaticEntry
      <4> QED
        BY <2>2, <4>2
    <3> QED
      BY <3>1
  <2>4. /\ Says(Literal("NONE", i, f), T, f, sensitive, "NONE")
        /\ Says(Literal("NONE", j, f), T, f, sensitive, "NONE")
        /\ Says(Literal("INCREMENTAL", i, f), T, f, sensitive, "INCREMENTAL")
    BY <1>3, <2>1
  <2>5. CASE EncodeStaticOnly(f)
    <3>1. CASE StaticIndex(f) # -1
      <4>1. Wanted(Indexed(StaticIndex(f)), "NONE")
        BY <2>1, <2>3, <2>5, <3>1 DEF EncodeStaticOnly, Write, Wanted
      <4> QED
        BY <4>1
    <3>2. CASE StaticIndex(f) = -1
      <4>1. Wanted(Literal("NONE", j, f), "NONE")
        BY <2>1, <2>4, <2>5, <3>2 DEF EncodeStaticOnly, Write, j, Wanted
      <4> QED
        BY <4>1
    <3> QED
      BY <3>1, <3>2
  <2>6. CASE EncodeTooLarge(f)
    <3>1. Wanted(Literal("NONE", i, f), "NONE")
      BY <2>1, <2>4, <2>6 DEF EncodeTooLarge, Write, i, Wanted
    <3> QED
      BY <3>1
  <2>7. CASE EncodeFound(f)
    <3> DEFINE place == GetIndex(encoder, InBucket(encoder, f.name)[GetEntry(encoder, f)].index)
               n == Len(StaticTable)
    <3>1. GetEntry(encoder, f) # 0 /\ encoder' = encoder
          /\ block' = Append(block, Indexed(place + n))
      BY <2>7 DEF EncodeFound, Write
    <3>2. place \in 1 .. Len(T) /\ T[place] = f
      BY <1>1, <3>1, FoundEntry DEF T
    <3>3. n \in Nat
      BY FoundStatic
    <3> HIDE DEF place
    <3>4. place + n \in Int /\ (place + n) - n = place
      BY <1>2, <3>2, <3>3
    <3>5. InTables(T, place + n) /\ EntryAt(T, place + n) = f
      BY <1>2, <3>2, <3>4, DynamicEntry
    <3>6. Says(Indexed(place + n), T, f, sensitive, "NONE")
      BY <2>2, <3>5
    <3>7. Wanted(Indexed(place + n), "NONE")
      BY <2>1, <3>1, <3>6 DEF Wanted
    <3> QED
      BY <3>7
  <2>8. CASE EncodeStatic(f)
    <3>1. Wanted(Indexed(StaticIndex(f)), "NONE")
      BY <2>1, <2>3, <2>8 DEF EncodeStatic, Write, Wanted
    <3> QED
      BY <3>1
  <2>9. CASE EncodeIncremental(f)
    <3>1. Wanted(Literal("INCREMENTAL", i, f), "INCREMENTAL")
      BY <2>1, <2>4, <2>9 DEF EncodeIncremental, Fits, Write, i, Wanted
    <3> QED
      BY <3>1
  <2> QED
    BY <1>5, <2>5, <2>6, <2>7, <2>8, <2>9 DEF EncodeHeader
<1> QED
  BY <1>4, <1>5 DEF EncodeHeader

-----------------------------------------------------------------------------
(* What the decoder may have become and what it still has in common with   *)
(* the encoder: the fields p are packed, x tells whether some block was    *)
(* truncated, m what is renewed.                                           *)

Broken(d, x) == x \/ Truncated(d)

Unsig(d, m) == m = "encoder" /\ d.changeRequired

TooLarge(p) == \E n \in Names : Weight(p) + WireLength[n] > MaxHeaderSize

Sound(d, p, x, m) ==
  /\ d \in DecoderObjects
  /\ d.failed => Broken(d, x) \/ Unsig(d, m)
  /\ IsPrefix(d.headers, p)
  /\ Truncated(d) => TooLarge(p)

\* All the fields that were packed are delivered, unless the block is truncated.
Holds(d, p) == ~Truncated(d) => d.headers = p /\ d.headerSize = Weight(p)

\* The sizes of the table that the decoder knows of, with c that of the encoder.
Capacity(d, c, a, m) ==
  /\ d.encoderMaxDynamicTableSize = c
  /\ IF m = "encoder" THEN ~d.changeRequired => d.capacity = c
     ELSE IF a = <<>>
     THEN d.capacity = c /\ d.maxDynamicTableSize = c /\ ~d.changeRequired
     ELSE /\ d.maxDynamicTableSize = Head(a)
          /\ d.changeRequired <=> Head(a) < c
          /\ d.capacity = IF Head(a) < c THEN Head(a) ELSE c

\* The tables of a decoder and of an encoder, unless the decoder is broken.
SameTables(d, T, m) ==
  IF m = "encoder" THEN IsPrefix(T, d.table) ELSE d.table = Fit(T, d.capacity)

\* The decoder has read all that the encoder wrote, and T and c are its table and
\* capacity.
Synced(d, T, c, p, a, x, m) ==
  ~d.failed =>
    /\ Holds(d, p)
    /\ Comparable(d.table, T)
    /\ ~Broken(d, x) /\ ~Unsig(d, m) => SameTables(d, T, m)
    /\ Capacity(d, c, a, m)

\* What Decode makes of r.
Reads(d, r) ==
  IF d.failed THEN d
  ELSE IF r.rep = "update" THEN SetDynamicTableSize(d, r.size)
  ELSE IF d.changeRequired THEN Fail(d)
  ELSE IF r.rep = "indexed"
       THEN IF Legal(d, r.index) THEN AddHeader(d, FieldAt(d, r.index), FALSE) ELSE Fail(d)
  ELSE ReadLiteral(d, r)

LEMMA PrefixAppended ==
  ASSUME NEW h \in Seq(Pairs), NEW p \in Seq(Pairs), IsPrefix(h, p), NEW y \in Pairs
  PROVE  IsPrefix(h, Append(p, y))
<1> DEFINE q == Append(p, y)
           n == Len(h)
<1>1. n \in Nat /\ Len(p) \in Nat /\ n <= Len(p) /\ \A i \in 1 .. n : h[i] = p[i]
  BY LenProperties, PrefixPoints
<1>2. q \in Seq(Pairs) /\ Len(q) = Len(p) + 1 /\ \A i \in 1 .. Len(p) : q[i] = p[i]
  BY AppendProperties
<1> HIDE DEF q
<1>3. n <= Len(q)
  BY <1>1, <1>2
<1>4. ASSUME NEW i \in 1 .. n PROVE h[i] = q[i]
  <2>1. i \in 1 .. Len(p)
    BY <1>1
  <2> QED
    BY <1>1, <1>2, <2>1
<1>5. IsPrefix(h, q)
  BY <1>2, <1>3, <1>4, PrefixPoints
<1> QED
  BY <1>5 DEF q

\* Another field in the block does not make what was sound unsound.
LEMMA SoundGrows ==
  ASSUME NEW p \in Seq(Pairs), NEW f \in Fields, NEW s \in BOOLEAN, NEW d, NEW x, NEW m,
         Sound(d, p, x, m)
  PROVE  Sound(d, Append(p, <<f, s>>), x, m)
<1> DEFINE y == <<f, s>>
           q == Append(p, y)
<1>1. q \in Seq(Pairs) /\ Weight(q) = Weight(p) + Bytes(f) /\ Weight(p) \in Nat /\ Bytes(f) \in Nat
  BY WeightOfMore
<1>2. IsPrefix(d.headers, q)
  <2>1. d.headers \in Seq(Pairs) /\ IsPrefix(d.headers, p) /\ y \in Pairs
    BY DEF Sound, DecoderObjects, Pairs
  <2> HIDE DEF y
  <2> QED
    BY <2>1, PrefixAppended
<1> HIDE DEF q
<1>3. TooLarge(p) => TooLarge(q)
  <2>1. ASSUME NEW n \in Names, Weight(p) + WireLength[n] > MaxHeaderSize
        PROVE  Weight(q) + WireLength[n] > MaxHeaderSize
    <3>1. WireLength[n] \in Nat /\ MaxHeaderSize \in Nat
      BY Lengths
    <3> QED
      BY <1>1, <2>1, <3>1
  <2> QED
    BY <2>1 DEF TooLarge
<1> QED
  BY <1>2, <1>3 DEF Sound, q

\* A decoder that is given f or is cut off there is sound with f in the block.
LEMMA OutcomeSound ==
  ASSUME NEW p \in Seq(Pairs), NEW f \in Fields, NEW s \in BOOLEAN, NEW type, NEW x, NEW m,
         NEW d \in DecoderObjects, Sound(d, p, x, m), Holds(d, p),
         NEW r, Outcome(d, f, s, type, r), NEW q, q = Append(p, <<f, s>>)
  PROVE  Sound(r, q, x, m) /\ Holds(r, q)
<1>1. q \in Seq(Pairs) /\ Weight(q) = Weight(p) + Bytes(f) /\ Weight(p) \in Nat /\ Bytes(f) \in Nat
  BY WeightOfMore
<1>2. Sound(d, q, x, m)
  BY SoundGrows
<1>3. d.headerSize \in Nat /\ MaxHeaderSize \in Nat /\ r \in DecoderObjects
  BY Lengths DEF DecoderObjects, Outcome, Resembles
<1>4. CASE Given(d, f, s, type, r)
  <2>1. ~Truncated(r) /\ ~r.failed /\ r.headers = Append(d.headers, <<f, s>>)
        /\ r.headerSize = d.headerSize + Bytes(f)
    BY <1>4 DEF Given
  <2>2. ~Truncated(d)
    BY <1>1, <1>3, <2>1 DEF Truncated
  <2>3. r.headers = q /\ r.headerSize = Weight(q)
    BY <1>1, <2>1, <2>2 DEF Holds
  <2>4. IsPrefix(r.headers, q)
    BY <1>1, <2>3, SelfPrefix
  <2> QED
    BY <1>3, <2>1, <2>3, <2>4 DEF Sound, Holds
<1>5. CASE Cut(d, f, type, r)
  <2>1. Truncated(r) /\ TooMuch(d, f) /\ r.headers = d.headers
    BY <1>5 DEF Cut
  <2>2. IsPrefix(r.headers, q)
    BY <1>2, <2>1 DEF Sound
  <2>3. TooLarge(q)
    <3>1. CASE Truncated(d)
      BY <1>2, <3>1 DEF Sound
    <3>2. CASE ~Truncated(d)
      <4>1. d.headerSize + Bytes(f) = Weight(q)
        BY <1>1, <3>2 DEF Holds
      <4> QED
        BY <2>1, <4>1 DEF TooMuch, TooLarge
    <3> QED
      BY <3>1, <3>2
  <2>4. Sound(r, q, x, m)
    BY <1>3, <2>1, <2>2, <2>3 DEF Sound, Broken
  <2> QED
    BY <2>1, <2>4 DEF Holds
<1> QED
  BY <1>4, <1>5 DEF Outcome

\* A decoder that throws is sound if there is a reason for it.
LEMMA FailSound ==
  ASSUME NEW d, NEW p, NEW x, NEW m, Sound(d, p, x, m), Broken(d, x) \/ Unsig(d, m)
  PROVE  Sound(Fail(d), p, x, m) /\ Fail(d).failed
<1> DEFINE r == Fail(d)
<1>1. d \in DecoderObjects
  BY DEF Sound
<1>2. /\ r \in DecoderObjects /\ r.failed /\ r.headers = d.headers
      /\ r.headerSize = d.headerSize /\ r.changeRequired = d.changeRequired
  BY <1>1 DEF Fail, DecoderObjects
<1> HIDE DEF r
<1>3. Sound(r, p, x, m)
  BY <1>2 DEF Sound, Broken, Unsig, Truncated
<1> QED
  BY <1>2, <1>3 DEF r

\* An index of the encoder's is one of the decoder's, with the same entry, unless
\* the decoder is broken.
LEMMA SameEntry ==
  ASSUME NEW d \in DecoderObjects, NEW T \in Seq(Fields), Comparable(d.table, T),
         NEW x, NEW m,
         ~Broken(d, x) => IsPrefix(T, d.table) \/ d.table = T,
         NEW i, InTables(T, i)
  PROVE  \/ Legal(d, i) /\ FieldAt(d, i) = EntryAt(T, i)
         \/ ~Legal(d, i) /\ Broken(d, x)
<1> DEFINE n == Len(StaticTable)
           t == d.table
<1>1. n \in Nat /\ t \in Seq(Fields) /\ Len(t) \in Nat /\ Len(T) \in Nat
  BY FoundStatic, LenProperties DEF DecoderObjects
<1>2. i \in Int /\ i >= 1 /\ i <= n + Len(T)
  BY DEF InTables
<1>3. Legal(d, i) <=> i <= n + Len(t)
  BY <1>2 DEF Legal
<1>4. FieldAt(d, i) = (IF i <= n THEN StaticTable[i] ELSE t[i - n])
      /\ EntryAt(T, i) = (IF i <= n THEN StaticTable[i] ELSE T[i - n])
  BY DEF FieldAt, EntryAt
<1> HIDE DEF n, t
<1>5. CASE i <= n + Len(t)
  <2>1. CASE i <= n
    BY <1>3, <1>4, <1>5, <2>1
  <2>2. CASE ~(i <= n)
    <3> DEFINE k == i - n
    <3>1. k \in Nat /\ k \in 1 .. Len(t) /\ k \in 1 .. Len(T)
      BY <1>1, <1>2, <1>5, <2>2
    <3> HIDE DEF k
    <3>2. t[k] = T[k]
      BY <1>1, <3>1, ComparablePoints DEF t
    <3> QED
      BY <1>3, <1>4, <1>5, <2>2, <3>2 DEF k
  <2> QED
    BY <2>1, <2>2
<1>6. CASE ~(i <= n + Len(t))
  <2>1. Broken(d, x)
    <3>1. ASSUME Len(T) <= Len(t) PROVE FALSE
      BY <1>1, <1>2, <1>6, <3>1
    <3>2. IsPrefix(T, t) => Len(T) <= Len(t)
      BY <1>1, PrefixPoints
    <3>3. t = T => Len(T) <= Len(t)
      BY <1>1
    <3> QED
      BY <3>1, <3>2, <3>3 DEF t
  <2> QED
    BY <1>3, <1>6, <2>1
<1> QED
  BY <1>5, <1>6

\* From what the encoder says of a field, the decoder takes that field, is cut off
\* there, or was broken and throws.
LEMMA ReadsField ==
  ASSUME NEW d \in DecoderObjects, ~d.failed, ~d.changeRequired,
         NEW T \in Seq(Fields), Comparable(d.table, T), NEW x, NEW m,
         ~Broken(d, x) => IsPrefix(T, d.table) \/ d.table = T,
         NEW f \in Fields, NEW s \in BOOLEAN, NEW type, NEW r, Says(r, T, f, s, type)
  PROVE  \/ Outcome(d, f, s, type, Reads(d, r))
         \/ Reads(d, r) = Fail(d) /\ Broken(d, x)
<1>1. ASSUME NEW i, InTables(T, i), EntryAt(T, i) = f, r = Indexed(i),
             type = "NONE", s = FALSE
      PROVE  \/ Outcome(d, f, s, type, Reads(d, r))
             \/ Reads(d, r) = Fail(d) /\ Broken(d, x)
  <2>1. r.rep = "indexed" /\ r.index = i
    BY <1>1 DEF Indexed
  <2>2. Reads(d, r) = IF Legal(d, i) THEN AddHeader(d, FieldAt(d, i), FALSE) ELSE Fail(d)
    BY <2>1 DEF Reads
  <2>3. CASE Legal(d, i) /\ FieldAt(d, i) = EntryAt(T, i)
    BY <1>1, <2>2, <2>3, ReadsIndexed
  <2>4. CASE ~Legal(d, i) /\ Broken(d, x)
    BY <2>2, <2>4
  <2> QED
    BY <1>1, <2>3, <2>4, SameEntry
<1>2. ASSUME NEW i, i = -1 \/ (InTables(T, i) /\ EntryAt(T, i).name = f.name),
             r = Literal(type, i, f), type \in Types, s = (type = "NEVER")
      PROVE  \/ Outcome(d, f, s, type, Reads(d, r))
             \/ Reads(d, r) = Fail(d) /\ Broken(d, x)
  <2>1. /\ r.rep = "literal" /\ r.type = type /\ r.value = f.value
        /\ r.index = (IF i = -1 THEN 0 ELSE i)
        /\ r.name = IF i = -1 THEN f.name ELSE EMPTY
    BY <1>2 DEF Literal
  <2>2. Reads(d, r) = ReadLiteral(d, r)
    BY <2>1 DEF Reads
  <2>3. CASE i = -1
    <3> DEFINE k == ReadLiteralName(d, f.name, type)
    <3>1. Named(d, f, type, k)
      BY ReadsLiteralName
    <3> HIDE DEF k
    <3>2. ~k.failed
      BY <3>1 DEF Named
    <3>3. ReadLiteral(d, r) = ReadValue(k, f.value, type)
      BY <2>1, <2>3, <3>2 DEF ReadLiteral, k
    <3> QED
      BY <1>2, <2>2, <3>1, <3>3, ReadsValue
  <2>4. CASE i # -1
    <3>1. InTables(T, i) /\ EntryAt(T, i).name = f.name /\ r.index = i /\ i # 0
      BY <1>2, <2>1, <2>4 DEF InTables
    <3> DEFINE k == ReadName(d, i)
    <3>2. ReadLiteral(d, r) = IF k.failed THEN k ELSE ReadValue(k, f.value, type)
      BY <2>1, <3>1 DEF ReadLiteral
    <3>3. CASE Legal(d, i) /\ FieldAt(d, i) = EntryAt(T, i)
      <4>1. Named(d, f, type, k)
        BY <3>1, <3>3, ReadsName
      <4> HIDE DEF k
      <4>2. ~k.failed
        BY <4>1 DEF Named
      <4> QED
        BY <1>2, <2>2, <3>2, <4>1, <4>2, ReadsValue
    <3>4. CASE ~Legal(d, i) /\ Broken(d, x)
      <4>1. k = Fail(d)
        BY <3>4 DEF ReadName
      <4>2. Fail(d).failed
        BY DEF Fail, DecoderObjects
      <4> HIDE DEF k
      <4> QED
        BY <2>2, <3>2, <3>4, <4>1, <4>2
    <3> QED
      BY <3>1, <3>3, <3>4, SameEntry
  <2> QED
    BY <2>3, <2>4
<1> QED
  BY <1>1, <1>2 DEF Says

\* One more field: the decoder that reads it stays sound and in step.
LEMMA FieldInStep ==
  ASSUME NEW p \in Seq(Pairs), NEW f \in Fields, NEW s \in BOOLEAN, NEW type \in Types,
         NEW x, NEW m, NEW T \in Seq(Fields), NEW c \in Nat, TotalSize(T) <= c,
         NEW d, Sound(d, p, x, m), Synced(d, T, c, p, <<>>, x, m),
         NEW r, Says(r, T, f, s, type),
         NEW U, U = IF type = "INCREMENTAL" THEN Fit(<<f>> \o T, c) ELSE T
  PROVE  /\ Sound(Reads(d, r), Append(p, <<f, s>>), x, m)
         /\ Synced(Reads(d, r), U, c, Append(p, <<f, s>>), <<>>, x, m)
<1> DEFINE q == Append(p, <<f, s>>)
           e == Reads(d, r)
<1>1. d \in DecoderObjects /\ Sound(d, q, x, m)
  BY SoundGrows DEF Sound
<1>2. r.rep # "update"
  BY DEF Says, Indexed, Literal
<1>3. CASE d.failed
  <2>1. e = d
    BY <1>3 DEF Reads
  <2> QED
    BY <1>1, <1>3, <2>1 DEF Synced
<1>4. CASE ~d.failed /\ d.changeRequired
  <2>1. e = Fail(d)
    BY <1>2, <1>4 DEF Reads
  <2>2. Unsig(d, m)
    BY <1>4 DEF Synced, Capacity, Unsig
  <2> QED
    BY <1>1, <2>1, <2>2, FailSound DEF Synced
<1>5. CASE ~d.failed /\ ~d.changeRequired
  <2>1. /\ Comparable(d.table, T) /\ d.capacity = c /\ Capacity(d, c, <<>>, m)
        /\ Holds(d, p)
        /\ ~Broken(d, x) => SameTables(d, T, m)
    BY <1>5 DEF Synced, Capacity, Unsig
  <2>2. ~Broken(d, x) => IsPrefix(T, d.table) \/ d.table = T
    <3>1. Fit(T, c) = T
      BY FitWhole
    <3> QED
      BY <2>1, <3>1 DEF SameTables
  <2>3. Outcome(d, f, s, type, e) \/ (e = Fail(d) /\ Broken(d, x))
    BY <1>1, <1>5, <2>1, <2>2, ReadsField
  <2>4. CASE e = Fail(d) /\ Broken(d, x)
    BY <1>1, <2>4, FailSound DEF Synced
  <2>5. CASE Outcome(d, f, s, type, e)
    <3> HIDE DEF e
    <3>1. Sound(e, q, x, m) /\ Holds(e, q)
      <4>1. q = Append(p, <<f, s>>)
        OBVIOUS
      <4> HIDE DEF q
      <4> QED
        BY <1>1, <2>1, <2>5, <4>1, OutcomeSound
    <3> HIDE DEF q
    <3>2. Capacity(e, c, <<>>, m) /\ e.capacity = c /\ e.changeRequired = d.changeRequired
      BY <2>1, <2>5 DEF Outcome, Resembles, Capacity
    <3>3. d.table \in Seq(Fields) /\ <<f>> \o d.table \in Seq(Fields) /\ <<f>> \o T \in Seq(Fields)
      BY <1>1, PrependPoints DEF DecoderObjects
    <3>4. U \in Seq(Fields) /\ TotalSize(U) <= c
      BY <3>3, FitType
    <3> DEFINE t == IF type = "INCREMENTAL" THEN Fit(<<f>> \o d.table, c) ELSE d.table
    <3>5. Comparable(t, U)
      <4>1. CASE type = "INCREMENTAL"
        <5>1. Comparable(<<f>> \o d.table, <<f>> \o T)
          BY <2>1, <3>3, ComparablePrepended
        <5> QED
          BY <3>3, <4>1, <5>1, ComparableFits
      <4>2. CASE type # "INCREMENTAL"
        BY <2>1, <4>2
      <4> QED
        BY <4>1, <4>2
    <3>6. ASSUME ~e.failed PROVE e.table = t \/ e.table = <<>>
      BY <2>1, <2>5, <3>6 DEF Outcome, Given, Cut
    <3>7. ASSUME ~e.failed PROVE Comparable(e.table, U)
      BY <3>4, <3>5, <3>6, <3>7, NoneComparable
    <3>8. ASSUME ~e.failed, ~Broken(e, x), ~Unsig(e, m)
          PROVE  SameTables(e, U, m)
      <4>1. Given(d, f, s, type, e) /\ e.table = t
        BY <2>1, <2>5, <3>8 DEF Outcome, Given, Cut, Broken
      <4>2. ~Truncated(d)
        <5>1. d.headerSize \in Nat /\ Bytes(f) \in Nat /\ MaxHeaderSize \in Nat
          BY <1>1, Lengths DEF DecoderObjects
        <5>2. e.headerSize = d.headerSize + Bytes(f) /\ ~(e.headerSize > MaxHeaderSize)
          BY <4>1 DEF Given, Truncated
        <5>3. ~(d.headerSize > MaxHeaderSize)
          BY ONLY <5>1, <5>2
        <5> QED
          BY <5>3 DEF Truncated
      <4>3. SameTables(d, T, m)
        BY <2>1, <3>8, <4>2 DEF Broken
      <4>4. CASE m = "encoder"
        <5>1. IsPrefix(T, d.table)
          BY <4>3, <4>4 DEF SameTables
        <5>2. IsPrefix(U, t)
          <6>1. CASE type = "INCREMENTAL"
            <7>1. IsPrefix(<<f>> \o T, <<f>> \o d.table)
              BY <3>3, <5>1, PrefixPrepended
            <7> QED
              BY <3>3, <6>1, <7>1, PrefixFits
          <6>2. CASE type # "INCREMENTAL"
            BY <5>1, <6>2
          <6> QED
            BY <6>1, <6>2
        <5> QED
          BY <4>1, <4>4, <5>2 DEF SameTables
      <4>5. CASE m # "encoder"
        <5>1. d.table = T
          <6>1. d.table = Fit(T, c)
            BY <2>1, <4>3, <4>5 DEF SameTables
          <6> QED
            BY <6>1, FitWhole
        <5>2. t = U
          BY <5>1
        <5>3. Fit(U, c) = U
          BY <3>4, FitWhole
        <5> QED
          BY <3>2, <4>1, <4>5, <5>2, <5>3 DEF SameTables
      <4> QED
        BY <4>4, <4>5
    <3> HIDE DEF t
    <3>9. Synced(e, U, c, q, <<>>, x, m)
      BY <3>1, <3>2, <3>7, <3>8 DEF Synced
    <3> QED
      BY <3>1, <3>9 DEF e, q
  <2> QED
    BY <2>3, <2>4, <2>5
<1> QED
  BY <1>3, <1>4, <1>5

-----------------------------------------------------------------------------
(* Changes of the size of the table.                                       *)

LEMMA SetsMax ==
  ASSUME NEW d \in DecoderObjects, NEW n \in Nat
  PROVE  LET r == DecoderSetMax(d, n)
         IN  /\ r \in DecoderObjects
             /\ r.encoderMaxDynamicTableSize = d.encoderMaxDynamicTableSize
             /\ r.maxDynamicTableSize = n
             /\ r.headers = d.headers /\ r.headerSize = d.headerSize /\ r.failed = d.failed
             /\ IF n < d.encoderMaxDynamicTableSize
                THEN r.changeRequired = TRUE /\ r.capacity = n /\ r.table = Fit(d.table, n)
                ELSE /\ r.changeRequired = d.changeRequired /\ r.capacity = d.capacity
                     /\ r.table = d.table
<1> DEFINE r == DecoderSetMax(d, n)
           k == [d EXCEPT !.maxDynamicTableSize = n]
           t == Fit(d.table, n)
<1>1. t \in Seq(Fields)
  <2>1. d.table \in Seq(Fields)
    BY DEF DecoderObjects
  <2> QED
    BY <2>1, FitType
<1>2. r = IF n < d.encoderMaxDynamicTableSize
          THEN SetCapacity([k EXCEPT !.changeRequired = TRUE], n) ELSE k
  BY DEF DecoderSetMax
<1>3. CASE n < d.encoderMaxDynamicTableSize
  <2> DEFINE z == [d EXCEPT !.maxDynamicTableSize = n, !.changeRequired = TRUE,
                            !.capacity = n, !.table = t]
  <2>1. SetCapacity([k EXCEPT !.changeRequired = TRUE], n) = z
    BY DEF SetCapacity, DecoderObjects
  <2>2. r = z
    BY <1>2, <1>3, <2>1
  <2> HIDE DEF t, r
  <2>3. /\ z \in DecoderObjects
        /\ z.encoderMaxDynamicTableSize = d.encoderMaxDynamicTableSize
        /\ z.maxDynamicTableSize = n /\ z.changeRequired = TRUE
        /\ z.capacity = n /\ z.table = t
        /\ z.headers = d.headers /\ z.headerSize = d.headerSize /\ z.failed = d.failed
    BY <1>1 DEF DecoderObjects
  <2> HIDE DEF z
  <2>4. r \in DecoderObjects
    BY <2>2, <2>3
  <2> QED
    BY <1>3, <2>2, <2>3, <2>4 DEF r, t
<1>4. CASE ~(n < d.encoderMaxDynamicTableSize)
  <2>1. r = k
    BY <1>2, <1>4
  <2> HIDE DEF r
  <2>2. /\ k \in DecoderObjects
        /\ k.encoderMaxDynamicTableSize = d.encoderMaxDynamicTableSize
        /\ k.maxDynamicTableSize = n /\ k.changeRequired = d.changeRequired
        /\ k.capacity = d.capacity /\ k.table = d.table
        /\ k.headers = d.headers /\ k.headerSize = d.headerSize /\ k.failed = d.failed
    BY DEF DecoderObjects
  <2> HIDE DEF k
  <2> QED
    BY <1>4, <2>1, <2>2 DEF r
<1> QED
  BY <1>3, <1>4

\* A size that the decoder is given and the encoder not yet, or never.
LEMMA SetsMaxInStep ==
  ASSUME NEW d, ~d.failed, NEW p, NEW x, NEW m \in {"none", "encoder"}, Sound(d, p, x, m),
         NEW T \in Seq(Fields), NEW c \in Nat, TotalSize(T) <= c,
         Synced(d, T, c, p, <<>>, x, m),
         NEW n \in Nat, NEW a, a = IF m = "none" THEN <<n>> ELSE <<>>
  PROVE  /\ Sound(DecoderSetMax(d, n), p, x, m)
         /\ Synced(DecoderSetMax(d, n), T, c, p, a, x, m)
<1> DEFINE r == DecoderSetMax(d, n)
<1>1. d \in DecoderObjects /\ d.table \in Seq(Fields)
  BY DEF Sound, DecoderObjects
<1>2. /\ r \in DecoderObjects
      /\ r.encoderMaxDynamicTableSize = d.encoderMaxDynamicTableSize
      /\ r.maxDynamicTableSize = n
      /\ r.headers = d.headers /\ r.headerSize = d.headerSize /\ r.failed = d.failed
      /\ IF n < d.encoderMaxDynamicTableSize
         THEN r.changeRequired = TRUE /\ r.capacity = n /\ r.table = Fit(d.table, n)
         ELSE /\ r.changeRequired = d.changeRequired /\ r.capacity = d.capacity
              /\ r.table = d.table
  BY <1>1, SetsMax
<1> HIDE DEF r
<1>3. /\ Holds(d, p) /\ Comparable(d.table, T) /\ Capacity(d, c, <<>>, m)
      /\ ~Broken(d, x) /\ ~Unsig(d, m) => SameTables(d, T, m)
      /\ d.encoderMaxDynamicTableSize = c
  BY DEF Synced, Capacity
<1>4. Sound(r, p, x, m) /\ Holds(r, p)
  BY <1>2, <1>3 DEF Sound, Holds, Truncated
<1>5. CASE n < c
  <2>1. r.changeRequired /\ r.capacity = n /\ r.table = Fit(d.table, n)
    BY <1>2, <1>3, <1>5
  <2>2. Comparable(r.table, T)
    BY <1>1, <1>3, <2>1, ComparableFits
  <2>3. Capacity(r, c, a, m)
    <3>1. CASE m = "encoder"
      BY <1>2, <1>3, <2>1, <3>1 DEF Capacity
    <3>2. CASE m = "none"
      <4>1. a # <<>> /\ Head(a) = n
        BY <3>2
      <4> QED
        BY <1>2, <1>3, <1>5, <2>1, <3>2, <4>1 DEF Capacity
    <3> QED
      BY <3>1, <3>2
  <2>4. ASSUME ~Broken(r, x), ~Unsig(r, m)
        PROVE  SameTables(r, T, m)
    <3>1. m = "none"
      BY <2>1, <2>4 DEF Unsig
    <3>2. ~Broken(d, x) /\ ~Unsig(d, m)
      BY <1>2, <2>4, <3>1 DEF Broken, Truncated, Unsig
    <3>3. d.table = Fit(T, c)
      BY <1>3, <3>1, <3>2 DEF SameTables, Capacity
    <3>4. d.table = T
      BY <3>3, FitWhole
    <3> QED
      BY <2>1, <3>1, <3>4 DEF SameTables
  <2>5. Synced(r, T, c, p, a, x, m)
    BY <1>4, <2>2, <2>3, <2>4 DEF Synced
  <2> QED
    BY <1>4, <2>5 DEF r
<1>6. CASE ~(n < c)
  <2>1. r.changeRequired = d.changeRequired /\ r.capacity = d.capacity /\ r.table = d.table
    BY <1>2, <1>3, <1>6
  <2>2. Capacity(r, c, a, m)
    <3>1. CASE m = "encoder"
      BY <1>2, <1>3, <2>1, <3>1 DEF Capacity
    <3>2. CASE m = "none"
      <4>1. a # <<>> /\ Head(a) = n
        BY <3>2
      <4> QED
        BY <1>2, <1>3, <1>6, <2>1, <3>2, <4>1 DEF Capacity
    <3> QED
      BY <3>1, <3>2
  <2>3. ~Broken(r, x) /\ ~Unsig(r, m) => SameTables(r, T, m)
    BY <1>2, <1>3, <2>1 DEF Broken, Truncated, Unsig, SameTables
  <2>4. Synced(r, T, c, p, a, x, m)
    BY <1>3, <1>4, <2>1, <2>2, <2>3 DEF Synced
  <2> QED
    BY <1>4, <2>4 DEF r
<1> QED
  BY <1>5, <1>6

LEMMA SetsSize ==
  ASSUME NEW d \in DecoderObjects, NEW n \in Nat, n <= d.maxDynamicTableSize
  PROVE  LET r == SetDynamicTableSize(d, n)
         IN  /\ r \in DecoderObjects
             /\ r.encoderMaxDynamicTableSize = n
             /\ r.maxDynamicTableSize = d.maxDynamicTableSize
             /\ r.headers = d.headers /\ r.headerSize = d.headerSize /\ r.failed = d.failed
             /\ r.changeRequired = FALSE /\ r.capacity = n /\ r.table = Fit(d.table, n)
<1> DEFINE r == SetDynamicTableSize(d, n)
           t == Fit(d.table, n)
           z == [d EXCEPT !.encoderMaxDynamicTableSize = n, !.changeRequired = FALSE,
                          !.capacity = n, !.table = t]
<1>1. t \in Seq(Fields)
  <2>1. d.table \in Seq(Fields)
    BY DEF DecoderObjects
  <2> QED
    BY <2>1, FitType
<1>2. ~(n > d.maxDynamicTableSize)
  BY DEF DecoderObjects
<1>3. r = z
  BY <1>2 DEF SetDynamicTableSize, SetCapacity, DecoderObjects
<1> HIDE DEF t, r
<1>4. /\ z \in DecoderObjects
      /\ z.encoderMaxDynamicTableSize = n
      /\ z.maxDynamicTableSize = d.maxDynamicTableSize /\ z.changeRequired = FALSE
      /\ z.capacity = n /\ z.table = t
      /\ z.headers = d.headers /\ z.headerSize = d.headerSize /\ z.failed = d.failed
  BY <1>1 DEF DecoderObjects
<1> HIDE DEF z
<1>5. r \in DecoderObjects
  BY <1>3, <1>4
<1> QED
  BY <1>3, <1>4, <1>5 DEF r, t

\* The encoder's side takes the size n that was announced.
LEMMA CompliesInStep ==
  ASSUME NEW d, NEW p, NEW x, Sound(d, p, x, "none"),
         NEW T \in Seq(Fields), NEW c \in Nat, TotalSize(T) <= c,
         NEW n \in Nat, NEW a, a # <<>>, Head(a) = n,
         Synced(d, T, c, p, a, x, "none")
  PROVE  /\ n = c => Synced(d, T, c, p, <<>>, x, "none")
         /\ n # c => /\ Sound(Reads(d, SizeUpdate(n)), p, x, "none")
                     /\ Synced(Reads(d, SizeUpdate(n)), Fit(T, n), n, p, <<>>, x, "none")
<1> DEFINE u == SizeUpdate(n)
           r == Reads(d, u)
           U == Fit(T, n)
<1>1. d \in DecoderObjects /\ d.table \in Seq(Fields)
  BY DEF Sound, DecoderObjects
<1>2. u.rep = "update" /\ u.size = n
  BY DEF SizeUpdate
<1> HIDE DEF u
<1>3. CASE d.failed
  <2>1. r = d
    BY <1>3 DEF Reads
  <2> QED
    BY <1>3, <2>1 DEF Synced, u
<1>4. CASE ~d.failed
  <2>1. /\ Holds(d, p) /\ Comparable(d.table, T)
        /\ ~Broken(d, x) => d.table = Fit(T, d.capacity)
        /\ d.encoderMaxDynamicTableSize = c /\ d.maxDynamicTableSize = n
        /\ d.changeRequired <=> n < c
        /\ d.capacity = IF n < c THEN n ELSE c
    BY <1>4 DEF Synced, Capacity, Unsig, SameTables
  <2>2. Fit(T, c) = T /\ U \in Seq(Fields) /\ TotalSize(U) <= n
    BY FitWhole, FitType
  <2>3. ASSUME n = c
        PROVE  Synced(d, T, c, p, <<>>, x, "none")
    <3>1. ~d.changeRequired /\ d.capacity = c
      BY <2>1, <2>3
    <3>2. Capacity(d, c, <<>>, "none")
      BY <2>1, <2>3, <3>1 DEF Capacity
    <3> QED
      BY <2>1, <3>2 DEF Synced, SameTables
  <2>4. ASSUME n # c
        PROVE  Sound(r, p, x, "none") /\ Synced(r, U, n, p, <<>>, x, "none")
    <3>1. r = SetDynamicTableSize(d, n)
      BY <1>2, <1>4 DEF Reads
    <3>2. n <= d.maxDynamicTableSize
      BY <2>1
    <3> HIDE DEF r
    <3>3. /\ r \in DecoderObjects
          /\ r.encoderMaxDynamicTableSize = n
          /\ r.maxDynamicTableSize = n
          /\ r.headers = d.headers /\ r.headerSize = d.headerSize /\ r.failed = d.failed
          /\ r.changeRequired = FALSE /\ r.capacity = n /\ r.table = Fit(d.table, n)
      BY ZenonT(60), <1>1, <2>1, <3>1, <3>2, SetsSize
    <3>4. Sound(r, p, x, "none") /\ Holds(r, p)
      BY <1>4, <2>1, <3>3 DEF Sound, Holds, Truncated
    <3>5. Comparable(r.table, U)
      BY <1>1, <2>1, <3>3, ComparableFits
    <3>6. Capacity(r, n, <<>>, "none")
      BY <3>3 DEF Capacity
    <3>7. ASSUME ~Broken(r, x)
          PROVE  SameTables(r, U, "none")
      <4>1. d.table = Fit(T, d.capacity)
        BY <2>1, <3>3, <3>7 DEF Broken, Truncated
      <4>2. Fit(U, n) = U
        BY <2>2, FitWhole
      <4>3. Fit(d.table, n) = U
        <5>1. CASE n < c
          BY <2>1, <4>1, <4>2, <5>1
        <5>2. CASE ~(n < c)
          BY <2>1, <2>2, <4>1, <5>2
        <5> QED
          BY <5>1, <5>2
      <4> QED
        BY <3>3, <4>2, <4>3 DEF SameTables
    <3> HIDE DEF U
    <3>8. Synced(r, U, n, p, <<>>, x, "none")
      BY <3>4, <3>5, <3>6, <3>7 DEF Synced
    <3> QED
      BY <3>4, <3>8
  <2> QED
    BY <2>3, <2>4 DEF u
<1> QED
  BY <1>3, <1>4

-----------------------------------------------------------------------------
(* A block in flight: what the decoder will be after each representation   *)
(* that is written and not yet read.                                       *)

Representations ==
  {Indexed(i) : i \in Int} \union {SizeUpdate(n) : n \in Nat}
    \union {Literal(t, i, f) : t \in Types, i \in Int, f \in Fields}

\* h are the decoders on the way from d to the end of the block b: each is sound,
\* the last is in step with the encoder.
Flight(d, b, p, x, m, T, c, a) ==
  \E h : /\ h[0] = d
         /\ \A i \in 1 .. Len(b) : h[i] = Reads(h[i - 1], b[i])
         /\ \A i \in 0 .. Len(b) : Sound(h[i], p, x, m)
         /\ Synced(h[Len(b)], T, c, p, a, x, m)

LEMMA FlightNone ==
  ASSUME NEW d, NEW p, NEW x, NEW m, NEW T, NEW c, NEW a
  PROVE  Flight(d, <<>>, p, x, m, T, c, a) <=> Sound(d, p, x, m) /\ Synced(d, T, c, p, a, x, m)
<1> DEFINE z == <<>>
<1>1. Len(z) = 0
  OBVIOUS
<1> HIDE DEF z
<1>2. ASSUME Flight(d, z, p, x, m, T, c, a)
      PROVE  Sound(d, p, x, m) /\ Synced(d, T, c, p, a, x, m)
  <2>1. PICK h : /\ h[0] = d
                 /\ \A i \in 0 .. Len(z) : Sound(h[i], p, x, m)
                 /\ Synced(h[Len(z)], T, c, p, a, x, m)
    BY <1>2, Zenon DEF Flight
  <2>2. 0 \in 0 .. Len(z)
    BY <1>1
  <2>3. Sound(h[0], p, x, m)
    BY <2>1, <2>2, Zenon
  <2> QED
    BY <1>1, <2>1, <2>3, Zenon
<1>3. ASSUME Sound(d, p, x, m), Synced(d, T, c, p, a, x, m)
      PROVE  Flight(d, z, p, x, m, T, c, a)
  <2> DEFINE h == [i \in {0} |-> d]
  <2>1. h[0] = d
    OBVIOUS
  <2> HIDE DEF h
  <2>2. \A i \in 0 .. Len(z) : i = 0
    BY <1>1
  <2>3. \A i \in 1 .. Len(z) : FALSE
    BY <1>1
  <2>4. \A i \in 0 .. Len(z) : Sound(h[i], p, x, m)
    BY <1>3, <2>1, <2>2, Zenon
  <2>5. Synced(h[Len(z)], T, c, p, a, x, m)
    BY <1>1, <1>3, <2>1, Zenon
  <2> QED
    BY <2>1, <2>3, <2>4, <2>5, Zenon DEF Flight
<1> QED
  BY <1>2, <1>3 DEF z

LEMMA FlightFirst ==
  ASSUME NEW S, NEW b \in Seq(S), NEW d, NEW p, NEW x, NEW m, NEW T, NEW c, NEW a,
         Flight(d, b, p, x, m, T, c, a)
  PROVE  Sound(d, p, x, m)
<1>1. 0 \in 0 .. Len(b)
  BY LenProperties
<1> QED
  BY <1>1, Zenon DEF Flight

\* One more representation is written.
LEMMA FlightMore ==
  ASSUME NEW S, NEW b \in Seq(S), NEW r \in S,
         NEW d, NEW p, NEW x, NEW m, NEW T, NEW c, NEW a,
         Flight(d, b, p, x, m, T, c, a),
         NEW q, NEW U, NEW k,
         \A e : Sound(e, p, x, m) => Sound(e, q, x, m),
         \A e : Sound(e, p, x, m) /\ Synced(e, T, c, p, a, x, m) =>
                  Sound(Reads(e, r), q, x, m) /\ Synced(Reads(e, r), U, k, q, <<>>, x, m)
  PROVE  Flight(d, Append(b, r), q, x, m, U, k, <<>>)
<1> DEFINE n == Len(b)
           w == Append(b, r)
<1>1. n \in Nat /\ Len(w) = n + 1 /\ w[n + 1] = r /\ \A i \in 1 .. n : w[i] = b[i]
  BY LenProperties, AppendProperties
<1>2. PICK h : /\ h[0] = d
               /\ \A i \in 1 .. n : h[i] = Reads(h[i - 1], b[i])
               /\ \A i \in 0 .. n : Sound(h[i], p, x, m)
               /\ Synced(h[n], T, c, p, a, x, m)
  BY Zenon DEF Flight
<1> DEFINE l == Reads(h[n], r)
           g == [i \in 0 .. n + 1 |-> IF i = n + 1 THEN l ELSE h[i]]
<1> HIDE DEF n, w
<1>3. n \in 0 .. n
  BY <1>1
<1>4. Sound(l, q, x, m) /\ Synced(l, U, k, q, <<>>, x, m)
  BY <1>2, <1>3, Zenon
<1>5. l = Reads(h[n], r)
  OBVIOUS
<1> HIDE DEF l
<1>6. g[n + 1] = l /\ \A i \in 0 .. n : g[i] = h[i]
  BY <1>1
<1> HIDE DEF g
<1>7. g[0] = d
  BY <1>1, <1>2, <1>6
<1>8. ASSUME NEW i \in 1 .. n + 1 PROVE g[i] = Reads(g[i - 1], w[i])
  <2>1. CASE i = n + 1
    <3>1. i - 1 = n
      BY <1>1, <2>1
    <3>2. g[i - 1] = h[n]
      BY <1>3, <1>6, <3>1
    <3> QED
      BY <1>1, <1>5, <1>6, <2>1, <3>2
  <2>2. CASE i # n + 1
    <3>1. i \in 1 .. n /\ i \in 0 .. n /\ i - 1 \in 0 .. n
      BY <1>1, <2>2
    <3>2. g[i] = h[i] /\ g[i - 1] = h[i - 1] /\ w[i] = b[i]
      BY <1>1, <1>6, <3>1
    <3>3. h[i] = Reads(h[i - 1], b[i])
      BY <1>2, <3>1
    <3> QED
      BY <3>2, <3>3
  <2> QED
    BY <2>1, <2>2
<1>9. ASSUME NEW i \in 0 .. n + 1 PROVE Sound(g[i], q, x, m)
  <2>1. CASE i = n + 1
    BY <1>4, <1>6, <2>1, Zenon
  <2>2. CASE i # n + 1
    <3>1. i \in 0 .. n
      BY <1>1, <2>2
    <3> QED
      BY <1>2, <1>6, <3>1, Zenon
  <2> QED
    BY <2>1, <2>2
<1>10. Synced(g[n + 1], U, k, q, <<>>, x, m)
  BY <1>4, <1>6, Zenon
<1>11. /\ g[0] = d
       /\ \A i \in 1 .. Len(w) : g[i] = Reads(g[i - 1], w[i])
       /\ \A i \in 0 .. Len(w) : Sound(g[i], q, x, m)
       /\ Synced(g[Len(w)], U, k, q, <<>>, x, m)
  BY <1>1, <1>7, <1>8, <1>9, <1>10, Zenon
<1>12. Flight(d, w, q, x, m, U, k, <<>>)
  BY <1>11, Zenon DEF Flight
<1> QED
  BY <1>12 DEF w

\* One representation is read.
LEMMA FlightLess ==
  ASSUME NEW S, NEW b \in Seq(S), b # <<>>,
         NEW d, NEW p, NEW x, NEW m, NEW T, NEW c, NEW a,
         Flight(d, b, p, x, m, T, c, a)
  PROVE  Flight(Reads(d, Head(b)), Tail(b), p, x, m, T, c, a)
<1> DEFINE n == Len(b)
           t == Tail(b)
<1>1. n \in Nat /\ n # 0
  BY LenProperties, EmptySeq
<1>2. Len(t) = n - 1 /\ Head(b) = b[1] /\ \A i \in 1 .. n - 1 : t[i] = b[i + 1]
  BY HeadTailProperties
<1>3. PICK h : /\ h[0] = d
               /\ \A i \in 1 .. n : h[i] = Reads(h[i - 1], b[i])
               /\ \A i \in 0 .. n : Sound(h[i], p, x, m)
               /\ Synced(h[n], T, c, p, a, x, m)
  BY Zenon DEF Flight
<1> DEFINE g == [i \in 0 .. n - 1 |-> h[i + 1]]
<1> HIDE DEF n, t
<1>4. \A i \in 0 .. n - 1 : g[i] = h[i + 1]
  OBVIOUS
<1> HIDE DEF g
<1>5. g[0] = Reads(d, Head(b))
  <2>1. 0 \in 0 .. n - 1 /\ 1 \in 1 .. n /\ 0 + 1 = 1 /\ 1 - 1 = 0
    BY <1>1
  <2>2. g[0] = h[1]
    BY <1>4, <2>1
  <2>3. h[1] = Reads(h[0], b[1])
    BY <1>3, <2>1
  <2> QED
    BY <1>2, <1>3, <2>2, <2>3
<1>6. ASSUME NEW i \in 1 .. n - 1 PROVE g[i] = Reads(g[i - 1], t[i])
  <2>1. i \in 0 .. n - 1 /\ i - 1 \in 0 .. n - 1 /\ (i - 1) + 1 = i /\ i + 1 \in 1 .. n
        /\ (i + 1) - 1 = i
    BY <1>1
  <2>2. g[i] = h[i + 1] /\ g[i - 1] = h[i] /\ t[i] = b[i + 1]
    BY <1>2, <1>4, <2>1
  <2>3. h[i + 1] = Reads(h[i], b[i + 1])
    BY <1>3, <2>1
  <2> QED
    BY <2>2, <2>3
<1>7. ASSUME NEW i \in 0 .. n - 1 PROVE Sound(g[i], p, x, m)
  <2>1. i + 1 \in 0 .. n
    BY <1>1
  <2> QED
    BY <1>3, <1>4, <2>1, Zenon
<1>8. Synced(g[n - 1], T, c, p, a, x, m)
  <2>1. n - 1 \in 0 .. n - 1 /\ (n - 1) + 1 = n
    BY <1>1
  <2>2. g[n - 1] = h[n]
    BY <1>4, <2>1
  <2> QED
    BY <1>3, <2>2, Zenon
<1>9. /\ \A i \in 1 .. Len(t) : g[i] = Reads(g[i - 1], t[i])
      /\ \A i \in 0 .. Len(t) : Sound(g[i], p, x, m)
      /\ Synced(g[Len(t)], T, c, p, a, x, m)
  BY <1>2, <1>6, <1>7, <1>8, Zenon
<1>10. Flight(Reads(d, Head(b)), t, p, x, m, T, c, a)
  BY <1>5, <1>9, Zenon DEF Flight
<1> QED
  BY <1>10 DEF t

-----------------------------------------------------------------------------
(* Block after block.                                                      *)

\* The decoder that reads what is in the block.
Reader ==
  IF renews = "decoder" /\ phase # "unpacked" THEN NewDecoder(HeaderTableSize) ELSE decoder

\* Fields may be missing in the decoder's table.
Damaged == truncated \/ (renews = "decoder" /\ blocks > 0)

InFlight ==
  Flight(Reader, block, packed, Damaged, renews, EncoderTable, encoder.capacity, announced)

\* What a block looks like between two steps.
BlockShape ==
  /\ block \in Seq(Representations)
  /\ decoder \in DecoderObjects
  /\ truncated \in BOOLEAN
  /\ announced # <<>> =>
       Len(announced) = 1 /\ block = <<>> /\ phase = "between" /\ renews = "none"
  /\ phase = "between" /\ renews # "none" => block = <<>>
  /\ phase # "unpacked" => ~decoder.failed /\ decoder.headers = <<>> /\ decoder.headerSize = 0
  /\ renews = "decoder" /\ phase # "unpacked" /\ block = <<>> =>
       Comparable(decoder.table, EncoderTable)

\* The inductive invariant: whatever the decoder becomes on its way through what
\* is written and not yet read, it is sound there, and in step at the end.
BlockInv == EncoderInv /\ BlockShape /\ InFlight

LEMMA TableFits ==
  ASSUME EncoderInv
  PROVE  /\ encoder \in EncoderObjects /\ encoder.capacity \in Nat
         /\ EncoderTable \in Seq(Fields) /\ TotalSize(EncoderTable) <= encoder.capacity
         /\ packed \in Seq(Pairs)
<1>1. /\ encoder \in EncoderObjects /\ Linked(encoder) /\ encoder.size <= encoder.capacity
      /\ packed \in Seq(Pairs)
  BY DEF EncoderInv, Pairs
<1>2. encoder.capacity \in Nat
  BY <1>1 DEF EncoderObjects
<1>3. encoder.size = TotalSize(TableOf(encoder))
  BY <1>1, Zenon DEF Linked
<1>4. TableOf(encoder) \in Seq(Fields)
  BY <1>1, TableFacts
<1> QED
  BY <1>1, <1>2, <1>3, <1>4 DEF EncoderTable

\* A new decoder, and an encoder whose table has the size it is made with.
LEMMA NewDecoderSound ==
  ASSUME NEW c \in Nat, NEW x, NEW m
  PROVE  LET d == NewDecoder(c)
         IN  /\ d \in DecoderObjects
             /\ ~d.failed /\ d.headers = <<>> /\ d.headerSize = 0 /\ d.table = <<>>
             /\ Sound(d, <<>>, x, m)
             /\ Holds(d, <<>>) /\ Capacity(d, c, <<>>, m)
<1> DEFINE d == NewDecoder(c)
           z == <<>>
<1>1. MaxHeaderSize \in Nat
  BY Lengths
<1>2. /\ d.failed = FALSE /\ d.headers = z /\ d.headerSize = 0 /\ d.table = z
      /\ d.changeRequired = FALSE /\ d.capacity = c /\ d.maxDynamicTableSize = c
      /\ d.encoderMaxDynamicTableSize = c
  BY DEF NewDecoder
<1>3. d \in DecoderObjects
  BY DEF NewDecoder, DecoderObjects, NameLengths
<1>4. ~Truncated(d)
  BY <1>1, <1>2 DEF Truncated
<1>5. z \in Seq(Pairs) /\ Weight(z) = 0
  BY WeightNone
<1> HIDE DEF d, z
<1>6. IsPrefix(z, z)
  BY <1>5, SelfPrefix
<1>7. Holds(d, z) /\ Capacity(d, c, z, m)
  <2>1. Holds(d, z)
    BY <1>2, <1>5 DEF Holds
  <2>2. z = <<>>
    BY DEF z
  <2> QED
    BY <1>2, <2>1, <2>2 DEF Capacity
<1>8. Sound(d, z, x, m)
  BY <1>2, <1>3, <1>4, <1>6 DEF Sound
<1> QED
  BY <1>2, <1>3, <1>7, <1>8 DEF d, z

\* What EndHeaderBlock makes of the decoder: it can read the next block.
Ended(d) == [d EXCEPT !.headerSize = 0, !.headers = <<>>]

LEMMA EndsSound ==
  ASSUME NEW d, NEW p, NEW x, NEW m, NEW T \in Seq(Fields), NEW c, ~d.failed,
         Sound(d, p, x, m), Synced(d, T, c, p, <<>>, x, m),
         NEW e, e = Ended(d)
  PROVE  /\ e \in DecoderObjects
         /\ ~e.failed /\ e.headers = <<>> /\ e.headerSize = 0 /\ e.table = d.table
         /\ Sound(e, <<>>, Broken(d, x), m)
         /\ Synced(e, T, c, <<>>, <<>>, Broken(d, x), m)
<1> DEFINE z == <<>>
           y == Broken(d, x)
<1>1. d \in DecoderObjects /\ MaxHeaderSize \in Nat
  BY Lengths DEF Sound
<1>2. z \in Seq(Pairs) /\ Weight(z) = 0
  BY WeightNone
<1>3. e = [d EXCEPT !.headerSize = 0, !.headers = z]
  BY DEF Ended
<1>4. /\ Comparable(d.table, T) /\ Capacity(d, c, z, m)
      /\ ~Broken(d, x) /\ ~Unsig(d, m) => SameTables(d, T, m)
  BY DEF Synced
<1> HIDE DEF z
<1>5. /\ e \in DecoderObjects /\ e.headers = z /\ e.headerSize = 0 /\ e.failed = d.failed
      /\ e.table = d.table /\ e.capacity = d.capacity /\ e.changeRequired = d.changeRequired
      /\ e.maxDynamicTableSize = d.maxDynamicTableSize
      /\ e.encoderMaxDynamicTableSize = d.encoderMaxDynamicTableSize
  <2> DEFINE w == [d EXCEPT !.headerSize = 0, !.headers = z]
  <2>1. /\ w \in DecoderObjects /\ w.headers = z /\ w.headerSize = 0 /\ w.failed = d.failed
        /\ w.table = d.table /\ w.capacity = d.capacity /\ w.changeRequired = d.changeRequired
        /\ w.maxDynamicTableSize = d.maxDynamicTableSize
        /\ w.encoderMaxDynamicTableSize = d.encoderMaxDynamicTableSize
    BY ONLY <1>1, <1>2 DEF DecoderObjects
  <2> HIDE DEF w
  <2>2. e = w
    BY <1>3 DEF w
  <2> QED
    BY ONLY <2>1, <2>2
<1>6. ~Truncated(e)
  BY <1>1, <1>5 DEF Truncated
<1>7. Sound(e, z, y, m) /\ Holds(e, z)
  <2>1. IsPrefix(z, z)
    BY <1>2, SelfPrefix
  <2> QED
    BY <1>2, <1>5, <1>6, <2>1 DEF Sound, Holds
<1>8. Capacity(e, c, z, m)
  BY <1>4, <1>5 DEF Capacity
<1>9. ~Broken(e, y) /\ ~Unsig(e, m) => SameTables(e, T, m)
  BY <1>4, <1>5, <1>6 DEF Broken, Unsig, SameTables
<1>10. Synced(e, T, c, z, z, y, m)
  BY <1>4, <1>5, <1>7, <1>8, <1>9 DEF Synced
<1> QED
  BY <1>5, <1>7, <1>10 DEF z

LEMMA BlockInvInit == Init => BlockInv
<1> SUFFICES ASSUME Init PROVE BlockInv
  OBVIOUS
<1> DEFINE d == NewDecoder(HeaderTableSize)
           z == <<>>
<1>1. /\ encoder = NewEncoder(HeaderTableSize) /\ decoder = d
      /\ block = z /\ packed = z /\ announced = z
      /\ phase = "between" /\ blocks = 0 /\ truncated = FALSE
  BY DEF Init
<1>2. EncoderInv
  BY EncoderInvInit
<1>3. HeaderTableSize \in Nat
  BY HeaderBlocksAssumption
<1>4. /\ d \in DecoderObjects
      /\ ~d.failed /\ d.headers = z /\ d.headerSize = 0 /\ d.table = z
      /\ Sound(d, z, FALSE, renews)
      /\ Holds(d, z) /\ Capacity(d, HeaderTableSize, z, renews)
  BY <1>3, NewDecoderSound
<1>5. EncoderTable = z /\ encoder.capacity = HeaderTableSize
  BY <1>1, <1>3, NewEncoderLinked DEF EncoderTable
<1>6. z \in Seq(Fields) /\ z \in Seq(Representations)
  OBVIOUS
<1> HIDE DEF d
<1>7. Comparable(d.table, z) /\ IsPrefix(z, d.table)
  BY <1>4, <1>6, NoneComparable
<1>8. Synced(d, z, HeaderTableSize, z, z, FALSE, renews)
  <2>1. Fit(z, d.capacity) = z
    <3>1. TotalSize(z) <= HeaderTableSize
      BY <1>2, <1>5, TableFits
    <3>2. d.capacity \in Nat /\ (renews # "encoder" => d.capacity = HeaderTableSize)
      BY <1>4 DEF Capacity, DecoderObjects
    <3>3. d.capacity = HeaderTableSize
      BY <1>4 DEF d, NewDecoder
    <3> QED
      BY <1>3, <1>6, <3>1, <3>3, FitWhole
  <2> HIDE DEF z
  <2>2. SameTables(d, z, renews)
    BY <1>4, <1>7, <2>1 DEF SameTables
  <2> QED
    BY <1>4, <1>7, <2>2, Zenon DEF Synced
<1>9. Reader = d /\ Damaged = FALSE
  <2>1. ~(blocks > 0)
    BY <1>1
  <2> QED
    BY <1>1, <2>1 DEF Reader, Damaged, d
<1>10. InFlight
  <2>1. Flight(d, z, z, FALSE, renews, z, HeaderTableSize, z)
    BY <1>4, <1>8, FlightNone
  <2> HIDE DEF z
  <2> QED
    BY <1>1, <1>5, <1>9, <2>1, Zenon DEF InFlight
<1>11. BlockShape
  <2> HIDE DEF z
  <2>1. z = <<>>
    BY DEF z
  <2> QED
    BY <1>1, <1>4, <1>5, <1>6, <1>7, <2>1 DEF BlockShape
<1> QED
  BY <1>2, <1>10, <1>11 DEF BlockInv

\* A new size is announced.
LEMMA AnnounceInFlight ==
  ASSUME BlockInv, NEW n \in Capacities, Announce(n) \/ AnnounceUnheard(n)
  PROVE  BlockShape' /\ InFlight'
<1> DEFINE r == DecoderSetMax(decoder, n)
           a == IF renews = "none" THEN <<n>> ELSE <<>>
           T == EncoderTable
           c == encoder.capacity
<1>1. /\ phase = "between" /\ renews \in {"none", "encoder"} /\ announced = <<>> /\ block = <<>>
      /\ decoder' = r /\ n \in Nat
      /\ UNCHANGED <<encoder, block, renews, phase, packed, blocks, truncated>>
  BY HeaderBlocksAssumption DEF Announce, AnnounceUnheard, BlockInv, BlockShape, EncoderInv
<1>2. announced' = a
  BY <1>1 DEF Announce, AnnounceUnheard
<1>3. Reader = decoder /\ Reader' = r /\ Damaged' = Damaged /\ EncoderTable' = T
  BY <1>1 DEF Reader, Damaged, EncoderTable
<1>4. T \in Seq(Fields) /\ TotalSize(T) <= c /\ c \in Nat
  BY TableFits DEF BlockInv
<1>5. decoder \in DecoderObjects /\ ~decoder.failed /\ decoder.headers = <<>>
      /\ decoder.headerSize = 0
  BY <1>1 DEF BlockInv, BlockShape
<1>6. /\ r \in DecoderObjects /\ r.failed = decoder.failed /\ r.headers = decoder.headers
      /\ r.headerSize = decoder.headerSize
  BY <1>1, <1>5, SetsMax
<1> HIDE DEF r, T, c
<1>7. Flight(decoder, <<>>, packed, Damaged, renews, T, c, <<>>)
  BY <1>1, <1>3 DEF BlockInv, InFlight, T, c
<1>8. Sound(decoder, packed, Damaged, renews) /\ Synced(decoder, T, c, packed, <<>>, Damaged, renews)
  BY <1>7, FlightNone
<1>9. a = IF renews = "none" THEN <<n>> ELSE <<>>
  OBVIOUS
<1> HIDE DEF a
<1>10. Sound(r, packed, Damaged, renews) /\ Synced(r, T, c, packed, a, Damaged, renews)
  BY <1>1, <1>4, <1>5, <1>8, <1>9, SetsMaxInStep DEF r
<1>11. Flight(r, <<>>, packed, Damaged, renews, T, c, a)
  BY <1>10, FlightNone
<1>12. InFlight'
  <2>1. encoder'.capacity = c /\ block' = <<>> /\ packed' = packed /\ renews' = renews
    BY <1>1 DEF c
  <2> QED
    BY <1>2, <1>3, <1>11, <2>1 DEF InFlight
<1>13. BlockShape'
  <2>1. /\ block' \in Seq(Representations) /\ truncated' \in BOOLEAN
    BY <1>1 DEF BlockInv, BlockShape
  <2>2. announced' # <<>> => Len(announced') = 1 /\ renews' = "none"
    BY <1>1, <1>2, <1>9
  <2> QED
    BY <1>1, <1>5, <1>6, <2>1, <2>2 DEF BlockShape
<1> QED
  BY <1>12, <1>13

\* The encoder's side takes it.
LEMMA ComplyInFlight ==
  ASSUME BlockInv, Comply
  PROVE  BlockShape' /\ InFlight'
<1> DEFINE n == Head(announced)
           T == EncoderTable
           c == encoder.capacity
           u == SizeUpdate(n)
           z == <<>>
<1>1. /\ phase = "between" /\ renews = "none" /\ announced # z /\ block = z
      /\ announced' = z /\ n \in Nat
      /\ SetMaxHeaderTableSize(n)
      /\ UNCHANGED <<decoder, renews, phase, packed, blocks, truncated>>
  <2>1. announced # <<>> /\ Len(announced) = 1 /\ announced \in Seq(Nat)
    BY DEF BlockInv, BlockShape, EncoderInv, Comply
  <2>2. Tail(announced) = <<>>
    <3>1. Tail(announced) \in Seq(Nat) /\ Len(Tail(announced)) = 0
      BY <2>1, HeadTailProperties
    <3> QED
      BY <3>1, EmptySeq
  <2> QED
    BY <2>1, <2>2 DEF BlockInv, BlockShape, Comply
<1>2. Reader = decoder /\ Reader' = decoder /\ Damaged' = Damaged
  BY <1>1 DEF Reader, Damaged
<1>3. T \in Seq(Fields) /\ TotalSize(T) <= c /\ c \in Nat /\ encoder \in EncoderObjects
      /\ Linked(encoder) /\ packed \in Seq(Pairs)
  BY TableFits DEF BlockInv, EncoderInv
<1> HIDE DEF T, c, n, u
<1>4. Flight(decoder, z, packed, Damaged, "none", T, c, announced)
  BY <1>1, <1>2 DEF BlockInv, InFlight, T, c
<1>5. Sound(decoder, packed, Damaged, "none")
      /\ Synced(decoder, T, c, packed, announced, Damaged, "none")
  BY <1>4, FlightNone
<1>6. /\ n = c => Synced(decoder, T, c, packed, z, Damaged, "none")
      /\ n # c => /\ Sound(Reads(decoder, u), packed, Damaged, "none")
                  /\ Synced(Reads(decoder, u), Fit(T, n), n, packed, z, Damaged, "none")
  BY <1>1, <1>3, <1>5, CompliesInStep DEF n, u
<1>7. CASE n = c
  <2>1. encoder' = encoder /\ block' = z
    BY <1>1, <1>7 DEF SetMaxHeaderTableSize, c
  <2>2. EncoderTable' = T /\ encoder'.capacity = c
    BY <2>1 DEF EncoderTable, T, c
  <2>3. Flight(decoder, z, packed, Damaged, "none", T, c, z)
    BY <1>5, <1>6, <1>7, FlightNone
  <2>4. InFlight'
    BY <1>1, <1>2, <2>1, <2>2, <2>3 DEF InFlight
  <2>5. BlockShape'
    BY <1>1, <2>1, <2>2 DEF BlockInv, BlockShape
  <2> QED
    BY <2>4, <2>5
<1>8. CASE n # c
  <2>1. /\ encoder' = EnsureCapacity([encoder EXCEPT !.capacity = n], 0)
        /\ block' = Append(block, u)
    BY <1>1, <1>8 DEF SetMaxHeaderTableSize, c, Write, u
  <2>2. EncoderTable' = Fit(T, n) /\ encoder'.capacity = n
    <3>1. TableOf(encoder') = Fit(TableOf(encoder), n) /\ encoder'.capacity = n
      BY <1>1, <1>3, <2>1, Resized
    <3> QED
      BY <3>1 DEF EncoderTable, T
  <2>3. z \in Seq(Representations) /\ u \in Representations
    BY <1>1 DEF Representations, u
  <2>4. block' = Append(z, u) /\ block' \in Seq(Representations) /\ block' # z
    BY <1>1, <2>1, <2>3
  <2>5. Flight(decoder, z, packed, Damaged, "none", T, c, announced)
    BY <1>4
  <2> HIDE DEF z
  <2>6. \A e : Sound(e, packed, Damaged, "none")
                 /\ Synced(e, T, c, packed, announced, Damaged, "none") =>
                  Sound(Reads(e, u), packed, Damaged, "none")
                    /\ Synced(Reads(e, u), Fit(T, n), n, packed, <<>>, Damaged, "none")
    BY <1>1, <1>3, <1>8, CompliesInStep DEF n, u, z
  <2>7. Flight(decoder, Append(z, u), packed, Damaged, "none", Fit(T, n), n, <<>>)
    BY <2>3, <2>5, <2>6, FlightMore
  <2>8. InFlight'
    BY <1>1, <1>2, <2>2, <2>4, <2>7 DEF InFlight, z
  <2>9. BlockShape'
    <3>1. announced' = <<>>
      BY <1>1 DEF z
    <3> QED
      BY <1>1, <2>4, <3>1 DEF BlockInv, BlockShape
  <2> QED
    BY <2>8, <2>9
<1> QED
  BY <1>7, <1>8

\* A block is begun, with a new encoder if it is one of requests.
LEMMA PackHeadersInFlight ==
  ASSUME BlockInv, PackHeaders
  PROVE  BlockShape' /\ InFlight'
<1> DEFINE T == EncoderTable
           c == encoder.capacity
           z == <<>>
<1>1. /\ phase = "between" /\ phase' = "packed" /\ announced = z
      /\ encoder' = IF renews = "encoder" THEN NewEncoder(HeaderTableSize) ELSE encoder
      /\ UNCHANGED <<block, decoder, renews, packed, announced, blocks, truncated>>
  BY DEF PackHeaders
<1>2. Reader' = Reader /\ Damaged' = Damaged
  BY <1>1 DEF Reader, Damaged
<1>3. Flight(Reader, block, packed, Damaged, renews, T, c, z)
  BY <1>1 DEF BlockInv, InFlight
<1>4. CASE renews # "encoder"
  <2>1. EncoderTable' = EncoderTable /\ encoder'.capacity = encoder.capacity
    BY <1>1, <1>4 DEF EncoderTable
  <2>2. InFlight'
    BY <1>1, <1>2, <2>1 DEF BlockInv, InFlight
  <2>3. BlockShape'
    BY <1>1, <2>1 DEF BlockInv, BlockShape
  <2> QED
    BY <2>2, <2>3
<1>5. CASE renews = "encoder"
  <2>1. block = z /\ Reader = decoder /\ decoder \in DecoderObjects /\ c = HeaderTableSize
    BY <1>1, <1>5 DEF BlockInv, BlockShape, EncoderInv, Reader
  <2>2. EncoderTable' = z /\ encoder'.capacity = c
    <3>1. HeaderTableSize \in Nat
      BY HeaderBlocksAssumption
    <3> QED
      BY <1>1, <1>5, <2>1, <3>1, NewEncoderLinked DEF EncoderTable
  <2>3. decoder.table \in Seq(Fields)
    BY <2>1 DEF DecoderObjects
  <2>4. Comparable(decoder.table, z) /\ IsPrefix(z, decoder.table)
    BY <2>3, NoneComparable
  <2> HIDE DEF T, c
  <2>5. Sound(decoder, packed, Damaged, renews) /\ Synced(decoder, T, c, packed, z, Damaged, renews)
    BY <1>3, <2>1, FlightNone
  <2>6. Synced(decoder, z, c, packed, z, Damaged, renews)
    <3> HIDE DEF z
    <3> QED
      BY <1>5, <2>4, <2>5 DEF Synced, SameTables
  <2>7. Flight(decoder, z, packed, Damaged, renews, z, c, z)
    BY <2>5, <2>6, FlightNone
  <2>8. InFlight'
    <3> HIDE DEF z
    <3> QED
      BY <1>1, <1>2, <2>1, <2>2, <2>7 DEF InFlight
  <2>9. BlockShape'
    BY <1>1, <1>5 DEF BlockInv, BlockShape
  <2> QED
    BY <2>8, <2>9
<1> QED
  BY <1>4, <1>5

LEMMA Represents ==
  ASSUME NEW T, NEW f \in Fields, NEW s, NEW type, NEW r, Says(r, T, f, s, type)
  PROVE  r \in Representations
<1>1. ASSUME NEW i, InTables(T, i), r = Indexed(i)
      PROVE  r \in Representations
  <2>1. i \in Int
    BY <1>1 DEF InTables
  <2>2. r \in {Indexed(k) : k \in Int}
    BY <1>1, <2>1
  <2> QED
    BY <2>2 DEF Representations
<1>2. ASSUME NEW i, type \in Types, i = -1 \/ InTables(T, i), r = Literal(type, i, f)
      PROVE  r \in Representations
  <2>1. i \in Int
    BY <1>2 DEF InTables
  <2>2. r \in {Literal(t, k, g) : t \in Types, k \in Int, g \in Fields}
    BY <1>2, <2>1
  <2> QED
    BY <2>2 DEF Representations
<1> QED
  BY <1>1, <1>2, Zenon DEF Says

\* A field is put into the block.
LEMMA PackHeaderInFlight ==
  ASSUME BlockInv, NEW f \in Fields, NEW s \in BOOLEAN, PackHeader(f, s)
  PROVE  BlockShape' /\ InFlight'
<1> DEFINE T == EncoderTable
           c == encoder.capacity
           q == Append(packed, <<f, s>>)
<1>1. /\ phase = "packed" /\ EncodeHeader(f, s) /\ packed' = q
      /\ UNCHANGED <<decoder, renews, phase, announced, blocks, truncated>>
  BY DEF PackHeader
<1>2. EncoderInv /\ announced = <<>> /\ block \in Seq(Representations)
  BY <1>1 DEF BlockInv, BlockShape
<1>3. PICK r, type :
        /\ type \in Types
        /\ Says(r, T, f, s, type)
        /\ block' = Append(block, r)
        /\ IF type = "INCREMENTAL"
           THEN /\ SizeOf(f) <= encoder.capacity
                /\ encoder' = Add(EnsureCapacity(encoder, SizeOf(f)), f)
           ELSE encoder' = encoder
  BY <1>1, <1>2, Encodes
<1> DEFINE U == IF type = "INCREMENTAL" THEN Fit(<<f>> \o T, c) ELSE T
<1>4. /\ T \in Seq(Fields) /\ TotalSize(T) <= c /\ c \in Nat /\ packed \in Seq(Pairs)
      /\ encoder \in EncoderObjects /\ Linked(encoder)
  BY <1>2, TableFits DEF EncoderInv
<1>5. EncoderTable' = U /\ encoder'.capacity = c
  <2>1. CASE type = "INCREMENTAL"
    <3>1. /\ TableOf(encoder') = Fit(<<f>> \o TableOf(encoder), encoder.capacity)
          /\ encoder'.capacity = encoder.capacity
      BY <1>3, <1>4, <2>1, Inserted
    <3> QED
      BY <2>1, <3>1 DEF EncoderTable
  <2>2. CASE type # "INCREMENTAL"
    BY <1>3, <2>2 DEF EncoderTable
  <2> QED
    BY <2>1, <2>2
<1>6. r \in Representations
  BY <1>3, Represents
<1>7. block' \in Seq(Representations) /\ block' # <<>>
  BY <1>2, <1>3, <1>6
<1>8. Reader' = Reader /\ Damaged' = Damaged
  BY <1>1 DEF Reader, Damaged
<1>9. Flight(Reader, block, packed, Damaged, renews, T, c, <<>>)
  BY <1>2 DEF BlockInv, InFlight
<1>10. U = IF type = "INCREMENTAL" THEN Fit(<<f>> \o T, c) ELSE T
  OBVIOUS
<1> HIDE DEF T, c, U
<1>11. ASSUME NEW e, Sound(e, packed, Damaged, renews)
       PROVE  Sound(e, q, Damaged, renews)
  BY <1>4, <1>11, SoundGrows
<1>12. ASSUME NEW e, Sound(e, packed, Damaged, renews),
              Synced(e, T, c, packed, <<>>, Damaged, renews)
       PROVE  Sound(Reads(e, r), q, Damaged, renews)
                /\ Synced(Reads(e, r), U, c, q, <<>>, Damaged, renews)
  BY <1>3, <1>4, <1>10, <1>12, FieldInStep
<1> HIDE DEF q
<1>13. Flight(Reader, Append(block, r), q, Damaged, renews, U, c, <<>>)
  BY <1>2, <1>6, <1>9, <1>11, <1>12, FlightMore
<1>14. InFlight'
  BY <1>1, <1>2, <1>3, <1>5, <1>8, <1>13 DEF InFlight
<1>15. BlockShape'
  BY <1>1, <1>2, <1>7 DEF BlockInv, BlockShape
<1> QED
  BY <1>14, <1>15

\* The decoder's side takes the block, with a new decoder if it is one of responses.
LEMMA UnpackHeadersInFlight ==
  ASSUME BlockInv, UnpackHeaders
  PROVE  BlockShape' /\ InFlight'
<1>1. /\ phase = "packed" /\ phase' = "unpacked"
      /\ decoder' = IF renews = "decoder" THEN NewDecoder(HeaderTableSize) ELSE decoder
      /\ UNCHANGED <<encoder, block, renews, packed, announced, blocks, truncated>>
  BY DEF UnpackHeaders
<1>2. Reader' = Reader /\ Damaged' = Damaged /\ EncoderTable' = EncoderTable
  BY <1>1 DEF Reader, Damaged, EncoderTable
<1>3. InFlight'
  BY <1>1, <1>2 DEF BlockInv, InFlight
<1>4. decoder' \in DecoderObjects
  <2>1. HeaderTableSize \in Nat
    BY HeaderBlocksAssumption
  <2> QED
    BY <1>1, <2>1, NewDecoderSound DEF BlockInv, BlockShape
<1>5. BlockShape'
  BY <1>1, <1>4 DEF BlockInv, BlockShape
<1> QED
  BY <1>3, <1>5

LEMMA DecodeReads ==
  ASSUME NEW r, ~decoder.failed, Decode(r)
  PROVE  decoder' = Reads(decoder, r)
<1>1. CASE DecodeOutOfTurn(r)
  BY <1>1 DEF DecodeOutOfTurn, Reads
<1>2. CASE DecodeSizeUpdate(r)
  BY <1>2 DEF DecodeSizeUpdate, Reads
<1>3. CASE DecodeIndexed(r)
  BY <1>3 DEF DecodeIndexed, Reads
<1>4. CASE DecodeLiteral(r)
  BY <1>4 DEF DecodeLiteral, Reads
<1> QED
  BY <1>1, <1>2, <1>3, <1>4 DEF Decode

\* The decoder reads one representation.
LEMMA UnpackHeaderInFlight ==
  ASSUME BlockInv, UnpackHeader
  PROVE  BlockShape' /\ InFlight'
<1>1. /\ phase = "unpacked" /\ block # <<>> /\ ~decoder.failed
      /\ Decode(Head(block)) /\ block' = Tail(block)
      /\ UNCHANGED <<encoder, renews, phase, packed, announced, blocks, truncated>>
  BY DEF UnpackHeader
<1>2. decoder' = Reads(decoder, Head(block))
  BY <1>1, DecodeReads
<1>3. block \in Seq(Representations) /\ block' \in Seq(Representations)
  BY <1>1 DEF BlockInv, BlockShape
<1>4. Reader = decoder /\ Reader' = decoder' /\ Damaged' = Damaged /\ EncoderTable' = EncoderTable
  BY <1>1 DEF Reader, Damaged, EncoderTable
<1>5. Flight(decoder, block, packed, Damaged, renews, EncoderTable, encoder.capacity, announced)
  BY <1>4 DEF BlockInv, InFlight
<1>6. Flight(decoder', block', packed, Damaged, renews, EncoderTable, encoder.capacity, announced)
  BY <1>1, <1>2, <1>3, <1>5, FlightLess
<1>7. InFlight'
  BY <1>1, <1>4, <1>6 DEF InFlight
<1>8. decoder' \in DecoderObjects
  <2>1. Sound(decoder', packed, Damaged, renews)
    BY <1>3, <1>6, FlightFirst
  <2> QED
    BY <2>1 DEF Sound
<1>9. BlockShape'
  BY <1>1, <1>3, <1>8 DEF BlockInv, BlockShape
<1> QED
  BY <1>7, <1>9

\* The block ends: what was truncated is remembered, and the next response will
\* be read by a new decoder.
LEMMA EndBlockInFlight ==
  ASSUME BlockInv, EndBlock
  PROVE  BlockShape' /\ InFlight'
<1> DEFINE T == EncoderTable
           c == encoder.capacity
           e == Ended(decoder)
           y == Broken(decoder, Damaged)
           n == NewDecoder(HeaderTableSize)
           z == <<>>
<1>1. /\ phase = "unpacked" /\ phase' = "between" /\ block = z /\ ~decoder.failed
      /\ decoder' = e /\ truncated' = (truncated \/ Truncated(decoder))
      /\ packed' = z /\ blocks' = blocks + 1
      /\ UNCHANGED <<encoder, block, renews, announced>>
  BY DEF EndBlock, EndHeaderBlock, Ended
<1>2. /\ announced = z /\ Reader = decoder /\ truncated' \in BOOLEAN
      /\ block \in Seq(Representations)
  BY <1>1 DEF BlockInv, BlockShape, Reader, Truncated
<1>3. T \in Seq(Fields) /\ EncoderTable' = T /\ encoder'.capacity = c
      /\ (renews # "none" => c = HeaderTableSize)
  BY <1>1, TableFits DEF BlockInv, EncoderInv, EncoderTable
<1>4. Flight(decoder, z, packed, Damaged, renews, T, c, z)
  BY <1>1, <1>2 DEF BlockInv, InFlight
<1> HIDE DEF T, c
<1>5. Sound(decoder, packed, Damaged, renews) /\ Synced(decoder, T, c, packed, z, Damaged, renews)
  BY <1>4, FlightNone
<1>6. e = Ended(decoder) /\ y = Broken(decoder, Damaged)
  OBVIOUS
<1> HIDE DEF e, y
<1>7. /\ e \in DecoderObjects
      /\ ~e.failed /\ e.headers = z /\ e.headerSize = 0 /\ e.table = decoder.table
      /\ Sound(e, z, y, renews) /\ Synced(e, T, c, z, z, y, renews)
  <2> DEFINE d == decoder
             x == Damaged
             p == packed
             m == renews
  <2>1. /\ ~d.failed /\ T \in Seq(Fields)
        /\ Sound(d, p, x, m) /\ Synced(d, T, c, p, <<>>, x, m)
        /\ e = Ended(d)
    BY <1>1, <1>3, <1>5, <1>6
  <2> HIDE DEF d, x, p, m
  <2>2. /\ e \in DecoderObjects
        /\ ~e.failed /\ e.headers = <<>> /\ e.headerSize = 0 /\ e.table = d.table
        /\ Sound(e, <<>>, Broken(d, x), m)
        /\ Synced(e, T, c, <<>>, <<>>, Broken(d, x), m)
    BY ONLY <2>1, EndsSound
  <2> QED
    BY <2>2 DEF d, m, x, y
<1>8. Comparable(e.table, T)
  <2>1. Comparable(decoder.table, T)
    BY <1>1, <1>5 DEF Synced
  <2> QED
    BY <1>7, <2>1
<1>9. BlockShape'
  BY <1>1, <1>2, <1>3, <1>7, <1>8 DEF BlockShape
<1>10. CASE renews = "decoder"
  <2>1. Reader' = n /\ Damaged' = TRUE
    <3>1. blocks' > 0
      BY <1>1 DEF BlockInv, EncoderInv
    <3> QED
      BY <1>1, <1>10, <3>1 DEF Reader, Damaged
  <2>2. HeaderTableSize \in Nat /\ c = HeaderTableSize
    BY <1>3, <1>10, HeaderBlocksAssumption
  <2>3. /\ n.table = z /\ Sound(n, z, TRUE, renews) /\ Holds(n, z)
        /\ Capacity(n, HeaderTableSize, z, renews)
    BY <2>2, NewDecoderSound
  <2>4. Comparable(z, T)
    BY <1>3, NoneComparable
  <2> HIDE DEF n
  <2>5. Synced(n, T, c, z, z, TRUE, renews)
    <3> HIDE DEF z
    <3> QED
      BY <2>2, <2>3, <2>4 DEF Synced, Broken
  <2>6. Flight(n, z, z, TRUE, renews, T, c, z)
    BY <2>3, <2>5, FlightNone
  <2> HIDE DEF z
  <2> QED
    BY <1>1, <1>2, <1>3, <1>9, <2>1, <2>6 DEF InFlight
<1>11. CASE renews # "decoder"
  <2>1. Reader' = e /\ Damaged' = y
    BY <1>1, <1>2, <1>11 DEF Reader, Damaged, Broken, y
  <2>2. Flight(e, z, z, y, renews, T, c, z)
    BY <1>7, FlightNone
  <2> HIDE DEF z
  <2> QED
    BY <1>1, <1>2, <1>3, <1>9, <2>1, <2>2 DEF InFlight
<1> QED
  BY <1>10, <1>11

LEMMA BlockInvNext == BlockInv /\ [Next]_vars => BlockInv'
<1> SUFFICES ASSUME BlockInv, [Next]_vars PROVE BlockInv'
  OBVIOUS
<1>1. EncoderInv'
  BY EncoderInvNext DEF BlockInv
<1> SUFFICES BlockShape' /\ InFlight'
  BY <1>1 DEF BlockInv
<1>2. ASSUME NEW c \in Capacities, Announce(c) \/ AnnounceUnheard(c)
      PROVE  BlockShape' /\ InFlight'
  BY <1>2, AnnounceInFlight
<1>3. CASE Comply
  BY <1>3, ComplyInFlight
<1>4. CASE PackHeaders
  BY <1>4, PackHeadersInFlight
<1>5. ASSUME NEW f \in Fields, NEW sensitive \in BOOLEAN, PackHeader(f, sensitive)
      PROVE  BlockShape' /\ InFlight'
  BY <1>5, PackHeaderInFlight
<1>6. CASE UnpackHeaders
  BY <1>6, UnpackHeadersInFlight
<1>7. CASE UnpackHeader
  BY <1>7, UnpackHeaderInFlight
<1>8. CASE EndBlock
  BY <1>8, EndBlockInFlight
<1>9. CASE UNCHANGED vars
  <2>1. UNCHANGED <<encoder, block, decoder, renews, phase, packed, announced, blocks, truncated>>
    BY <1>9 DEF vars
  <2>2. Reader' = Reader /\ Damaged' = Damaged /\ EncoderTable' = EncoderTable
    BY <2>1 DEF Reader, Damaged, EncoderTable
  <2> QED
    BY <2>1, <2>2 DEF BlockInv, BlockShape, InFlight
<1> QED
  BY <1>2, <1>3, <1>4, <1>5, <1>6, <1>7, <1>8, <1>9 DEF Next

LEMMA BlockInvAlways == Spec => []BlockInv
BY BlockInvInit, BlockInvNext, PTL DEF Spec

-----------------------------------------------------------------------------
(* What that means for the header blocks.                                  *)

\* The decoder is sound at every step of the way.
LEMMA DecoderSound ==
  ASSUME BlockInv, phase = "unpacked"
  PROVE  Sound(decoder, packed, Damaged, renews)
<1>1. Reader = decoder /\ block \in Seq(Representations)
  BY DEF Reader, BlockInv, BlockShape
<1>2. Flight(decoder, block, packed, Damaged, renews, EncoderTable, encoder.capacity, announced)
  BY <1>1 DEF BlockInv, InFlight
<1> QED
  BY <1>1, <1>2, FlightFirst

\* And in step with the encoder when it has read all that was written.
LEMMA DecoderSynced ==
  ASSUME BlockInv, block = <<>>, ~(renews = "decoder" /\ phase # "unpacked")
  PROVE  Synced(decoder, EncoderTable, encoder.capacity, packed, announced, Damaged, renews)
<1>1. Reader = decoder
  BY DEF Reader
<1>2. Flight(decoder, <<>>, packed, Damaged, renews, EncoderTable, encoder.capacity, announced)
  BY <1>1 DEF BlockInv, InFlight
<1> QED
  BY <1>2, FlightNone

\* Before a block is read the decoder has thrown nothing, delivered nothing and
\* counted nothing.
LEMMA DecoderIdle ==
  ASSUME BlockInv, phase # "unpacked"
  PROVE  ~decoder.failed /\ decoder.headers = <<>> /\ ~Truncated(decoder)
<1>1. ~decoder.failed /\ decoder.headers = <<>> /\ decoder.headerSize = 0
  BY DEF BlockInv, BlockShape
<1> QED
  BY <1>1, Lengths DEF Truncated

\* With no block on the way the table of one side is the beginning of that of the
\* other, and they are equal on a connection where nothing was truncated: what
\* Encoder.Add and Remove and DynamicTable.Add and Remove evict is the same,
\* whatever the sizes and whoever is made anew.
THEOREM TablesStayAlike == Spec => []TablesAgree
<1>1. ASSUME BlockInv PROVE TablesAgree
  <2> SUFFICES ASSUME phase # "unpacked", block = <<>>, announced = <<>>
               PROVE  /\ IsPrefix(decoder.table, EncoderTable) \/ IsPrefix(EncoderTable, decoder.table)
                      /\ renews = "none" /\ ~truncated => decoder.table = EncoderTable
    BY DEF TablesAgree
  <2>1. ~decoder.failed /\ ~Truncated(decoder)
    BY <1>1, DecoderIdle
  <2>2. CASE renews = "decoder"
    BY <1>1, <2>2 DEF BlockInv, BlockShape, Comparable
  <2>3. CASE renews # "decoder"
    <3>1. /\ Comparable(decoder.table, EncoderTable)
          /\ ~Broken(decoder, Damaged) /\ ~Unsig(decoder, renews) =>
               SameTables(decoder, EncoderTable, renews)
          /\ Capacity(decoder, encoder.capacity, <<>>, renews)
      BY <1>1, <2>1, <2>3, DecoderSynced DEF Synced
    <3>2. ASSUME renews = "none", ~truncated
          PROVE  decoder.table = EncoderTable
      <4>1. decoder.table = Fit(EncoderTable, encoder.capacity)
        BY <2>1, <3>1, <3>2 DEF Broken, Damaged, Unsig, SameTables, Capacity
      <4>2. EncoderTable \in Seq(Fields) /\ TotalSize(EncoderTable) <= encoder.capacity
            /\ encoder.capacity \in Nat
        BY <1>1, TableFits DEF BlockInv
      <4> QED
        BY <4>1, <4>2, FitWhole
    <3> QED
      BY <3>1, <3>2 DEF Comparable
  <2> QED
    BY <2>2, <2>3
<1> QED
  BY <1>1, BlockInvAlways, PTL

\* Decoder.Decode never gives its caller a field that Encoder.EncodeHeader was not
\* given at that place of the block, or with another sensitivity: neither when it
\* truncates, nor when it goes on with tables that differ.
THEOREM DeliversOnlyThePacked == Spec => []DeliversPrefix
<1>1. ASSUME BlockInv PROVE DeliversPrefix
  <2>1. CASE phase = "unpacked"
    <3>1. Sound(decoder, packed, Damaged, renews)
      BY <1>1, <2>1, DecoderSound
    <3> QED
      BY <3>1 DEF Sound, DeliversPrefix
  <2>2. CASE phase # "unpacked"
    <3> DEFINE z == <<>>
    <3>1. decoder.headers = z /\ z \in Seq(Pairs) /\ packed \in Seq(Pairs)
      BY <1>1, <2>2, DecoderIdle, TableFits DEF BlockInv
    <3>2. Len(z) = 0 /\ Len(packed) \in Nat
      BY <3>1, LenProperties
    <3> HIDE DEF z
    <3>3. Len(z) <= Len(packed) /\ \A i \in 1 .. Len(z) : z[i] = packed[i]
      BY <3>2
    <3>4. IsPrefix(z, packed)
      BY ONLY <3>1, <3>3, PrefixPoints
    <3> QED
      BY <3>1, <3>4 DEF DeliversPrefix
  <2> QED
    BY <2>1, <2>2
<1> QED
  BY <1>1, BlockInvAlways, PTL

\* No field is lost in silence: when Decode has come to the end of a block without
\* throwing and not every field was delivered, EndHeaderBlock reports it.
THEOREM LossIsReported == Spec => []LossReported
<1>1. ASSUME BlockInv PROVE LossReported
  <2>1. ASSUME phase = "unpacked", block = <<>>, ~decoder.failed
        PROVE  ~Truncated(decoder) => decoder.headers = packed
    BY <1>1, <2>1, DecoderSynced DEF Synced, Holds
  <2> QED
    BY <2>1 DEF LossReported
<1> QED
  BY <1>1, BlockInvAlways, PTL

\* And none is dropped without need: Decoder only truncates a block whose fields,
\* with one name counted twice, are longer than maxHeaderSize.
THEOREM TruncatesNoOther == Spec => []TruncatesOnlyLarge
<1>1. ASSUME BlockInv PROVE TruncatesOnlyLarge
  <2>1. ASSUME Truncated(decoder) PROVE TooLarge(packed)
    <3>1. phase = "unpacked"
      BY <1>1, <2>1, DecoderIdle
    <3> QED
      BY <1>1, <2>1, <3>1, DecoderSound DEF Sound
  <2> QED
    BY <2>1 DEF TruncatesOnlyLarge, TooLarge, Weight
<1> QED
  BY <1>1, BlockInvAlways, PTL

\* Decoder reads whatever Encoder writes, block after block, and throws for three
\* reasons only: a block was truncated, a request was packed by an Encoder that did
\* not hear of the smaller table, or a response is not the first.
THEOREM WhatIsPackedIsRead == Spec => []Decodable
<1>1. ASSUME BlockInv PROVE Decodable
  <2>1. ASSUME decoder.failed
        PROVE  AnyTruncation \/ Unsignalled \/ (renews = "decoder" /\ blocks > 0)
    <3>1. phase = "unpacked"
      BY <1>1, <2>1, DecoderIdle
    <3>2. Sound(decoder, packed, Damaged, renews)
      BY <1>1, <3>1, DecoderSound
    <3> QED
      BY <2>1, <3>2 DEF Sound, Broken, Damaged, Unsig, AnyTruncation, Unsignalled
  <2> QED
    BY <2>1 DEF Decodable
<1> QED
  BY <1>1, BlockInvAlways, PTL
=============================================================================
