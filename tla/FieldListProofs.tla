-------------------------- MODULE FieldListProofs --------------------------
(***************************************************************************)
(* What the operators on lists of header fields return: the size of a list *)
(* built or shortened by one field, and the prefix that fits a bound.      *)
(***************************************************************************)
EXTENDS FieldLists, SumLemmas, SequenceTheorems, TLAPS

-----------------------------------------------------------------------------
(* Prefixes.                                                               *)

\* The first n fields of s.
First(s, n) == SubSeq(s, 1, n)

\* The indices of a sequence.
LEMMA Indices == ASSUME NEW n \in Nat PROVE IsFiniteSet(1 .. n) /\ Cardinality(1 .. n) = n
<1>1. Cardinality(1 .. n) = IF 1 > n THEN 0 ELSE n - 1 + 1
  BY FS_Interval
<1> QED
  BY <1>1, FS_Interval

LEMMA Prefix ==
  ASSUME NEW T, NEW s \in Seq(T), NEW n \in 0 .. Len(s)
  PROVE  /\ First(s, n) \in Seq(T)
         /\ Len(First(s, n)) = n
         /\ \A i \in 1 .. n : First(s, n)[i] = s[i]
         /\ n = Len(s) => First(s, n) = s
         /\ n = 0 => First(s, n) = <<>>
<1>1. n \in Nat /\ Len(s) \in Nat
  BY LenProperties
<1>2. \A i \in 1 .. n : s[i] \in T
  BY <1>1, ElementOfSeq
<1>3. /\ SubSeq(s, 1, n) \in Seq(T)
      /\ Len(SubSeq(s, 1, n)) = IF 1 <= n THEN n - 1 + 1 ELSE 0
      /\ \A i \in 1 .. n - 1 + 1 : SubSeq(s, 1, n)[i] = s[1 + i - 1]
  BY <1>1, <1>2, SubSeqProperties
<1>4. Len(SubSeq(s, 1, n)) = n /\ \A i \in 1 .. n : SubSeq(s, 1, n)[i] = s[i]
  BY <1>1, <1>3
<1>5. /\ First(s, n) \in Seq(T)
      /\ Len(First(s, n)) = n
      /\ \A i \in 1 .. n : First(s, n)[i] = s[i]
  BY <1>3, <1>4 DEF First
<1>6. n = Len(s) => First(s, n) = s
  BY <1>5, SeqEqual
<1>7. n = 0 => First(s, n) = <<>>
  BY <1>5, EmptySeq
<1> QED
  BY <1>5, <1>6, <1>7

\* A prefix of a prefix is a prefix.
LEMMA PrefixOfPrefix ==
  ASSUME NEW T, NEW s \in Seq(T), NEW n \in 0 .. Len(s), NEW k \in 0 .. n
  PROVE  First(First(s, n), k) = First(s, k)
<1> DEFINE r == First(s, n)
<1>1. k \in 0 .. Len(s)
  BY LenProperties
<1>2. r \in Seq(T) /\ Len(r) = n /\ \A i \in 1 .. n : r[i] = s[i]
  BY Prefix
<1> HIDE DEF r
<1>3. First(r, k) \in Seq(T) /\ Len(First(r, k)) = k
      /\ \A i \in 1 .. k : First(r, k)[i] = r[i]
  BY <1>2, Prefix
<1>4. First(s, k) \in Seq(T) /\ Len(First(s, k)) = k
      /\ \A i \in 1 .. k : First(s, k)[i] = s[i]
  BY <1>1, Prefix
<1>5. \A i \in 1 .. Len(First(r, k)) : First(r, k)[i] = First(s, k)[i]
  BY <1>2, <1>3, <1>4
<1>6. First(r, k) = First(s, k)
  BY <1>3, <1>4, <1>5, SeqEqual
<1> QED
  BY <1>6 DEF r

\* A prefix of a list with a field put before it.
LEMMA PrefixAfterFirst ==
  ASSUME NEW T, NEW h \in T, NEW s \in Seq(T), NEW n \in 0 .. Len(s)
  PROVE  First(<<h>> \o s, n + 1) = <<h>> \o First(s, n)
<1> DEFINE t == <<h>> \o s
           p == First(t, n + 1)
           q == <<h>> \o First(s, n)
<1>1. n \in Nat /\ Len(s) \in Nat
  OBVIOUS
<1>2. /\ t \in Seq(T) /\ Len(t) = Len(s) + 1
      /\ \A i \in 1 .. Len(s) + 1 : t[i] = IF i <= 1 THEN h ELSE s[i - 1]
  OBVIOUS
<1>3. /\ First(s, n) \in Seq(T) /\ Len(First(s, n)) = n
      /\ \A i \in 1 .. n : First(s, n)[i] = s[i]
  BY <1>1, Prefix
<1>4. /\ q \in Seq(T) /\ Len(q) = n + 1
      /\ \A i \in 1 .. n + 1 : q[i] = IF i <= 1 THEN h ELSE s[i - 1]
  BY <1>1, <1>3
<1>5. /\ p \in Seq(T) /\ Len(p) = n + 1
      /\ \A i \in 1 .. n + 1 : p[i] = t[i]
  <2>1. n + 1 \in 0 .. Len(t)
    BY <1>1, <1>2
  <2> HIDE DEF t
  <2> QED
    BY <1>2, <2>1, Prefix
<1>6. \A i \in 1 .. n + 1 : p[i] = q[i]
  <2> HIDE DEF t, p, q
  <2> QED
    BY SMTT(40), <1>1, <1>2, <1>4, <1>5
<1>7. p = q
  <2> HIDE DEF p, q
  <2> QED
    BY <1>4, <1>5, <1>6, SeqEqual
<1> QED
  BY <1>7

LEMMA PrefixOfPrepended ==
  ASSUME NEW T, NEW h \in T, NEW s \in Seq(T), s # <<>>
  PROVE  First(<<h>> \o s, Len(<<h>> \o s) - 1) = <<h>> \o First(s, Len(s) - 1)
<1> DEFINE n == Len(s) - 1
<1>1. n \in 0 .. Len(s) /\ Len(<<h>> \o s) - 1 = n + 1
  BY EmptySeq
<1> HIDE DEF n
<1>2. First(<<h>> \o s, n + 1) = <<h>> \o First(s, n)
  BY <1>1, PrefixAfterFirst
<1> QED
  BY <1>1, <1>2, Zenon DEF n

-----------------------------------------------------------------------------
(* The size of a list.                                                     *)

\* The size of a list is the sum of the sizes at its indices.
LEMMA SizeIsSum ==
  ASSUME NEW T, \A h \in T : FieldSize[h] \in Nat, NEW s \in Seq(T)
  PROVE  /\ [i \in DOMAIN s |-> FieldSize[s[i]]] \in [1 .. Len(s) -> Nat]
         /\ TotalSize(s) = SumFunctionOnSet([i \in DOMAIN s |-> FieldSize[s[i]]], 1 .. Len(s))
         /\ IsFiniteSet(1 .. Len(s))
<1>1. /\ [i \in DOMAIN s |-> FieldSize[s[i]]] \in [1 .. Len(s) -> Nat]
      /\ DOMAIN [i \in DOMAIN s |-> FieldSize[s[i]]] = 1 .. Len(s)
  OBVIOUS
<1>2. IsFiniteSet(1 .. Len(s))
  BY Indices
<1> QED
  BY <1>1, <1>2, Zenon DEF TotalSize, SumFunction

\* A list of fields of at least m is at least that many times m.
LEMMA SizeAtLeast ==
  ASSUME NEW T, NEW m \in Nat, \A h \in T : FieldSize[h] \in Nat /\ FieldSize[h] >= m,
         NEW s \in Seq(T)
  PROVE  TotalSize(s) \in Nat /\ TotalSize(s) >= Len(s) * m
<1> DEFINE f == [i \in DOMAIN s |-> FieldSize[s[i]]]
           D == 1 .. Len(s)
<1>1. \A i \in D : f[i] \in Nat /\ f[i] >= m
  OBVIOUS
<1>2. TotalSize(s) = SumFunctionOnSet(f, D) /\ IsFiniteSet(D)
  BY SizeIsSum
<1>3. Len(s) \in Nat /\ Cardinality(D) = Len(s)
  <2>1. Len(s) \in Nat
    OBVIOUS
  <2> QED
    BY <2>1, Indices
<1> HIDE DEF f, D
<1>4. SumFunctionOnSet(f, D) >= Cardinality(D) * m /\ SumFunctionOnSet(f, D) \in Nat
  BY <1>1, <1>2, SumAtLeast
<1> QED
  BY <1>2, <1>3, <1>4

LEMMA SizeOfNone ==
  ASSUME NEW s, s = <<>>
  PROVE  TotalSize(s) = 0
<1> DEFINE f == [i \in DOMAIN s |-> FieldSize[s[i]]]
<1>1. DOMAIN f = {}
  OBVIOUS
<1>2. SumFunctionOnSet(f, {}) = 0
  BY SumEmpty
<1> HIDE DEF f
<1>3. SumFunction(f) = 0
  BY <1>1, <1>2, Zenon DEF SumFunction
<1> QED
  BY <1>3, Zenon DEF TotalSize, f

\* The last field of a list adds its size to that of the fields before it.
LEMMA SizeLast ==
  ASSUME NEW T, \A h \in T : FieldSize[h] \in Nat, NEW s \in Seq(T), s # <<>>
  PROVE  /\ TotalSize(s) = TotalSize(First(s, Len(s) - 1)) + FieldSize[s[Len(s)]]
         /\ First(s, Len(s) - 1) \in Seq(T)
         /\ s[Len(s)] \in T
<1> DEFINE r == First(s, Len(s) - 1)
           n == Len(s) - 1
           f == [i \in DOMAIN r |-> FieldSize[r[i]]]
           g == [i \in DOMAIN s |-> FieldSize[s[i]]]
<1>1. /\ n \in Nat /\ r \in Seq(T) /\ Len(r) = n
      /\ \A i \in 1 .. n : r[i] = s[i]
      /\ s[Len(s)] \in T
  <2>1. Len(s) \in Nat \ {0}
    BY EmptySeq
  <2>2. Len(s) - 1 \in 0 .. Len(s)
    BY <2>1
  <2> QED
    BY <2>1, <2>2, Prefix
<1>2. /\ f \in [1 .. n -> Int] /\ g \in [1 .. n + 1 -> Int]
      /\ \A i \in 1 .. n : g[i] = f[i]
      /\ g[n + 1] = FieldSize[s[Len(s)]]
  BY <1>1
<1> HIDE DEF f, g, n
<1>3. SumFunction(g) = SumFunction(f) + g[n + 1]
  BY <1>1, <1>2, SumOneMore
<1>4. TotalSize(s) = SumFunction(g) /\ TotalSize(r) = SumFunction(f)
  BY Zenon DEF TotalSize, f, g
<1> QED
  BY <1>1, <1>2, <1>3, <1>4

\* The first field of a list adds its size to that of the fields after it.
LEMMA SizeFirst ==
  ASSUME NEW T, \A h \in T : FieldSize[h] \in Nat, NEW h \in T, NEW s \in Seq(T)
  PROVE  /\ <<h>> \o s \in Seq(T)
         /\ TotalSize(<<h>> \o s) = FieldSize[h] + TotalSize(s)
<1> DEFINE t == <<h>> \o s
           f == [i \in DOMAIN t |-> FieldSize[t[i]]]
           g == [i \in DOMAIN s |-> FieldSize[s[i]]]
           D == 1 .. Len(t)
           E == 1 .. Len(s)
           b == [i \in E |-> i + 1]
<1>1. /\ t \in Seq(T) /\ Len(t) = Len(s) + 1 /\ Len(s) \in Nat
      /\ t[1] = h /\ \A i \in 1 .. Len(s) : t[i + 1] = s[i]
  OBVIOUS
<1>2. /\ 1 \in D /\ \A z : z \in D \ {1} <=> \E i \in E : z = b[i]
      /\ \A x, y \in E : b[x] = b[y] => x = y
  <2>1. 1 \in D /\ \A x \in E : b[x] = x + 1
    BY <1>1
  <2>2. ASSUME NEW x \in D \ {1}
        PROVE  x - 1 \in E /\ x = b[x - 1]
    BY <1>1, <2>1
  <2>3. \A i \in E : b[i] \in D \ {1}
    BY <1>1, <2>1
  <2>4. \A x, y \in E : b[x] = b[y] => x = y
    BY <1>1, <2>1
  <2> HIDE DEF b, D, E
  <2> QED
    BY <2>1, <2>2, <2>3, <2>4
<1>3. /\ \A i \in D : f[i] \in Int
      /\ f[1] = FieldSize[h]
      /\ \A i \in E : g[i] = f[b[i]] /\ g[i] \in Int
  BY <1>1
<1>4. /\ IsFiniteSet(D) /\ IsFiniteSet(E)
      /\ TotalSize(t) = SumFunctionOnSet(f, D) /\ TotalSize(s) = SumFunctionOnSet(g, E)
  <2>1. t \in Seq(T)
    BY <1>1
  <2> HIDE DEF t
  <2> QED
    BY <2>1, SizeIsSum
<1> HIDE DEF f, g, b, D, E, t
<1>5. SumFunctionOnSet(f, D) = f[1] + SumFunctionOnSet(f, D \ {1})
  BY <1>2, <1>3, <1>4, SumRemove
<1>6. SumFunctionOnSet(g, E) = SumFunctionOnSet(f, D \ {1})
  <2>1. IsFiniteSet(E)
    BY <1>4
  <2>2. \A x, y \in E : b[x] = b[y] => x = y
    BY <1>2
  <2>3. \A x \in E : g[x] = f[b[x]] /\ g[x] \in Int
    BY <1>3
  <2> DEFINE U == D \ {1}
  <2>4. \A z : z \in U <=> \E x \in E : z = b[x]
    BY <1>2
  <2> HIDE DEF U
  <2>5. SumFunctionOnSet(g, E) = SumFunctionOnSet(f, U)
    BY ONLY SMTT(40), <2>1, <2>2, <2>3, <2>4, SumRenamed
  <2> QED
    BY <2>5 DEF U
<1>7. TotalSize(t) = FieldSize[h] + TotalSize(s)
  BY <1>2, <1>3, <1>4, <1>5, <1>6
<1> QED
  BY <1>1, <1>7 DEF t

\* A list is not smaller than its first field.
LEMMA SizeOfFirst ==
  ASSUME NEW T, \A h \in T : FieldSize[h] \in Nat, NEW s \in Seq(T), s # <<>>
  PROVE  TotalSize(s) >= FieldSize[s[1]] /\ TotalSize(s) \in Nat
<1>1. s[1] \in T /\ Tail(s) \in Seq(T) /\ s = <<s[1]>> \o Tail(s)
  OBVIOUS
<1>2. TotalSize(<<s[1]>> \o Tail(s)) = FieldSize[s[1]] + TotalSize(Tail(s))
  BY <1>1, SizeFirst
<1>3. TotalSize(Tail(s)) \in Nat /\ FieldSize[s[1]] \in Nat
  <2>1. 0 \in Nat /\ \A h \in T : FieldSize[h] \in Nat /\ FieldSize[h] >= 0
    OBVIOUS
  <2> QED
    BY <1>1, <2>1, SizeAtLeast
<1>4. TotalSize(s) = FieldSize[s[1]] + TotalSize(Tail(s))
  BY <1>1, <1>2
<1> QED
  BY <1>3, <1>4

-----------------------------------------------------------------------------
(* The prefix that fits.                                                   *)

\* The largest of some numbers up to n is one of them.
LEMMA MaxOfSome ==
  ASSUME NEW n \in Nat, NEW S \in SUBSET (0 .. n), S # {}
  PROVE  Max(S) \in S /\ \A k \in S : Max(S) >= k
<1> DEFINE T == {n - k : k \in S}
<1>1. T \subseteq Nat /\ T # {}
  OBVIOUS
<1>2. PICK m \in T : \A k \in T : m <= k
  <2> HIDE DEF T
  <2> QED
    BY <1>1, LeastNat
<1>3. n - m \in S /\ \A k \in S : n - m >= k
  BY <1>2
<1> QED
  BY <1>3, Zenon DEF Max

\* The lengths of the prefixes that fit.
Fitting(s, bound) == {n \in 0 .. Len(s) : TotalSize(First(s, n)) <= bound}

LEMMA FitByLength ==
  ASSUME NEW s, NEW bound
  PROVE  Fit(s, bound) = First(s, Max(Fitting(s, bound)))
BY Zenon DEF Fit, Fitting, First

LEMMA NothingFits ==
  ASSUME NEW T, NEW s \in Seq(T), NEW bound \in Nat
  PROVE  0 \in Fitting(s, bound) /\ Fitting(s, bound) \in SUBSET (0 .. Len(s)) /\ Len(s) \in Nat
<1>1. Len(s) \in Nat /\ 0 \in 0 .. Len(s)
  BY LenProperties
<1>2. TotalSize(First(s, 0)) = 0
  BY <1>1, Prefix, SizeOfNone
<1> QED
  BY <1>1, <1>2 DEF Fitting

\* A list that fits is not shortened.
LEMMA FitAll ==
  ASSUME NEW T, NEW s \in Seq(T), NEW bound \in Nat, TotalSize(s) <= bound
  PROVE  Fit(s, bound) = s
<1>1. First(s, Len(s)) = s /\ Len(s) \in Nat
  BY Prefix, LenProperties
<1>2. Len(s) \in Fitting(s, bound) /\ Fitting(s, bound) \in SUBSET (0 .. Len(s))
  <2>1. TotalSize(First(s, Len(s))) <= bound /\ Len(s) \in 0 .. Len(s)
    BY <1>1
  <2> QED
    BY <2>1, Zenon DEF Fitting
<1>3. Max(Fitting(s, bound)) \in Fitting(s, bound) /\ Max(Fitting(s, bound)) >= Len(s)
  BY <1>1, <1>2, MaxOfSome
<1>4. Max(Fitting(s, bound)) = Len(s)
  BY <1>1, <1>2, <1>3
<1> QED
  BY <1>1, <1>4, FitByLength

\* Of a list that does not fit the last field goes first.
LEMMA FitDropsLast ==
  ASSUME NEW T, NEW s \in Seq(T), NEW bound \in Nat, ~(TotalSize(s) <= bound)
  PROVE  /\ s # <<>>
         /\ First(s, Len(s) - 1) \in Seq(T)
         /\ Fit(s, bound) = Fit(First(s, Len(s) - 1), bound)
<1> DEFINE r == First(s, Len(s) - 1)
<1>1. s # <<>>
  <2>1. s = <<>> => TotalSize(s) = 0
    BY SizeOfNone
  <2> QED
    BY <2>1
<1>2. /\ Len(s) \in Nat \ {0} /\ r \in Seq(T) /\ Len(r) = Len(s) - 1
      /\ First(s, Len(s)) = s
      /\ \A n \in 0 .. Len(s) - 1 : First(r, n) = First(s, n)
  <2>1. Len(s) \in Nat \ {0} /\ Len(s) - 1 \in 0 .. Len(s)
    BY <1>1, EmptySeq
  <2>2. r \in Seq(T) /\ Len(r) = Len(s) - 1 /\ First(s, Len(s)) = s
    BY <2>1, Prefix
  <2>3. ASSUME NEW n \in 0 .. Len(s) - 1
        PROVE  First(r, n) = First(s, n)
    BY <2>1, PrefixOfPrefix
  <2> QED
    BY <2>1, <2>2, <2>3
<1> HIDE DEF r
<1>3. Fitting(s, bound) = Fitting(r, bound)
  <2>1. ASSUME NEW n \in 0 .. Len(s), TotalSize(First(s, n)) <= bound
        PROVE  n \in 0 .. Len(r) /\ TotalSize(First(r, n)) <= bound
    BY <1>2, <2>1
  <2>2. ASSUME NEW n \in 0 .. Len(r), TotalSize(First(r, n)) <= bound
        PROVE  n \in 0 .. Len(s) /\ TotalSize(First(s, n)) <= bound
    BY <1>2, <2>2
  <2> QED
    BY <2>1, <2>2, Zenon DEF Fitting
<1>4. 0 \in Fitting(r, bound) /\ Fitting(r, bound) \in SUBSET (0 .. Len(r))
  BY <1>2, NothingFits
<1>5. Max(Fitting(r, bound)) \in 0 .. Len(r)
  <2>1. Len(r) \in Nat /\ Fitting(r, bound) # {}
    BY <1>2, <1>4
  <2>2. Max(Fitting(r, bound)) \in Fitting(r, bound)
    BY <1>4, <2>1, MaxOfSome
  <2> QED
    BY <1>4, <2>2
<1>6. First(r, Max(Fitting(r, bound))) = First(s, Max(Fitting(s, bound)))
  BY <1>2, <1>3, <1>5
<1>7. Fit(s, bound) = Fit(r, bound)
  BY <1>6, FitByLength
<1> QED
  BY <1>1, <1>2, <1>7 DEF r

\* Nothing of a list fits whose first field does not.
LEMMA FitNone ==
  ASSUME NEW T, \A h \in T : FieldSize[h] \in Nat, NEW s \in Seq(T), s # <<>>,
         NEW bound \in Nat, FieldSize[s[1]] > bound
  PROVE  Fit(s, bound) = <<>>
<1>1. ASSUME NEW n \in 1 .. Len(s)
      PROVE  ~(TotalSize(First(s, n)) <= bound)
  <2>1. First(s, n) \in Seq(T) /\ First(s, n) # <<>> /\ First(s, n)[1] = s[1]
    <3>1. n \in 0 .. Len(s) /\ n \in Nat /\ 1 \in 1 .. n
      BY LenProperties
    <3>2. First(s, n) \in Seq(T) /\ Len(First(s, n)) = n /\ First(s, n)[1] = s[1]
      BY <3>1, Prefix
    <3> QED
      BY <3>1, <3>2, EmptySeq
  <2>2. TotalSize(First(s, n)) >= FieldSize[s[1]] /\ TotalSize(First(s, n)) \in Nat
    BY <2>1, SizeOfFirst
  <2>3. FieldSize[s[1]] \in Nat
    OBVIOUS
  <2> QED
    BY <2>2, <2>3
<1>2. 0 \in Fitting(s, bound) /\ Fitting(s, bound) \in SUBSET (0 .. Len(s)) /\ Len(s) \in Nat
  BY NothingFits
<1>3. Fitting(s, bound) = {0}
  BY <1>1, <1>2 DEF Fitting
<1>4. Max(Fitting(s, bound)) = 0
  BY <1>2, <1>3, MaxOfSome
<1>5. First(s, 0) = <<>>
  BY <1>2, Prefix
<1> QED
  BY <1>4, <1>5, FitByLength

\* Fit returns a prefix that fits, and no longer one does.
LEMMA FitIsLongest ==
  ASSUME NEW T, NEW s \in Seq(T), NEW bound \in Nat
  PROVE  \E n \in 0 .. Len(s) :
           /\ Fit(s, bound) = First(s, n)
           /\ TotalSize(First(s, n)) <= bound
           /\ \A k \in 0 .. Len(s) : TotalSize(First(s, k)) <= bound => k <= n
<1> DEFINE n == Max(Fitting(s, bound))
<1>1. 0 \in Fitting(s, bound) /\ Fitting(s, bound) \in SUBSET (0 .. Len(s)) /\ Len(s) \in Nat
  BY NothingFits
<1>2. n \in Fitting(s, bound) /\ \A k \in Fitting(s, bound) : n >= k
  BY <1>1, MaxOfSome
<1>3. Fit(s, bound) = First(s, n)
  BY FitByLength
<1> HIDE DEF n
<1>4. n \in 0 .. Len(s) /\ TotalSize(First(s, n)) <= bound
  BY <1>2, Zenon DEF Fitting
<1>5. ASSUME NEW k \in 0 .. Len(s), TotalSize(First(s, k)) <= bound
      PROVE  k <= n
  <2>1. k \in Fitting(s, bound)
    BY <1>5, Zenon DEF Fitting
  <2> QED
    BY <1>2, <1>4, <2>1
<1> QED
  BY <1>3, <1>4, <1>5, Zenon

\* A field that fits is kept, and of the fields after it what fits the rest.
LEMMA FitPrepended ==
  ASSUME NEW T, \A h \in T : FieldSize[h] \in Nat, NEW h \in T, NEW s \in Seq(T),
         NEW bound \in Nat, FieldSize[h] <= bound
  PROVE  Fit(<<h>> \o s, bound) = <<h>> \o Fit(s, bound - FieldSize[h])
<1> DEFINE t == <<h>> \o s
           rest == bound - FieldSize[h]
<1>1. /\ t \in Seq(T) /\ Len(t) = Len(s) + 1 /\ Len(s) \in Nat
      /\ FieldSize[h] \in Nat /\ rest \in Nat
  OBVIOUS
<1>2. ASSUME NEW k \in 0 .. Len(s)
      PROVE  /\ First(t, k + 1) = <<h>> \o First(s, k)
             /\ TotalSize(First(t, k + 1)) = FieldSize[h] + TotalSize(First(s, k))
             /\ TotalSize(First(s, k)) \in Nat
  <2>1. First(t, k + 1) = <<h>> \o First(s, k)
    BY PrefixAfterFirst
  <2>2. First(s, k) \in Seq(T)
    BY Prefix
  <2>3. TotalSize(<<h>> \o First(s, k)) = FieldSize[h] + TotalSize(First(s, k))
    BY <2>2, SizeFirst
  <2>4. TotalSize(First(s, k)) \in Nat
    <3>1. 0 \in Nat /\ \A x \in T : FieldSize[x] \in Nat /\ FieldSize[x] >= 0
      OBVIOUS
    <3> QED
      BY <2>2, <3>1, SizeAtLeast
  <2> HIDE DEF t
  <2> QED
    BY <2>1, <2>3, <2>4
<1> HIDE DEF t
<1>3. PICK n \in 0 .. Len(s) :
        /\ Fit(s, rest) = First(s, n)
        /\ TotalSize(First(s, n)) <= rest
        /\ \A k \in 0 .. Len(s) : TotalSize(First(s, k)) <= rest => k <= n
  <2>1. rest \in Nat
    BY <1>1
  <2> HIDE DEF rest
  <2> QED
    BY <2>1, FitIsLongest
<1>4. PICK m \in 0 .. Len(t) :
        /\ Fit(t, bound) = First(t, m)
        /\ TotalSize(First(t, m)) <= bound
        /\ \A k \in 0 .. Len(t) : TotalSize(First(t, k)) <= bound => k <= m
  BY <1>1, FitIsLongest
<1>5. m = n + 1
  <2>1. TotalSize(First(t, n + 1)) <= bound /\ n + 1 \in 0 .. Len(t)
    BY SMTT(40), <1>1, <1>2, <1>3
  <2>2. n + 1 <= m
    BY <1>4, <2>1
  <2>3. m - 1 \in 0 .. Len(s) /\ m - 1 + 1 = m
    BY <1>1, <1>3, <2>2
  <2>4. TotalSize(First(t, m)) = FieldSize[h] + TotalSize(First(s, m - 1))
        /\ TotalSize(First(s, m - 1)) \in Nat
    <3> DEFINE k == m - 1
    <3>1. k \in 0 .. Len(s) /\ k + 1 = m
      BY <2>3
    <3> HIDE DEF k
    <3>2. TotalSize(First(t, k + 1)) = FieldSize[h] + TotalSize(First(s, k))
          /\ TotalSize(First(s, k)) \in Nat
      BY <1>2, <3>1
    <3> QED
      BY <3>1, <3>2 DEF k
  <2>5. TotalSize(First(s, m - 1)) <= rest
    BY SMTT(40), <1>1, <1>4, <2>4
  <2>6. m - 1 <= n
    BY <1>3, <2>3, <2>5
  <2> QED
    BY <1>3, <1>4, <2>2, <2>6
<1>6. First(t, m) = <<h>> \o First(s, n)
  BY <1>2, <1>5
<1>7. Fit(t, bound) = <<h>> \o Fit(s, rest)
  BY <1>3, <1>4, <1>6
<1> QED
  BY <1>7 DEF t
=============================================================================
