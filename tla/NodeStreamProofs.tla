-------------------------- MODULE NodeStreamProofs --------------------------
(***************************************************************************)
(* What one stream of the node server makes of the frames it hears and of  *)
(* what its user says, for any windows, buffers and chunks: every          *)
(* operation of the stream and of its flow keeps an account of the bytes,  *)
(* in order, of the marks of the end, and of the credit of the windows.    *)
(***************************************************************************)
EXTENDS NodeDialogue, SumLemmas, SequenceTheorems, FiniteSetsExt

-----------------------------------------------------------------------------
(* Recursion along a sequence, for a step that is a function on a set V.   *)

\* What holds at 0 and goes on from k - 1 to k holds up to n.
LEMMA UpTo ==
  ASSUME NEW n \in Nat, NEW P, 0 \in P, \A k \in 1 .. n : k - 1 \in P => k \in P
  PROVE  0 .. n \subseteq P
<1>. DEFINE Wrong == {k \in 0 .. n : k \notin P}
<1>1. Wrong \subseteq Nat
  OBVIOUS
<1>2. ASSUME Wrong # {} PROVE FALSE
  <2>1. PICK m \in Wrong : \A k \in Wrong : m <= k
    BY <1>1, <1>2, LeastNat
  <2>2. m \in 1 .. n /\ m - 1 \in 0 .. n /\ ~(m <= m - 1)
    BY <2>1
  <2>3. m - 1 \in P
    BY <2>1, <2>2
  <2>. QED
    BY <2>1, <2>2, <2>3
<1>. QED
  BY <1>2

\* The largest number of a set of indices.
LEMMA LargestIndex ==
  ASSUME NEW n \in Nat, NEW S \in SUBSET (1 .. n), S # {}
  PROVE  Max(S) \in S /\ \A k \in S : Max(S) >= k
<1>. DEFINE Below == {k \in Nat : \A i \in S : k >= i}
<1>1. Below \subseteq Nat /\ n \in Below
  OBVIOUS
<1>2. PICK m \in Below : \A k \in Below : m <= k
  <2>. HIDE DEF Below
  <2>. QED
    BY <1>1, LeastNat
<1>3. m \in S
  <2>. SUFFICES ASSUME m \notin S PROVE FALSE
    OBVIOUS
  <2>1. PICK i \in S : TRUE
    OBVIOUS
  <2>2. m > i /\ m - 1 \in Nat
    BY <1>2
  <2>3. \A j \in S : m - 1 >= j
    BY <1>2
  <2>. QED
    BY <1>2, <2>2, <2>3
<1>4. \E x \in S : \A k \in S : x >= k
  BY <1>2, <1>3
<1>. QED
  BY <1>4 DEF Max

\* Step takes an index and a value of V to a value of V.
StepIn(n, V, base, Step) == base \in V /\ Step \in [(1 .. n) \X V -> V]

\* The fold over each set of indices in D, a smaller one being known.
FoldStep(Step, base, D, g) ==
  [s \in D |-> IF s = {} THEN base ELSE Step[<<Max(s), g[s \ {Max(s)}]>>]]

FoldSolves(Step, base, D, g) == g = FoldStep(Step, base, D, g)

\* The recursive function behind a fold of a sequence of length n.
IsFold(n, base, Step, g) == g = FoldStep(Step, base, SUBSET (1 .. n), g)

\* A fold whose step stays in V has a solution, and it stays in V.
LEMMA FoldsExist ==
  ASSUME NEW n \in Nat, NEW V, NEW base, NEW Step, StepIn(n, V, base, Step)
  PROVE  \E g \in [SUBSET (1 .. n) -> V] : IsFold(n, base, Step, g)
<1>. DEFINE S == 1 .. n
            Level(k) == {s \in SUBSET S : Cardinality(s) <= k}
            Solved(k) == \E g \in [Level(k) -> V] : FoldSolves(Step, base, Level(k), g)
            P == {k \in Nat : Solved(k)}
<1>. base \in V /\ Step \in [(1 .. n) \X V -> V]
  BY DEF StepIn
<1>0. /\ IsFiniteSet(S) /\ Cardinality(S) = n
      /\ \A s \in SUBSET S : IsFiniteSet(s) /\ Cardinality(s) \in Nat
  <2>1. IsFiniteSet(S) /\ Cardinality(S) = n
    BY FS_Interval
  <2>2. ASSUME NEW s \in SUBSET S PROVE IsFiniteSet(s) /\ Cardinality(s) \in Nat
    <3>. HIDE DEF S
    <3>. QED
      BY <2>1, FS_Subset, FS_CardinalityType
  <2>. QED
    BY <2>1, <2>2
<1>1. Solved(0)
  <2>. DEFINE g == [s \in Level(0) |-> base]
  <2>1. \A s \in Level(0) : s = {}
    BY <1>0, FS_EmptySet
  <2>2. g = FoldStep(Step, base, Level(0), g)
    BY <2>1 DEF FoldStep
  <2>. QED
    BY <2>2 DEF FoldSolves
<1>2. ASSUME NEW k \in Nat, Solved(k)
      PROVE  Solved(k + 1)
  <2>1. PICK g \in [Level(k) -> V] : g = FoldStep(Step, base, Level(k), g)
    BY <1>2 DEF FoldSolves
  <2>. DEFINE h == FoldStep(Step, base, Level(k + 1), g)
  <2>2. ASSUME NEW s \in Level(k + 1), s # {}
        PROVE  Max(s) \in 1 .. n /\ s \ {Max(s)} \in Level(k)
    <3>1. s \in SUBSET (1 .. n) /\ s \in SUBSET S /\ Cardinality(s) <= k + 1
      OBVIOUS
    <3>2. Max(s) \in s
      BY <2>2, <3>1, LargestIndex
    <3>3. /\ s \ {Max(s)} \in SUBSET S
          /\ Cardinality(s \ {Max(s)}) = Cardinality(s) - 1 /\ Cardinality(s) \in Nat
      BY <1>0, <3>1, <3>2, Smaller
    <3>4. Cardinality(s \ {Max(s)}) <= k
      BY <3>1, <3>3
    <3>. QED
      BY <3>1, <3>2, <3>3, <3>4
  <2>3. h \in [Level(k + 1) -> V]
    <3>1. ASSUME NEW s \in Level(k + 1), s # {}
          PROVE  Step[<<Max(s), g[s \ {Max(s)}]>>] \in V
      <4>. HIDE DEF Level
      <4>. QED
        BY <2>2, <3>1
    <3>. HIDE DEF Level
    <3>. QED
      BY <3>1 DEF FoldStep
  <2>4. \A s \in Level(k) : h[s] = g[s]
    <3>1. Level(k) \subseteq Level(k + 1)
      BY <1>0
    <3>2. \A s \in Level(k) : g[s] = FoldStep(Step, base, Level(k), g)[s]
      BY <2>1
    <3>. HIDE DEF Level
    <3>. QED
      BY <3>1, <3>2 DEF FoldStep
  <2>5. h = FoldStep(Step, base, Level(k + 1), h)
    <3>1. \A s \in Level(k + 1) : s # {} => h[s \ {Max(s)}] = g[s \ {Max(s)}]
      <4>. HIDE DEF Level, h
      <4>. QED
        BY <2>2, <2>4
    <3>2. FoldStep(Step, base, Level(k + 1), g) = FoldStep(Step, base, Level(k + 1), h)
      <4>. HIDE DEF Level, h
      <4>. QED
        BY <3>1 DEF FoldStep
    <3>. QED
      BY <3>2
  <2>. HIDE DEF h, Level
  <2>. QED
    BY <2>3, <2>5 DEF FoldSolves
<1>3. n \in P
  <2>1. 0 \in P
    BY <1>1
  <2>2. \A k \in 1 .. n : k - 1 \in P => k \in P
    <3>. SUFFICES ASSUME NEW k \in 1 .. n, k - 1 \in P PROVE k \in P
      OBVIOUS
    <3>1. k - 1 \in Nat /\ Solved(k - 1) /\ (k - 1) + 1 = k
      <4>. HIDE DEF Solved
      <4>. QED
        OBVIOUS
    <3>2. Solved((k - 1) + 1)
      <4>. HIDE DEF Solved
      <4>. QED
        BY <1>2, <3>1
    <3>. HIDE DEF Solved
    <3>. QED
      BY <3>1, <3>2
  <2>3. 0 .. n \subseteq P
    <3>. HIDE DEF P
    <3>. QED
      BY <2>1, <2>2, UpTo
  <2>. HIDE DEF P
  <2>. QED
    BY <2>3
<1>4. Level(n) = SUBSET S
  BY <1>0, FS_Subset
<1>. QED
  BY <1>3, <1>4 DEF FoldSolves, IsFold

\* The values that h goes through, one step each.
Runs(n, base, Step, h) ==
  h[0] = base /\ \A k \in 1 .. n : h[k] = Step[<<k, h[k - 1]>>]

\* What g says of a set of indices follows from what it says of a smaller one,
\* as far as that is in V.
Obeys(n, V, base, Step, g) ==
  /\ g[{}] = base
  /\ \A s \in SUBSET (1 .. n) :
       s # {} /\ g[s \ {Max(s)}] \in V => g[s] = Step[<<Max(s), g[s \ {Max(s)}]>>]

\* Along 1 .. n such a function goes through values of V.
LEMMA FoldRuns ==
  ASSUME NEW n \in Nat, NEW V, NEW base, NEW Step, StepIn(n, V, base, Step),
         NEW g, Obeys(n, V, base, Step, g)
  PROVE  \E h \in [0 .. n -> V] : Runs(n, base, Step, h) /\ h[n] = g[1 .. n]
<1>. DEFINE h == [k \in 0 .. n |-> g[1 .. k]]
            P == {k \in 0 .. n : h[k] \in V}
<1>. base \in V /\ Step \in [(1 .. n) \X V -> V]
  BY DEF StepIn
<1>1. 1 .. 0 = {}
  OBVIOUS
<1>2. h[0] = base
  BY <1>1 DEF Obeys
<1>3. ASSUME NEW k \in 1 .. n, h[k - 1] \in V
      PROVE  h[k] = Step[<<k, h[k - 1]>>]
  <2>1. (1 .. k) \in SUBSET (1 .. n) /\ (1 .. k) # {}
    OBVIOUS
  <2>2. Max(1 .. k) = k
    <3>1. Max(1 .. k) \in 1 .. k /\ \A i \in 1 .. k : Max(1 .. k) >= i
      BY <2>1, LargestIndex
    <3>. QED
      BY <3>1
  <2>3. (1 .. k) \ {k} = 1 .. (k - 1)
    OBVIOUS
  <2>4. h[k] = g[1 .. k] /\ h[k - 1] = g[1 .. (k - 1)]
    OBVIOUS
  <2>5. g[(1 .. k) \ {Max(1 .. k)}] \in V
    BY <1>3, <2>2, <2>3, <2>4
  <2>6. g[1 .. k] = Step[<<Max(1 .. k), g[(1 .. k) \ {Max(1 .. k)}]>>]
    <3>. DEFINE s == 1 .. k
    <3>. HIDE DEF s
    <3>. QED
      BY <2>1, <2>5 DEF Obeys, s
  <2>7. g[1 .. k] = Step[<<k, g[1 .. (k - 1)]>>]
    BY <2>2, <2>3, <2>6
  <2>. HIDE DEF h
  <2>. QED
    BY <2>4, <2>7
<1>4. 0 .. n \subseteq P
  <2>1. 0 \in P
    BY <1>2
  <2>2. \A k \in 1 .. n : k - 1 \in P => k \in P
    <3>. SUFFICES ASSUME NEW k \in 1 .. n, k - 1 \in P PROVE k \in P
      OBVIOUS
    <3>. HIDE DEF h
    <3>1. h[k - 1] \in V /\ h[k] = Step[<<k, h[k - 1]>>] /\ k \in 0 .. n
      BY <1>3
    <3>. QED
      BY <3>1
  <2>. HIDE DEF P
  <2>. QED
    BY <2>1, <2>2, UpTo
<1>5. h \in [0 .. n -> V] /\ h[n] = g[1 .. n]
  BY <1>4
<1>6. ASSUME NEW k \in 1 .. n PROVE h[k] = Step[<<k, h[k - 1]>>]
  <2>1. h[k - 1] \in V
    <3>. HIDE DEF h
    <3>. QED
      BY <1>5
  <2>. QED
    BY <1>3, <2>1
<1>. HIDE DEF h
<1>. QED
  BY <1>2, <1>5, <1>6 DEF Runs

\* A function given by its values satisfies the recursion that it was given by.
LEMMA FoldObeys ==
  ASSUME NEW n \in Nat, NEW V, NEW base, NEW Step, NEW g, IsFold(n, base, Step, g)
  PROVE  Obeys(n, V, base, Step, g)
<1>1. g = FoldStep(Step, base, SUBSET (1 .. n), g)
  BY DEF IsFold
<1>2. ASSUME NEW s \in SUBSET (1 .. n)
      PROVE  g[s] = IF s = {} THEN base ELSE Step[<<Max(s), g[s \ {Max(s)}]>>]
  BY <1>1 DEF FoldStep
<1>. QED
  BY <1>2 DEF Obeys

\* A step in V has a run along 1 .. n, and two runs by the same steps are one.
LEMMA RunsExist ==
  ASSUME NEW n \in Nat, NEW V, NEW base, NEW Step, StepIn(n, V, base, Step)
  PROVE  \E h \in [0 .. n -> V] : Runs(n, base, Step, h)
<1>1. PICK g \in [SUBSET (1 .. n) -> V] : IsFold(n, base, Step, g)
  BY FoldsExist
<1>2. Obeys(n, V, base, Step, g)
  BY <1>1, FoldObeys
<1>3. PICK h \in [0 .. n -> V] : Runs(n, base, Step, h) /\ h[n] = g[1 .. n]
  BY <1>2, FoldRuns
<1>. QED
  BY <1>3

Follows(n, g, h) ==
  g[0] = h[0] /\ \A k \in 1 .. n : g[k - 1] = h[k - 1] => g[k] = h[k]

\* Two functions that follow the same recursion are equal.
LEMMA RunsEqual ==
  ASSUME NEW n \in Nat, NEW g, NEW h, Follows(n, g, h)
  PROVE  \A k \in 0 .. n : g[k] = h[k]
<1>. DEFINE P == {k \in 0 .. n : g[k] = h[k]}
<1>1. 0 \in P /\ \A k \in 1 .. n : k - 1 \in P => k \in P
  BY DEF Follows
<1>2. 0 .. n \subseteq P
  <2>. HIDE DEF P
  <2>. QED
    BY <1>1, UpTo
<1>. QED
  BY <1>2
\* Concatenation is associative.
LEMMA Associative ==
  ASSUME NEW S, NEW c \in Seq(S), NEW d \in Seq(S), NEW e \in Seq(S)
  PROVE  (c \o d) \o e = c \o (d \o e)
BY SMTT(40)

-----------------------------------------------------------------------------
(* Lists of frames: their bytes, their increments, and the frames that end *)
(* a stream.                                                               *)

\* FlattenSeq goes through the sequences that it joins one by one.
LEMMA FlattenRuns ==
  ASSUME NEW S, NEW D \in Seq(Seq(S))
  PROVE  \E h \in [0 .. Len(D) -> Seq(S)] :
            /\ h[0] = <<>> /\ \A k \in 1 .. Len(D) : h[k] = h[k - 1] \o D[k]
            /\ FlattenSeq(D) = h[Len(D)]
<1>. DEFINE n == Len(D)
            Step == [p \in (1 .. n) \X Seq(S) |-> p[2] \o D[p[1]]]
<1>0. n \in Nat /\ \A k \in 1 .. n : D[k] \in Seq(S)
  BY LenProperties, ElementOfSeq
<1>1. Step \in [(1 .. n) \X Seq(S) -> Seq(S)]
  <2>1. ASSUME NEW p \in (1 .. n) \X Seq(S) PROVE p[2] \o D[p[1]] \in Seq(S)
    <3>1. p[2] \in Seq(S) /\ D[p[1]] \in Seq(S)
      BY <1>0
    <3>. QED
      BY <3>1, ConcatProperties
  <2>. QED
    BY <2>1
<1>2. \A k \in 1 .. n, v \in Seq(S) : Step[<<k, v>>] = v \o D[k]
  OBVIOUS
<1>3. PICK h \in [0 .. n -> Seq(S)] :
            Runs(n, <<>>, Step, h)
  <2>1. <<>> \in Seq(S)
    BY EmptySeq
  <2>2. StepIn(n, Seq(S), <<>>, Step)
    BY <1>1, <2>1 DEF StepIn
  <2>. HIDE DEF Step, n
  <2>. QED
    BY <1>0, <2>2, RunsExist
<1>. HIDE DEF Step
<1>4. ASSUME NEW k \in 1 .. n PROVE h[k] = h[k - 1] \o D[k]
  <2>0. k - 1 \in 0 .. n
    BY <1>0
  <2>1. h[k - 1] \in Seq(S)
    <3>. HIDE DEF n
    <3>. QED
      BY <2>0
  <2>2. Step[<<k, h[k - 1]>>] = h[k - 1] \o D[k]
    BY <1>2, <2>1, Zenon
  <2>3. h[k] = Step[<<k, h[k - 1]>>]
    BY <1>3, Zenon DEF Runs
  <2>. QED
    BY <2>2, <2>3, Zenon
<1>5. FlattenSeq(D) = h[n]
  <2>1. CASE n = 0
    <3>1. D = <<>>
      BY <2>1, EmptySeq
    <3>. QED
      BY <1>3, <2>1, <3>1 DEF FlattenSeq, Runs
  <2>2. CASE n # 0
    <3>. DEFINE Flat(g) == [i \in 1 .. n |-> IF i = 1 THEN D[i] ELSE g[i - 1] \o D[i]]
                c == CHOOSE g : g = Flat(g)
                r == [i \in 1 .. n |-> h[i]]
    <3>1. FlattenSeq(D) = c[n]
      BY <2>2, Zenon DEF FlattenSeq
    <3>2. h[1] = D[1]
      <4>1. 1 \in 1 .. n /\ 1 - 1 = 0
        BY <1>0, <2>2
      <4>2. h[1] = h[0] \o D[1]
        BY <1>4, <4>1
      <4>3. <<>> \o D[1] = D[1]
        BY <1>0, <4>1, ConcatEmptySeq
      <4>. QED
        BY <1>3, <4>2, <4>3, Zenon DEF Runs
    <3>3. ASSUME NEW i \in 1 .. n
          PROVE  r[i] = IF i = 1 THEN D[i] ELSE r[i - 1] \o D[i]
      <4>1. r[i] = h[i]
        OBVIOUS
      <4>2. CASE i = 1
        BY <3>2, <4>1, <4>2
      <4>3. CASE i # 1
        <5>1. i - 1 \in 1 .. n
          BY <1>0, <4>3
        <5>2. r[i - 1] = h[i - 1]
          BY <5>1
        <5>3. h[i] = h[i - 1] \o D[i]
          BY <1>4
        <5>. HIDE DEF r
        <5>. QED
          BY <4>1, <4>3, <5>2, <5>3, Zenon
      <4>. QED
        BY <4>2, <4>3
    <3>4. r = Flat(r)
      BY <3>3
    <3>5. c = Flat(c)
      <4>. HIDE DEF r, Flat
      <4>. QED
        BY <3>4
    <3>. HIDE DEF c
    <3>6. ASSUME NEW k \in 1 .. n
          PROVE  c[k] = IF k = 1 THEN D[k] ELSE c[k - 1] \o D[k]
      BY <3>5, Zenon
    <3>. DEFINE d == [k \in 0 .. n |-> IF k = 0 THEN <<>> ELSE c[k]]
    <3>7. d[0] = h[0]
      BY <1>0, <1>3 DEF Runs
    <3>8. ASSUME NEW k \in 1 .. n, d[k - 1] = h[k - 1] PROVE d[k] = h[k]
      <4>1. d[k] = c[k]
        BY <1>0
      <4>2. CASE k = 1
        BY <3>2, <3>6, <4>1, <4>2
      <4>3. CASE k # 1
        <5>1. d[k - 1] = c[k - 1]
          BY <1>0, <4>3
        <5>2. c[k] = c[k - 1] \o D[k]
          BY <3>6, <4>3, Zenon
        <5>3. h[k] = h[k - 1] \o D[k]
          BY <1>4
        <5>. HIDE DEF d
        <5>. QED
          BY <3>8, <4>1, <5>1, <5>2, <5>3, Zenon
      <4>. QED
        BY <4>2, <4>3
    <3>9. n \in 0 .. n
      BY <1>0
    <3>10. d[n] = h[n]
      <4>. HIDE DEF d, n
      <4>1. Follows(n, d, h)
        BY <3>7, <3>8 DEF Follows
      <4>. QED
        BY <1>0, <3>9, <4>1, RunsEqual
    <3>11. d[n] = c[n]
      BY <1>0, <2>2
    <3>. QED
      BY <3>1, <3>10, <3>11
  <2>. QED
    BY <2>1, <2>2
<1>. QED
  BY <1>3, <1>4, <1>5 DEF Runs

\* What a byte is: its place in the body.
Octet == Nat

FrameTypes == {"HEADERS", "DATA", "RST_STREAM", "WINDOW_UPDATE", "BLOCKED"}

\* The frames of a dialogue: only DATA has bytes, only WINDOW_UPDATE increments, and
\* only DATA and HEADERS may have the mark of the end.
Frames ==
  {x \in [type : FrameTypes, data : Seq(Octet), end : BOOLEAN, inc : Nat, count : Int] :
     /\ x.type # "DATA" => x.data = <<>>
     /\ x.end => x.type \in {"DATA", "HEADERS"}
     /\ x.type # "WINDOW_UPDATE" => x.inc = 0}

\* Joining bytes is associative.
LEMMA DataAssociative ==
  ASSUME NEW x \in Seq(Octet), NEW y \in Seq(Octet), NEW z \in Seq(Octet)
  PROVE  (x \o y) \o z = x \o (y \o z)
BY SMTT(40), Associative

\* A running account h of the bytes of L, and one of its increments.
CountsBytes(L, h) ==
  /\ h \in [0 .. Len(L) -> Seq(Octet)] /\ h[0] = <<>>
  /\ \A k \in 1 .. Len(L) : h[k] = h[k - 1] \o L[k].data

CountsIncrements(L, h) ==
  /\ h \in [0 .. Len(L) -> Int] /\ h[0] = 0
  /\ \A k \in 1 .. Len(L) : h[k] = h[k - 1] + L[k].inc

\* An element of a list of frames is a frame.
LEMMA FrameOfList ==
  ASSUME NEW L \in Seq(Frames), NEW k \in 1 .. Len(L)
  PROVE  L[k] \in Frames /\ L[k].data \in Seq(Octet) /\ L[k].inc \in Int
<1>1. L[k] \in Frames
  BY ElementOfSeq
<1>. QED
  BY SMTT(40), <1>1 DEF Frames

\* The bytes of a list are the end of a running account.
LEMMA BytesRun ==
  ASSUME NEW L \in Seq(Frames)
  PROVE  \E h : CountsBytes(L, h) /\ Bytes(L) = h[Len(L)]
<1>. DEFINE D == [i \in 1 .. Len(L) |-> L[i].data]
<1>1. D \in Seq(Seq(Octet)) /\ Len(D) = Len(L) /\ \A i \in 1 .. Len(L) : D[i] = L[i].data
  <2>1. Len(L) \in Nat /\ \A i \in 1 .. Len(L) : L[i].data \in Seq(Octet)
    BY LenProperties, FrameOfList
  <2>. QED
    BY <2>1
<1>2. Bytes(L) = FlattenSeq(D)
  BY DEF Bytes
<1>. HIDE DEF D
<1>3. PICK h \in [0 .. Len(D) -> Seq(Octet)] :
            /\ h[0] = <<>> /\ \A k \in 1 .. Len(D) : h[k] = h[k - 1] \o D[k]
            /\ FlattenSeq(D) = h[Len(D)]
  BY <1>1, FlattenRuns
<1>4. ASSUME NEW k \in 1 .. Len(L) PROVE h[k] = h[k - 1] \o L[k].data
  <2>1. h[k] = h[k - 1] \o D[k]
    BY <1>1, <1>3, Zenon
  <2>. QED
    BY <1>1, <2>1, Zenon
<1>5. CountsBytes(L, h)
  BY <1>1, <1>3, <1>4 DEF CountsBytes
<1>. QED
  BY <1>1, <1>2, <1>3, <1>5

\* There is one account.
LEMMA BytesCounted ==
  ASSUME NEW L \in Seq(Frames), NEW h, CountsBytes(L, h)
  PROVE  Bytes(L) = h[Len(L)] /\ Bytes(L) \in Seq(Octet)
<1>1. PICK r : CountsBytes(L, r) /\ Bytes(L) = r[Len(L)]
  BY BytesRun
<1>2. Len(L) \in Nat /\ Len(L) \in 0 .. Len(L)
  BY LenProperties
<1>3. Follows(Len(L), r, h)
  <2>1. r[0] = h[0]
    BY <1>1 DEF CountsBytes
  <2>2. ASSUME NEW k \in 1 .. Len(L), r[k - 1] = h[k - 1] PROVE r[k] = h[k]
    <3>1. r[k] = r[k - 1] \o L[k].data
      BY <1>1, Zenon DEF CountsBytes
    <3>2. h[k] = h[k - 1] \o L[k].data
      BY Zenon DEF CountsBytes
    <3>. QED
      BY <2>2, <3>1, <3>2, Zenon
  <2>. QED
    BY <2>1, <2>2 DEF Follows
<1>4. r[Len(L)] = h[Len(L)]
  BY <1>2, <1>3, RunsEqual
<1>5. r[Len(L)] \in Seq(Octet)
  BY <1>1, <1>2 DEF CountsBytes
<1>. QED
  BY <1>1, <1>4, <1>5

\* The bytes of a list are octets.
LEMMA BytesType == ASSUME NEW L \in Seq(Frames) PROVE Bytes(L) \in Seq(Octet)
BY BytesRun, BytesCounted

\* The bytes of two lists, one after the other, are those of the first, then
\* those of the second.
LEMMA BytesJoin ==
  ASSUME NEW L \in Seq(Frames), NEW M \in Seq(Frames)
  PROVE  Bytes(L \o M) = Bytes(L) \o Bytes(M)
<1>1. PICK g : CountsBytes(L, g) /\ Bytes(L) = g[Len(L)]
  BY BytesRun
<1>2. PICK h : CountsBytes(M, h) /\ Bytes(M) = h[Len(M)]
  BY BytesRun
<1>. DEFINE N == L \o M
            l == Len(L)
            m == Len(M)
            t == [k \in 0 .. m |-> g[l] \o h[k]]
            r == [k \in 0 .. l + m |-> IF k <= l THEN g[k] ELSE t[k - l]]
<1>3. /\ l \in Nat /\ m \in Nat /\ N \in Seq(Frames) /\ Len(N) = l + m
      /\ \A k \in 1 .. l : N[k] = L[k]
      /\ \A k \in l + 1 .. l + m : N[k] = M[k - l]
  <2>1. l \in Nat /\ m \in Nat
    BY LenProperties
  <2>2. N \in Seq(Frames) /\ Len(N) = l + m
    BY ConcatProperties
  <2>3. \A k \in 1 .. l + m : N[k] = IF k <= l THEN L[k] ELSE M[k - l]
    BY ConcatProperties, Zenon
  <2>. HIDE DEF l, m, N
  <2>. QED
    BY <2>1, <2>2, <2>3
<1>. HIDE DEF N
<1>4. /\ \A k \in 0 .. l : g[k] \in Seq(Octet)
      /\ \A k \in 1 .. l : g[k] = g[k - 1] \o L[k].data
      /\ g[0] = <<>> /\ Bytes(L) = g[l]
  BY <1>1, Zenon DEF CountsBytes
<1>5. /\ \A k \in 0 .. m : h[k] \in Seq(Octet)
      /\ \A k \in 1 .. m : h[k] = h[k - 1] \o M[k].data
      /\ h[0] = <<>> /\ Bytes(M) = h[m]
  BY <1>2, Zenon DEF CountsBytes
<1>6. \A k \in 1 .. m : M[k].data \in Seq(Octet)
  BY FrameOfList
<1>. HIDE DEF l, m
<1>7. \A k \in 0 .. m : t[k] = g[l] \o h[k]
  BY Zenon
<1>. HIDE DEF t
<1>8. g[l] \in Seq(Octet)
  BY <1>3, <1>4
<1>9. t[0] = g[l]
  <2>1. g[l] \o <<>> = g[l]
    BY <1>8, ConcatEmptySeq
  <2>2. 0 \in 0 .. m
    BY <1>3
  <2>. QED
    BY <1>5, <1>7, <2>1, <2>2, Zenon
<1>10. \A k \in 0 .. m : t[k] \in Seq(Octet)
  BY <1>5, <1>7, <1>8, ConcatProperties, ZenonT(60)
<1>11. ASSUME NEW k \in 1 .. m PROVE t[k] = t[k - 1] \o M[k].data
  <2>1. k \in 0 .. m /\ k - 1 \in 0 .. m
    BY <1>3
  <2>2. (g[l] \o h[k - 1]) \o M[k].data = g[l] \o (h[k - 1] \o M[k].data)
    <3>1. h[k - 1] \in Seq(Octet) /\ M[k].data \in Seq(Octet)
      BY <1>5, <1>6, <2>1, Zenon
    <3>. DEFINE a == g[l]
                b == h[k - 1]
                d == M[k].data
    <3>2. a \in Seq(Octet) /\ b \in Seq(Octet) /\ d \in Seq(Octet)
      BY <1>8, <3>1
    <3>. HIDE DEF a, b, d
    <3>3. (a \o b) \o d = a \o (b \o d)
      BY <3>2, DataAssociative
    <3>. QED
      BY <3>3 DEF a, b, d
  <2>. QED
    BY <1>5, <1>7, <2>1, <2>2, Zenon
<1>12. /\ \A k \in 0 .. l : r[k] = g[k]
       /\ \A k \in 0 .. m : r[l + k] = t[k]
  BY <1>3, <1>9
<1>13. r \in [0 .. l + m -> Seq(Octet)]
  <2>1. ASSUME NEW k \in 0 .. l + m, ~(k <= l) PROVE t[k - l] \in Seq(Octet)
    BY <1>3, <1>10, <2>1
  <2>2. ASSUME NEW k \in 0 .. l + m, k <= l PROVE g[k] \in Seq(Octet)
    BY <1>3, <1>4, <2>2
  <2>. QED
    BY <2>1, <2>2
<1>. HIDE DEF r
<1>14. ASSUME NEW k \in 1 .. l + m PROVE r[k] = r[k - 1] \o N[k].data
  <2>1. CASE k <= l
    <3>1. k \in 1 .. l /\ k \in 0 .. l /\ k - 1 \in 0 .. l
      BY <1>3, <2>1
    <3>. QED
      BY <1>3, <1>4, <1>12, <3>1, Zenon
  <2>2. CASE ~(k <= l)
    <3>. DEFINE i == k - l
    <3>1. /\ i \in 1 .. m /\ i \in 0 .. m /\ i - 1 \in 0 .. m
          /\ k = l + i /\ k - 1 = l + (i - 1) /\ N[k] = M[i]
      <4>1. l \in Nat /\ m \in Nat
        BY <1>3
      <4>2. /\ k \in l + 1 .. l + m
            /\ i \in 1 .. m /\ i \in 0 .. m /\ i - 1 \in 0 .. m
            /\ k = l + i /\ k - 1 = l + (i - 1)
        BY <2>2, <4>1
      <4>3. N[k] = M[i]
        BY <1>3, <4>2, Zenon
      <4>. QED
        BY <4>2, <4>3
    <3>. HIDE DEF i
    <3>2. r[l + i] = t[i] /\ r[l + (i - 1)] = t[i - 1]
      BY <1>12, <3>1, Zenon
    <3>3. t[i] = t[i - 1] \o M[i].data
      BY <1>11, <3>1, Zenon
    <3>4. r[k] = t[i] /\ r[k - 1] = t[i - 1] /\ N[k].data = M[i].data
      BY <3>1, <3>2, Zenon
    <3>. QED
      BY <3>3, <3>4, Zenon
  <2>. QED
    BY <2>1, <2>2
<1>15. CountsBytes(N, r)
  <2>1. r[0] = <<>>
    <3>1. 0 \in 0 .. l
      BY <1>3
    <3>2. r[0] = g[0]
      BY <1>12, <3>1, Zenon
    <3>. QED
      BY <1>4, <3>2, Zenon
  <2>. QED
    BY <1>3, <1>13, <1>14, <2>1, Zenon DEF CountsBytes
<1>16. Bytes(N) = r[l + m]
  BY <1>3, <1>15, BytesCounted
<1>17. r[l + m] = g[l] \o h[m]
  <2>1. m \in 0 .. m
    BY <1>3
  <2>. QED
    BY <1>7, <1>12, <2>1, Zenon
<1>. QED
  BY <1>4, <1>5, <1>16, <1>17, Zenon DEF N

\* The increments of a list are the end of a running account.
LEMMA IncrementsRun ==
  ASSUME NEW L \in Seq(Frames)
  PROVE  \E h : CountsIncrements(L, h) /\ Increments(L) = h[Len(L)]
<1>. DEFINE n == Len(L)
            Solves(g) == g = [s \in SUBSET DOMAIN L |->
                                IF s = {} THEN 0 ELSE g[s \ {Max(s)}] + L[Max(s)].inc]
            c == CHOOSE g : Solves(g)
            Step == [p \in (1 .. n) \X Int |-> p[2] + L[p[1]].inc]
<1>1. Increments(L) = c[DOMAIN L]
  BY Zenon DEF Increments, FoldLeft, MapThenFoldSet
<1>2. n \in Nat /\ DOMAIN L = 1 .. n /\ \A k \in 1 .. n : L[k].inc \in Int
  BY LenProperties, FrameOfList
<1>3. StepIn(n, Int, 0, Step)
  BY <1>2 DEF StepIn
<1>4. \A k \in 1 .. n, v \in Int : Step[<<k, v>>] = v + L[k].inc
  OBVIOUS
<1>. HIDE DEF Step, n
<1>5. PICK g \in [SUBSET (1 .. n) -> Int] : IsFold(n, 0, Step, g)
  BY <1>2, <1>3, FoldsExist
<1>6. Solves(g)
  <2>1. ASSUME NEW s \in SUBSET (1 .. n), s # {}
        PROVE  Max(s) \in 1 .. n /\ g[s \ {Max(s)}] \in Int
    BY <1>2, <2>1, LargestIndex
  <2>2. g = [s \in SUBSET (1 .. n) |->
               IF s = {} THEN 0 ELSE Step[<<Max(s), g[s \ {Max(s)}]>>]]
    BY <1>5 DEF IsFold, FoldStep
  <2>3. \A s \in SUBSET (1 .. n) :
           g[s] = IF s = {} THEN 0 ELSE g[s \ {Max(s)}] + L[Max(s)].inc
    BY <1>4, <2>1, <2>2
  <2>. QED
    BY <1>2, <2>3
<1>7. Solves(c)
  BY <1>6
<1>. HIDE DEF c
<1>8. Obeys(n, Int, 0, Step, c)
  <2>1. \A s \in SUBSET (1 .. n) :
           c[s] = IF s = {} THEN 0 ELSE c[s \ {Max(s)}] + L[Max(s)].inc
    BY <1>2, <1>7
  <2>2. \A s \in SUBSET (1 .. n) : s # {} => Max(s) \in 1 .. n
    BY <1>2, LargestIndex
  <2>. QED
    BY <1>4, <2>1, <2>2 DEF Obeys
<1>9. PICK h \in [0 .. n -> Int] : Runs(n, 0, Step, h) /\ h[n] = c[1 .. n]
  BY <1>2, <1>3, <1>8, FoldRuns
<1>10. ASSUME NEW k \in 1 .. n PROVE h[k] = h[k - 1] + L[k].inc
  <2>1. h[k - 1] \in Int
    BY <1>2
  <2>2. h[k] = Step[<<k, h[k - 1]>>]
    BY <1>9, Zenon DEF Runs
  <2>. QED
    BY <1>4, <2>1, <2>2
<1>11. CountsIncrements(L, h)
  BY <1>9, <1>10 DEF CountsIncrements, Runs, n
<1>. QED
  BY <1>1, <1>2, <1>9, <1>11 DEF n

\* Every running account of the increments ends with their sum.
LEMMA IncrementsCounted ==
  ASSUME NEW L \in Seq(Frames), NEW h, CountsIncrements(L, h)
  PROVE  Increments(L) = h[Len(L)] /\ Increments(L) \in Int
<1>1. PICK r : CountsIncrements(L, r) /\ Increments(L) = r[Len(L)]
  BY IncrementsRun
<1>2. Len(L) \in Nat /\ Len(L) \in 0 .. Len(L)
  BY LenProperties
<1>3. Follows(Len(L), r, h)
  BY <1>1 DEF CountsIncrements, Follows
<1>4. r[Len(L)] = h[Len(L)]
  BY <1>2, <1>3, RunsEqual
<1>. QED
  BY <1>1, <1>2, <1>4 DEF CountsIncrements

\* The increments of a list are a number.
LEMMA IncrementsType == ASSUME NEW L \in Seq(Frames) PROVE Increments(L) \in Int
BY IncrementsRun, IncrementsCounted

\* No increment takes anything away.
LEMMA IncrementsNat == ASSUME NEW L \in Seq(Frames) PROVE Increments(L) \in Nat
<1>. DEFINE n == Len(L)
<1>1. PICK h : CountsIncrements(L, h) /\ Increments(L) = h[n]
  BY IncrementsRun
<1>2. n \in Nat /\ \A k \in 1 .. n : L[k].inc \in Nat
  <2>1. \A k \in 1 .. n : L[k] \in Frames
    BY ElementOfSeq
  <2>. QED
    BY <2>1, LenProperties DEF Frames
<1>. HIDE DEF n
<1>. DEFINE P == {k \in 0 .. n : h[k] \in Nat}
<1>3. 0 \in P
  BY <1>1, <1>2 DEF CountsIncrements
<1>4. ASSUME NEW k \in 1 .. n, k - 1 \in P PROVE k \in P
  <2>1. h[k] = h[k - 1] + L[k].inc /\ k \in 0 .. n
    BY <1>1, <1>2 DEF CountsIncrements, n
  <2>. QED
    BY <1>2, <1>4, <2>1
<1>. HIDE DEF P
<1>5. 0 .. n \subseteq P
  BY <1>2, <1>3, <1>4, UpTo
<1>6. n \in P
  BY <1>2, <1>5
<1>. QED
  BY <1>1, <1>6 DEF P

\* The increments of two lists add up.
LEMMA IncrementsJoin ==
  ASSUME NEW L \in Seq(Frames), NEW M \in Seq(Frames)
  PROVE  Increments(L \o M) = Increments(L) + Increments(M)
<1>1. PICK g : CountsIncrements(L, g) /\ Increments(L) = g[Len(L)]
  BY IncrementsRun
<1>2. PICK h : CountsIncrements(M, h) /\ Increments(M) = h[Len(M)]
  BY IncrementsRun
<1>. DEFINE N == L \o M
            l == Len(L)
            m == Len(M)
            r == [k \in 0 .. l + m |-> IF k <= l THEN g[k] ELSE g[l] + h[k - l]]
<1>3. /\ l \in Nat /\ m \in Nat /\ N \in Seq(Frames) /\ Len(N) = l + m
      /\ \A k \in 1 .. l : N[k] = L[k]
      /\ \A k \in l + 1 .. l + m : N[k] = M[k - l]
  <2>1. l \in Nat /\ m \in Nat
    BY LenProperties
  <2>2. N \in Seq(Frames) /\ Len(N) = l + m
    BY ConcatProperties
  <2>3. \A k \in 1 .. l + m : N[k] = IF k <= l THEN L[k] ELSE M[k - l]
    BY ConcatProperties, Zenon
  <2>. HIDE DEF l, m, N
  <2>. QED
    BY <2>1, <2>2, <2>3
<1>4. /\ \A k \in 0 .. l : g[k] \in Int
      /\ \A k \in 1 .. l : g[k] = g[k - 1] + L[k].inc
      /\ g[0] = 0 /\ Increments(L) = g[l]
  BY <1>1 DEF CountsIncrements
<1>5. /\ \A k \in 0 .. m : h[k] \in Int
      /\ \A k \in 1 .. m : h[k] = h[k - 1] + M[k].inc
      /\ h[0] = 0 /\ Increments(M) = h[m]
  BY <1>2 DEF CountsIncrements
<1>6. \A k \in 1 .. m : M[k].inc \in Int
  BY FrameOfList
<1>. HIDE DEF l, m, N
<1>7. /\ \A k \in 0 .. l : r[k] = g[k]
      /\ \A k \in 0 .. m : r[l + k] = g[l] + h[k]
      /\ r \in [0 .. l + m -> Int]
  <2>1. \A k \in 0 .. l : r[k] = g[k]
    BY <1>3
  <2>2. ASSUME NEW k \in 0 .. m PROVE r[l + k] = g[l] + h[k]
    <3>1. l + k \in 0 .. l + m /\ (l + k) - l = k /\ (l + k <= l <=> k = 0)
      BY <1>3
    <3>2. g[l] + h[0] = g[l]
      BY <1>3, <1>4, <1>5
    <3>3. CASE k = 0
      BY <1>3, <3>1, <3>2, <3>3
    <3>4. CASE k # 0
      <4>1. r[l + k] = g[l] + h[(l + k) - l]
        BY <3>1, <3>4
      <4>. QED
        BY <3>1, <4>1
    <3>. QED
      BY <3>3, <3>4
  <2>3. ASSUME NEW k \in 0 .. l + m, ~(k <= l) PROVE g[l] + h[k - l] \in Int
    BY <1>3, <1>4, <1>5, <2>3, SMTT(40)
  <2>4. ASSUME NEW k \in 0 .. l + m, k <= l PROVE g[k] \in Int
    BY <1>3, <1>4, <2>4
  <2>. QED
    BY <2>1, <2>2, <2>3, <2>4
<1>. HIDE DEF r
<1>8. ASSUME NEW k \in 1 .. l + m PROVE r[k] = r[k - 1] + N[k].inc
  <2>1. CASE k <= l
    <3>1. k \in 1 .. l /\ k \in 0 .. l /\ k - 1 \in 0 .. l
      BY <1>3, <2>1
    <3>. QED
      BY <1>3, <1>4, <1>7, <3>1, Zenon
  <2>2. CASE ~(k <= l)
    <3>. DEFINE i == k - l
    <3>1. /\ i \in 1 .. m /\ i \in 0 .. m /\ i - 1 \in 0 .. m
          /\ k = l + i /\ k - 1 = l + (i - 1) /\ N[k] = M[i]
      <4>1. l \in Nat /\ m \in Nat
        BY <1>3
      <4>2. /\ k \in l + 1 .. l + m
            /\ i \in 1 .. m /\ i \in 0 .. m /\ i - 1 \in 0 .. m
            /\ k = l + i /\ k - 1 = l + (i - 1)
        BY <2>2, <4>1
      <4>3. N[k] = M[i]
        BY <1>3, <4>2, Zenon
      <4>. QED
        BY <4>2, <4>3
    <3>. HIDE DEF i
    <3>4. r[l + i] = g[l] + h[i] /\ r[l + (i - 1)] = g[l] + h[i - 1]
      BY <1>7, <3>1, Zenon
    <3>5. h[i] = h[i - 1] + M[i].inc
      BY <1>5, <3>1, Zenon
    <3>2. r[k] = g[l] + h[i] /\ r[k - 1] = g[l] + h[i - 1] /\ h[i] = h[i - 1] + M[i].inc
      BY <3>1, <3>4, <3>5, Zenon
    <3>3. g[l] \in Int /\ h[i - 1] \in Int /\ M[i].inc \in Int
      BY <1>3, <1>4, <1>5, <1>6, <3>1
    <3>. QED
      BY <3>1, <3>2, <3>3, SMTT(40)
  <2>. QED
    BY <2>1, <2>2
<1>9. CountsIncrements(N, r)
  <2>1. r[0] = 0
    BY <1>3, <1>4, <1>7
  <2>. QED
    BY <1>3, <1>7, <1>8, <2>1, Zenon DEF CountsIncrements
<1>10. Increments(N) = r[l + m]
  BY <1>3, <1>9, IncrementsCounted
<1>11. r[l + m] = g[l] + h[m]
  BY <1>3, <1>7
<1>. QED
  BY <1>4, <1>5, <1>10, <1>11 DEF N

\* A list has a frame of a set.
Some(L, S) == \E i \in 1 .. Len(L) : L[i] \in S

Ended == {x \in Frames : x.end}
Resets == {x \in Frames : x.type = "RST_STREAM"}
Ending == Ended \cup Resets
Opening == {x \in Frames : x.type = "HEADERS"}

\* Bytes come after a frame that ends the stream; it is ended before any headers.
Late(L) == \E i, j \in 1 .. Len(L) : i < j /\ L[i] \in Ending /\ L[j].data # <<>>
Early(L) == \E i \in 1 .. Len(L) : L[i] \in Ending /\ \A j \in 1 .. i : L[j] \notin Opening

\* A frame of T comes after one of S: what carries the body or opens the stream comes
\* after the end, headers come twice.
After(L, S, T) == \E i, j \in 1 .. Len(L) : i < j /\ L[i] \in S /\ L[j] \in T
Talk == {x \in Frames : x.type \in {"DATA", "HEADERS"}}
Again(L) == After(L, Ending, Talk)
Twice(L) == After(L, Opening, Opening)

SameTalk(L, M) ==
  /\ Some(L, Talk) <=> Some(M, Talk)
  /\ Again(L) <=> Again(M)
  /\ Twice(L) <=> Twice(M)

\* Two lists that say the same.
Alike(L, M) ==
  /\ L \in Seq(Frames) /\ M \in Seq(Frames)
  /\ Bytes(L) = Bytes(M) /\ Increments(L) = Increments(M)
  /\ \A S \in {Ended, Resets, Ending, Opening} : Some(L, S) <=> Some(M, S)
  /\ Late(L) <=> Late(M)
  /\ Early(L) <=> Early(M)
  /\ SameTalk(L, M)

\* The elements of a concatenation.
LEMMA JoinIndices ==
  ASSUME NEW L \in Seq(Frames), NEW M \in Seq(Frames)
  PROVE  /\ Len(L) \in Nat /\ Len(M) \in Nat
         /\ L \o M \in Seq(Frames) /\ Len(L \o M) = Len(L) + Len(M)
         /\ \A i \in 1 .. Len(L) : (L \o M)[i] = L[i]
         /\ \A i \in 1 .. Len(M) : (L \o M)[Len(L) + i] = M[i]
<1>. DEFINE N == L \o M
            l == Len(L)
            m == Len(M)
<1>1. l \in Nat /\ m \in Nat
  BY LenProperties
<1>2. N \in Seq(Frames) /\ Len(N) = l + m
  BY ConcatProperties
<1>3. \A k \in 1 .. l + m : N[k] = IF k <= l THEN L[k] ELSE M[k - l]
  BY ConcatProperties, Zenon
<1>. HIDE DEF l, m, N
<1>4. \A i \in 1 .. l : N[i] = L[i]
  BY <1>1, <1>3
<1>5. ASSUME NEW i \in 1 .. m PROVE N[l + i] = M[i]
  <2>1. l + i \in 1 .. l + m /\ ~(l + i <= l) /\ (l + i) - l = i
    BY <1>1
  <2>. QED
    BY <1>3, <2>1
<1>. QED
  BY <1>1, <1>2, <1>4, <1>5 DEF N, l, m

\* A frame of a concatenation is of the first or of the second list.
LEMMA SomeJoin ==
  ASSUME NEW L \in Seq(Frames), NEW M \in Seq(Frames), NEW S
  PROVE  Some(L \o M, S) <=> Some(L, S) \/ Some(M, S)
<1>. DEFINE N == L \o M
            l == Len(L)
            m == Len(M)
<1>1. /\ l \in Nat /\ m \in Nat /\ Len(N) = l + m
      /\ \A i \in 1 .. l : N[i] = L[i]
      /\ \A i \in 1 .. m : N[l + i] = M[i]
  BY JoinIndices, Zenon
<1>. HIDE DEF l, m, N
<1>2. ASSUME NEW i \in 1 .. l, L[i] \in S PROVE \E k \in 1 .. l + m : N[k] \in S
  <2>1. i \in 1 .. l + m /\ N[i] \in S
    BY <1>1, <1>2
  <2>. QED
    BY <2>1
<1>3. ASSUME NEW i \in 1 .. m, M[i] \in S PROVE \E k \in 1 .. l + m : N[k] \in S
  <2>1. l + i \in 1 .. l + m /\ N[l + i] \in S
    BY <1>1, <1>3
  <2>. QED
    BY <2>1
<1>4. ASSUME NEW k \in 1 .. l + m, N[k] \in S
      PROVE  (\E i \in 1 .. l : L[i] \in S) \/ (\E i \in 1 .. m : M[i] \in S)
  <2>1. CASE k <= l
    <3>1. k \in 1 .. l /\ L[k] \in S
      BY <1>1, <1>4, <2>1
    <3>. QED
      BY <3>1
  <2>2. CASE ~(k <= l)
    <3>1. k - l \in 1 .. m /\ l + (k - l) = k
      BY <1>1, <2>2
    <3>2. M[k - l] \in S
      BY <1>1, <1>4, <3>1
    <3>. QED
      BY <3>1, <3>2
  <2>. QED
    BY <2>1, <2>2
<1>. QED
  BY <1>1, <1>2, <1>3, <1>4 DEF Some, N, l, m

\* A list without bytes has no frame with bytes.
LEMMA NoBytes ==
  ASSUME NEW L \in Seq(Frames)
  PROVE  Bytes(L) = <<>> <=> \A i \in 1 .. Len(L) : L[i].data = <<>>
<1>1. PICK h : CountsBytes(L, h) /\ Bytes(L) = h[Len(L)]
  BY BytesRun
<1>. DEFINE n == Len(L)
            P == {k \in 0 .. n : h[k] = <<>> <=> \A i \in 1 .. k : L[i].data = <<>>}
<1>2. n \in Nat
  BY LenProperties
<1>3. /\ \A k \in 0 .. n : h[k] \in Seq(Octet)
      /\ \A k \in 1 .. n : h[k] = h[k - 1] \o L[k].data
      /\ h[0] = <<>> /\ Bytes(L) = h[n]
  BY <1>1, Zenon DEF CountsBytes
<1>4. \A k \in 1 .. n : L[k].data \in Seq(Octet)
  BY FrameOfList
<1>5. ASSUME NEW k \in 1 .. n PROVE h[k] = <<>> <=> h[k - 1] = <<>> /\ L[k].data = <<>>
  <2>. DEFINE c == h[k - 1]
              d == L[k].data
  <2>1. c \in Seq(Octet) /\ d \in Seq(Octet) /\ h[k] = c \o d
    <3>1. k - 1 \in 0 .. n
      BY <1>2
    <3>. QED
      BY <1>3, <1>4, <3>1, Zenon
  <2>. HIDE DEF c, d
  <2>2. c \o d = <<>> <=> c = <<>> /\ d = <<>>
    BY <2>1, ConcatEqualIffEmpty
  <2>. QED
    BY <2>1, <2>2, Zenon DEF c, d
<1>. HIDE DEF n
<1>6. 0 \in P
  BY <1>2, <1>3
<1>7. ASSUME NEW k \in 1 .. n, k - 1 \in P PROVE k \in P
  <2>1. k \in 0 .. n /\ 1 .. k = (1 .. (k - 1)) \cup {k}
    BY <1>2
  <2>2. h[k - 1] = <<>> <=> \A i \in 1 .. (k - 1) : L[i].data = <<>>
    BY <1>7
  <2>3. (\A i \in 1 .. k : L[i].data = <<>>)
          <=> (\A i \in 1 .. (k - 1) : L[i].data = <<>>) /\ L[k].data = <<>>
    BY <2>1
  <2>. QED
    BY <1>5, <2>1, <2>2, <2>3
<1>8. n \in P
  <2>. HIDE DEF P
  <2>1. 0 .. n \subseteq P
    BY <1>2, <1>6, <1>7, UpTo
  <2>2. n \in 0 .. n
    BY <1>2
  <2>. QED
    BY <2>1, <2>2
<1>. QED
  BY <1>3, <1>8 DEF n

\* Where a frame of T comes after one of S in a concatenation.
LEMMA AfterJoin ==
  ASSUME NEW L \in Seq(Frames), NEW M \in Seq(Frames), NEW S, NEW T
  PROVE  After(L \o M, S, T) <=>
           After(L, S, T) \/ After(M, S, T) \/ (Some(L, S) /\ Some(M, T))
<1>. DEFINE N == L \o M
            l == Len(L)
            m == Len(M)
<1>1. /\ l \in Nat /\ m \in Nat /\ Len(N) = l + m
      /\ \A i \in 1 .. l : N[i] = L[i]
      /\ \A i \in 1 .. m : N[l + i] = M[i]
  BY JoinIndices, Zenon
<1>. HIDE DEF l, m, N
<1>2. ASSUME NEW i \in 1 .. l, NEW j \in 1 .. l, i < j, L[i] \in S, L[j] \in T
      PROVE  \E p, q \in 1 .. l + m : p < q /\ N[p] \in S /\ N[q] \in T
  <2>1. i \in 1 .. l + m /\ j \in 1 .. l + m /\ N[i] = L[i] /\ N[j] = L[j]
    BY <1>1
  <2>. QED
    BY <1>2, <2>1
<1>3. ASSUME NEW i \in 1 .. m, NEW j \in 1 .. m, i < j, M[i] \in S, M[j] \in T
      PROVE  \E p, q \in 1 .. l + m : p < q /\ N[p] \in S /\ N[q] \in T
  <2>1. /\ l + i \in 1 .. l + m /\ l + j \in 1 .. l + m /\ l + i < l + j
        /\ N[l + i] = M[i] /\ N[l + j] = M[j]
    BY <1>1, <1>3
  <2>. QED
    BY <1>3, <2>1
<1>4. ASSUME NEW i \in 1 .. l, NEW j \in 1 .. m, L[i] \in S, M[j] \in T
      PROVE  \E p, q \in 1 .. l + m : p < q /\ N[p] \in S /\ N[q] \in T
  <2>1. i \in 1 .. l + m /\ l + j \in 1 .. l + m /\ i < l + j /\ N[i] = L[i] /\ N[l + j] = M[j]
    BY <1>1
  <2>. QED
    BY <1>4, <2>1
<1>5. ASSUME NEW p \in 1 .. l + m, NEW q \in 1 .. l + m, p < q, N[p] \in S, N[q] \in T
      PROVE  \/ \E i, j \in 1 .. l : i < j /\ L[i] \in S /\ L[j] \in T
             \/ \E i, j \in 1 .. m : i < j /\ M[i] \in S /\ M[j] \in T
             \/ (\E i \in 1 .. l : L[i] \in S) /\ (\E j \in 1 .. m : M[j] \in T)
  <2>1. CASE q <= l
    <3>1. p \in 1 .. l /\ q \in 1 .. l /\ N[p] = L[p] /\ N[q] = L[q]
      BY <1>1, <1>5, <2>1
    <3>. QED
      BY <1>5, <3>1
  <2>2. CASE ~(p <= l)
    <3>1. /\ p - l \in 1 .. m /\ q - l \in 1 .. m /\ p - l < q - l
          /\ l + (p - l) = p /\ l + (q - l) = q
      BY <1>1, <1>5, <2>2
    <3>2. N[p] = M[p - l] /\ N[q] = M[q - l]
      BY <1>1, <3>1
    <3>. QED
      BY <1>5, <3>1, <3>2
  <2>3. CASE p <= l /\ ~(q <= l)
    <3>1. p \in 1 .. l /\ q - l \in 1 .. m /\ l + (q - l) = q
      BY <1>1, <2>3
    <3>2. N[p] = L[p] /\ N[q] = M[q - l]
      BY <1>1, <3>1
    <3>. QED
      BY <1>5, <3>1, <3>2
  <2>. QED
    BY <1>1, <1>5, <2>1, <2>2, <2>3
<1>6. /\ After(N, S, T) <=> \E p, q \in 1 .. l + m : p < q /\ N[p] \in S /\ N[q] \in T
      /\ After(L, S, T) <=> \E i, j \in 1 .. l : i < j /\ L[i] \in S /\ L[j] \in T
      /\ After(M, S, T) <=> \E i, j \in 1 .. m : i < j /\ M[i] \in S /\ M[j] \in T
      /\ Some(L, S) <=> \E i \in 1 .. l : L[i] \in S
      /\ Some(M, T) <=> \E j \in 1 .. m : M[j] \in T
  BY <1>1 DEF After, Some, l, m
<1>. QED
  BY <1>2, <1>3, <1>4, <1>5, <1>6, Zenon DEF N

Laden == {x \in Frames : x.data # <<>>}

\* Bytes come after the end where a frame that has some does.
LEMMA LateLaden ==
  ASSUME NEW L \in Seq(Frames)
  PROVE  /\ Late(L) <=> After(L, Ending, Laden)
         /\ Bytes(L) # <<>> <=> Some(L, Laden)
<1>1. \A j \in 1 .. Len(L) : L[j].data # <<>> <=> L[j] \in Laden
  BY FrameOfList DEF Laden
<1>2. Bytes(L) # <<>> <=> \E j \in 1 .. Len(L) : L[j].data # <<>>
  BY NoBytes
<1>. QED
  BY <1>1, <1>2, Zenon DEF Late, After, Some

\* Where bytes come after the end in a concatenation.
LEMMA LateJoin ==
  ASSUME NEW L \in Seq(Frames), NEW M \in Seq(Frames)
  PROVE  Late(L \o M) <=> Late(L) \/ Late(M) \/ (Some(L, Ending) /\ Bytes(M) # <<>>)
<1>1. L \o M \in Seq(Frames)
  BY JoinIndices
<1>. QED
  BY <1>1, AfterJoin, LateLaden, Zenon

\* What two pairs of lists say in the same way, their concatenations do.
LEMMA TalkJoin ==
  ASSUME NEW L \in Seq(Frames), NEW M \in Seq(Frames),
         NEW P \in Seq(Frames), NEW Q \in Seq(Frames),
         SameTalk(L, M), SameTalk(P, Q),
         \A S \in {Ending, Opening} : Some(L, S) <=> Some(M, S),
         Some(P, Opening) <=> Some(Q, Opening)
  PROVE  SameTalk(L \o P, M \o Q)
<1>1. Some(L \o P, Talk) <=> Some(M \o Q, Talk)
  BY SomeJoin DEF SameTalk
<1>2. Again(L \o P) <=> Again(M \o Q)
  <2>1. /\ Again(L \o P) <=> Again(L) \/ Again(P) \/ (Some(L, Ending) /\ Some(P, Talk))
        /\ Again(M \o Q) <=> Again(M) \/ Again(Q) \/ (Some(M, Ending) /\ Some(Q, Talk))
    BY AfterJoin DEF Again
  <2>. QED
    BY <2>1 DEF SameTalk
<1>3. Twice(L \o P) <=> Twice(M \o Q)
  <2>1. /\ Twice(L \o P) <=> Twice(L) \/ Twice(P) \/ (Some(L, Opening) /\ Some(P, Opening))
        /\ Twice(M \o Q) <=> Twice(M) \/ Twice(Q) \/ (Some(M, Opening) /\ Some(Q, Opening))
    BY AfterJoin DEF Twice
  <2>. QED
    BY <2>1 DEF SameTalk
<1>. QED
  BY <1>1, <1>2, <1>3, Zenon DEF SameTalk

\* Where the end comes before any headers in a concatenation.
LEMMA EarlyJoin ==
  ASSUME NEW L \in Seq(Frames), NEW M \in Seq(Frames)
  PROVE  Early(L \o M) <=> Early(L) \/ (~Some(L, Opening) /\ Early(M))
<1>. DEFINE N == L \o M
            l == Len(L)
            m == Len(M)
<1>1. /\ l \in Nat /\ m \in Nat /\ Len(N) = l + m
      /\ \A i \in 1 .. l : N[i] = L[i]
      /\ \A i \in 1 .. m : N[l + i] = M[i]
  BY JoinIndices, Zenon
<1>. HIDE DEF l, m, N
<1>2. ASSUME NEW i \in 1 .. l, L[i] \in Ending, \A j \in 1 .. i : L[j] \notin Opening
      PROVE  \E p \in 1 .. l + m : N[p] \in Ending /\ \A j \in 1 .. p : N[j] \notin Opening
  <2>1. i \in 1 .. l + m /\ 1 .. i \subseteq 1 .. l
    BY <1>1
  <2>2. N[i] = L[i] /\ \A j \in 1 .. i : N[j] = L[j]
    BY <1>1, <2>1
  <2>3. N[i] \in Ending /\ \A j \in 1 .. i : N[j] \notin Opening
    BY <1>2, <2>2, Zenon
  <2>. QED
    BY <2>1, <2>3, Zenon
<1>3. ASSUME NEW i \in 1 .. m, M[i] \in Ending, \A j \in 1 .. i : M[j] \notin Opening,
             \A j \in 1 .. l : L[j] \notin Opening
      PROVE  \E p \in 1 .. l + m : N[p] \in Ending /\ \A j \in 1 .. p : N[j] \notin Opening
  <2>1. l + i \in 1 .. l + m /\ N[l + i] = M[i]
    BY <1>1
  <2>2. ASSUME NEW j \in 1 .. l + i PROVE N[j] \notin Opening
    <3>1. CASE j <= l
      BY <1>1, <1>3, <3>1
    <3>2. CASE ~(j <= l)
      <4>1. j - l \in 1 .. i /\ j - l \in 1 .. m /\ l + (j - l) = j
        BY <1>1, <3>2
      <4>2. N[j] = M[j - l]
        BY <1>1, <4>1
      <4>. QED
        BY <1>3, <4>1, <4>2
    <3>. QED
      BY <3>1, <3>2
  <2>3. N[l + i] \in Ending
    BY <1>3, <2>1
  <2>. QED
    BY <2>1, <2>2, <2>3, Zenon
<1>4. ASSUME NEW p \in 1 .. l + m, N[p] \in Ending, \A j \in 1 .. p : N[j] \notin Opening
      PROVE  \/ \E i \in 1 .. l : L[i] \in Ending /\ \A j \in 1 .. i : L[j] \notin Opening
             \/ /\ \A j \in 1 .. l : L[j] \notin Opening
                /\ \E i \in 1 .. m : M[i] \in Ending /\ \A j \in 1 .. i : M[j] \notin Opening
  <2>1. CASE p <= l
    <3>1. p \in 1 .. l /\ p \in 1 .. p /\ 1 .. p \subseteq 1 .. l
      BY <1>1, <2>1
    <3>2. \A j \in 1 .. p : N[j] = L[j]
      BY <1>1, <3>1
    <3>3. L[p] \in Ending /\ \A j \in 1 .. p : L[j] \notin Opening
      BY <1>4, <3>1, <3>2, Zenon
    <3>. QED
      BY <3>1, <3>3, Zenon
  <2>2. CASE ~(p <= l)
    <3>1. p - l \in 1 .. m /\ l + (p - l) = p
      BY <1>1, <2>2
    <3>2. N[p] = M[p - l]
      BY <1>1, <3>1
    <3>3. ASSUME NEW j \in 1 .. l PROVE L[j] \notin Opening
      BY <1>1, <1>4, <2>2
    <3>4. ASSUME NEW j \in 1 .. p - l PROVE M[j] \notin Opening
      <4>1. l + j \in 1 .. p /\ j \in 1 .. m
        BY <1>1, <2>2
      <4>2. N[l + j] = M[j]
        BY <1>1, <4>1
      <4>. QED
        BY <1>4, <4>1, <4>2
    <3>5. M[p - l] \in Ending
      BY <1>4, <3>2
    <3>. QED
      BY <3>1, <3>3, <3>4, <3>5, Zenon
  <2>. QED
    BY <2>1, <2>2
<1>5. /\ Early(N) <=> \E p \in 1 .. l + m : N[p] \in Ending /\ \A j \in 1 .. p : N[j] \notin Opening
      /\ Early(L) <=> \E i \in 1 .. l : L[i] \in Ending /\ \A j \in 1 .. i : L[j] \notin Opening
      /\ Early(M) <=> \E i \in 1 .. m : M[i] \in Ending /\ \A j \in 1 .. i : M[j] \notin Opening
      /\ ~Some(L, Opening) <=> \A j \in 1 .. l : L[j] \notin Opening
  BY <1>1 DEF Early, Some, l, m
<1>. QED
  BY <1>2, <1>3, <1>4, <1>5, Zenon DEF N

\* The four marks.
Marks == {Ended, Resets, Ending, Opening}

\* Joining lists of frames is associative.
LEMMA JoinAssociative ==
  ASSUME NEW L \in Seq(Frames), NEW M \in Seq(Frames), NEW N \in Seq(Frames)
  PROVE  L \o (M \o N) = (L \o M) \o N /\ (L \o M) \o N = L \o (M \o N)
<1>1. (L \o M) \o N = L \o (M \o N)
  BY ConcatAssociative
<1>. QED
  BY <1>1, Zenon

\* Two lists of frames make a list of frames.
LEMMA JoinList ==
  ASSUME NEW L \in Seq(Frames), NEW M \in Seq(Frames) PROVE L \o M \in Seq(Frames)
BY ConcatProperties

\* The empty sequence is a sequence of bytes.
LEMMA NoOctets == <<>> \in Seq(Octet)
BY EmptySeq

\* The frames that a stream makes.
LEMMA PlainFrame == ASSUME NEW t \in FrameTypes PROVE F(t) \in Frames
BY NoOctets DEF F, Frames

\* What a DATA frame is.
LEMMA DataMade ==
  ASSUME NEW d, NEW y, y = Data(d)
  PROVE  y = [type |-> "DATA", data |-> d, end |-> FALSE, inc |-> 0, count |-> 0]
BY DEF Data, F

\* What a WINDOW_UPDATE frame is.
LEMMA UpdateMade ==
  ASSUME NEW n, NEW y, y = WindowUpdate(n)
  PROVE  y = [type |-> "WINDOW_UPDATE", data |-> <<>>, end |-> FALSE, inc |-> n, count |-> 0]
BY DEF WindowUpdate, F

\* A DATA frame is a frame, and carries its bytes.
LEMMA DataFrame ==
  ASSUME NEW d \in Seq(Octet)
  PROVE  Data(d) \in Frames /\ Data(d).data = d /\ Data(d).type = "DATA" /\ Data(d).end = FALSE
<1>. DEFINE y == Data(d)
<1>. HIDE DEF y
<1>1. y = [type |-> "DATA", data |-> d, end |-> FALSE, inc |-> 0, count |-> 0]
  BY DataMade DEF y
<1>2. y \in Frames
  BY <1>1 DEF Frames, FrameTypes
<1>3. y.data = d /\ y.type = "DATA" /\ y.end = FALSE
  BY <1>1
<1>. QED
  BY <1>2, <1>3 DEF y

\* A WINDOW_UPDATE frame is a frame, and carries its increment.
LEMMA UpdateFrame ==
  ASSUME NEW n \in Nat
  PROVE  WindowUpdate(n) \in Frames /\ WindowUpdate(n).inc = n
<1>. DEFINE y == WindowUpdate(n)
<1>. HIDE DEF y
<1>1. y = [type |-> "WINDOW_UPDATE", data |-> <<>>, end |-> FALSE, inc |-> n, count |-> 0]
  BY UpdateMade, Zenon DEF y
<1>2. y \in Frames
  BY <1>1, NoOctets DEF Frames, FrameTypes
<1>3. y.inc = n
  BY <1>1
<1>. QED
  BY <1>2, <1>3 DEF y

\* The empty list says nothing.
LEMMA EmptyList ==
  /\ <<>> \in Seq(Frames)
  /\ Bytes(<<>>) = <<>> /\ Increments(<<>>) = 0
  /\ (\A S : ~Some(<<>>, S)) /\ ~Late(<<>>) /\ ~Early(<<>>)
  /\ \A S, T : ~After(<<>>, S, T)
<1>1. <<>> \in Seq(Frames) /\ Len(<<>>) = 0
  BY EmptySeq
<1>2. Bytes(<<>>) = <<>>
  <2>1. \A i \in 1 .. Len(<<>>) : <<>>[i].data = <<>>
    BY <1>1

  <2>. QED
    BY <1>1, <2>1, NoBytes, Zenon
<1>3. Increments(<<>>) = 0
  <2>1. PICK h : CountsIncrements(<<>>, h) /\ Increments(<<>>) = h[0]
    BY <1>1, IncrementsRun, Zenon
  <2>. QED
    BY <2>1 DEF CountsIncrements
<1>. QED
  BY <1>1, <1>2, <1>3 DEF Some, Late, Early, After

\* A list of one frame says what the frame says.
LEMMA OneFrame ==
  ASSUME NEW x \in Frames
  PROVE  /\ <<x>> \in Seq(Frames)
         /\ Bytes(<<x>>) = x.data /\ Increments(<<x>>) = x.inc
         /\ (\A S : Some(<<x>>, S) <=> x \in S)
         /\ ~Late(<<x>>) /\ (Early(<<x>>) <=> x \in Ending /\ x \notin Opening)
         /\ \A S, T : ~After(<<x>>, S, T)
<1>. DEFINE L == <<x>>
<1>1. L \in Seq(Frames) /\ Len(L) = 1 /\ L[1] = x /\ 1 .. 1 = {1}
  OBVIOUS
<1>. HIDE DEF L
<1>2. x.data \in Seq(Octet) /\ x.inc \in Int
  BY DEF Frames
<1>3. Bytes(L) = x.data
  <2>1. PICK h : CountsBytes(L, h) /\ Bytes(L) = h[Len(L)]
    BY <1>1, BytesRun
  <2>2. 1 \in 1 .. Len(L) /\ 1 - 1 = 0
    BY <1>1
  <2>3. h[1] = h[0] \o x.data /\ h[0] = <<>>
    BY <1>1, <2>1, <2>2, Zenon DEF CountsBytes
  <2>4. <<>> \o x.data = x.data
    BY <1>2, ConcatEmptySeq
  <2>. QED
    BY <1>1, <2>1, <2>3, <2>4, Zenon
<1>4. Increments(L) = x.inc
  <2>1. PICK h : CountsIncrements(L, h) /\ Increments(L) = h[Len(L)]
    BY <1>1, IncrementsRun
  <2>2. h[1] = h[0] + x.inc /\ h[0] = 0
    BY <1>1, <2>1 DEF CountsIncrements
  <2>. QED
    BY <1>1, <1>2, <2>1, <2>2
<1>5. \A S : Some(L, S) <=> x \in S
  BY <1>1 DEF Some
<1>6. ~Late(L)
  BY <1>1 DEF Late
<1>7. Early(L) <=> x \in Ending /\ x \notin Opening
  BY <1>1 DEF Early
<1>8. \A S, T : ~After(L, S, T)
  BY <1>1 DEF After
<1>. QED
  BY <1>1, <1>3, <1>4, <1>5, <1>6, <1>7, <1>8 DEF L

\* A frame that neither carries the body nor opens the stream adds no talk.
LEMMA TalkOfOne ==
  ASSUME NEW x \in Frames, x \notin Talk
  PROVE  SameTalk(<<x>>, <<>>)
BY OneFrame, EmptyList DEF SameTalk, Again, Twice

\* A list says what it says.
LEMMA AlikeSelf == ASSUME NEW L \in Seq(Frames) PROVE Alike(L, L)
BY DEF Alike, SameTalk

\* Alike is symmetric.
LEMMA AlikeTurned == ASSUME NEW L, NEW M, Alike(L, M) PROVE Alike(M, L)
BY DEF Alike, SameTalk

\* Alike is transitive.
LEMMA AlikeChain ==
  ASSUME NEW L, NEW M, NEW N, Alike(L, M), Alike(M, N) PROVE Alike(L, N)
BY DEF Alike, SameTalk

\* Alike lists may replace each other in a concatenation.
LEMMA AlikeJoin ==
  ASSUME NEW L, NEW M, NEW P, NEW Q, Alike(L, M), Alike(P, Q)
  PROVE  Alike(L \o P, M \o Q)
<1>1. /\ L \in Seq(Frames) /\ M \in Seq(Frames) /\ P \in Seq(Frames) /\ Q \in Seq(Frames)
      /\ Bytes(L) = Bytes(M) /\ Bytes(P) = Bytes(Q)
      /\ Increments(L) = Increments(M) /\ Increments(P) = Increments(Q)
      /\ \A S \in Marks : (Some(L, S) <=> Some(M, S)) /\ (Some(P, S) <=> Some(Q, S))
      /\ Late(L) <=> Late(M)
      /\ Late(P) <=> Late(Q)
      /\ Early(L) <=> Early(M)
      /\ Early(P) <=> Early(Q)
      /\ SameTalk(L, M) /\ SameTalk(P, Q)
  BY DEF Alike, Marks
<1>2. L \o P \in Seq(Frames) /\ M \o Q \in Seq(Frames)
  BY <1>1, ConcatProperties
<1>3. Bytes(L \o P) = Bytes(M \o Q) /\ Increments(L \o P) = Increments(M \o Q)
  <2>1. /\ Bytes(L \o P) = Bytes(L) \o Bytes(P)
        /\ Bytes(M \o Q) = Bytes(M) \o Bytes(Q)
    BY <1>1, BytesJoin
  <2>2. /\ Increments(L \o P) = Increments(L) + Increments(P)
        /\ Increments(M \o Q) = Increments(M) + Increments(Q)
    BY <1>1, IncrementsJoin
  <2>. QED
    BY <1>1, <2>1, <2>2, Zenon
<1>4. ASSUME NEW S \in Marks PROVE Some(L \o P, S) <=> Some(M \o Q, S)
  BY <1>1, SomeJoin
<1>5. Ending \in Marks /\ Opening \in Marks
  BY DEF Marks
<1>6. Late(L \o P) <=> Late(M \o Q)
  BY <1>1, <1>5, LateJoin
<1>7. Early(L \o P) <=> Early(M \o Q)
  BY <1>1, <1>5, EarlyJoin
<1>8. SameTalk(L \o P, M \o Q)
  BY <1>1, <1>5, TalkJoin
<1>. QED
  BY <1>2, <1>3, <1>4, <1>6, <1>7, <1>8 DEF Alike, Marks

\* BLOCKED says nothing.
Quiets == {x \in Frames : x.data = <<>> /\ x.inc = 0 /\ ~x.end /\ x.type \in {"WINDOW_UPDATE", "BLOCKED"}}

\* A BLOCKED frame says nothing.
LEMMA QuietAlike == ASSUME NEW x \in Quiets PROVE Alike(<<x>>, <<>>)
<1>1. /\ x \in Frames /\ x.data = <<>> /\ x.inc = 0
      /\ \A S \in Marks : x \notin S
      /\ x \notin Talk
  BY DEF Quiets, Marks, Ending, Ended, Resets, Opening, Talk
<1>2. Resets \in Marks
  BY DEF Marks
<1>3. SameTalk(<<x>>, <<>>)
  BY <1>1, TalkOfOne
<1>. QED
  BY <1>1, <1>2, <1>3, OneFrame, EmptyList DEF Alike, Marks

\* The empty list adds nothing.
LEMMA JoinEmpty ==
  ASSUME NEW L \in Seq(Frames) PROVE L \o <<>> = L /\ <<>> \o L = L
BY ConcatEmptySeq

\* A DATA frame in two says what it said.
LEMMA SplitAlike ==
  ASSUME NEW x \in Frames, x.type = "DATA", NEW n \in 0 .. Len(x.data)
  PROVE  LET parts == SplitAt(x, n)
         IN  /\ parts[1] \in Frames /\ parts[2] \in Frames
             /\ parts[1].type = "DATA" /\ parts[2].type = "DATA"
             /\ Len(parts[1].data) = n
             /\ Alike(<<parts[1]>> \o <<parts[2]>>, <<x>>)
<1>. DEFINE d == x.data
            m == Len(d)
            a == SubSeq(d, 1, n)
            b == SubSeq(d, n + 1, m)
            y == SplitAt(x, n)[1]
            z == SplitAt(x, n)[2]
<1>1. d \in Seq(Octet) /\ m \in Nat /\ n \in 0 .. m
  BY LenProperties DEF Frames
<1>2. a \in Seq(Octet) /\ b \in Seq(Octet) /\ Len(a) = n
  <2>. HIDE DEF d
  <2>. QED
    BY <1>1, SubSeqProperties, SMTT(40)
<1>3. a \o b = d
  <2>. HIDE DEF d
  <2>1. SubSeq(d, 1, m) = d
    BY <1>1, SubSeqFull
  <2>2. SubSeq(d, 1, n) \o SubSeq(d, n + 1, m) = SubSeq(d, 1, m)
    <3>1. d \in Seq(Octet) /\ 1 \in 1 .. Len(d) + 1 /\ n \in 1 - 1 .. Len(d) /\ m \in n .. Len(d)
      BY <1>1
    <3>. QED
      BY <3>1, ConcatAdjacentSubSeq
  <2>. QED
    BY <2>1, <2>2
<1>4. y = Data(a) /\ z = [x EXCEPT !.data = b]
  BY DEF SplitAt
<1>. HIDE DEF a, b
<1>5. /\ y \in Frames /\ y.type = "DATA" /\ y.data = a /\ y.inc = 0 /\ ~y.end
      /\ z \in Frames /\ z.type = "DATA" /\ z.data = b /\ z.inc = x.inc /\ z.end = x.end
  <2>1. y = [type |-> "DATA", data |-> a, end |-> FALSE, inc |-> 0, count |-> 0]
    BY <1>4 DEF Data, F
  <2>. HIDE DEF y
  <2>2. /\ y \in Frames /\ y.type = "DATA" /\ y.data = a /\ y.inc = 0 /\ ~y.end
    BY <1>2, <2>1 DEF Frames, FrameTypes
  <2>3. /\ z \in Frames /\ z.type = "DATA" /\ z.data = b /\ z.inc = x.inc /\ z.end = x.end
    BY <1>2, <1>4 DEF Frames, FrameTypes
  <2>. QED
    BY <2>2, <2>3
<1>. HIDE DEF y, z
<1>6. \A S \in Marks : y \notin S /\ (z \in S <=> x \in S)
  BY <1>5 DEF Marks, Ending, Ended, Resets, Opening
<1>7. Ending \in Marks /\ Opening \in Marks
  BY DEF Marks
<1>8. x.inc = 0
  BY DEF Frames
<1>9. <<y>> \o <<z>> \in Seq(Frames)
  BY <1>5
<1>10. Bytes(<<y>> \o <<z>>) = Bytes(<<x>>)
  <2>1. Bytes(<<y>> \o <<z>>) = Bytes(<<y>>) \o Bytes(<<z>>)
    BY <1>5, OneFrame, BytesJoin
  <2>2. Bytes(<<y>>) = a /\ Bytes(<<z>>) = b /\ Bytes(<<x>>) = d
    BY <1>5, OneFrame
  <2>. QED
    BY <1>3, <2>1, <2>2, Zenon
<1>11. Increments(<<y>> \o <<z>>) = Increments(<<x>>)
  <2>1. Increments(<<y>> \o <<z>>) = Increments(<<y>>) + Increments(<<z>>)
    BY <1>5, OneFrame, IncrementsJoin
  <2>2. Increments(<<y>>) = 0 /\ Increments(<<z>>) = 0 /\ Increments(<<x>>) = 0
    BY <1>5, <1>8, OneFrame
  <2>. QED
    BY <2>1, <2>2
<1>12. ASSUME NEW S \in Marks PROVE Some(<<y>> \o <<z>>, S) <=> Some(<<x>>, S)
  BY <1>5, <1>6, OneFrame, SomeJoin
<1>13. Late(<<y>> \o <<z>>) <=> Late(<<x>>)
  BY <1>5, <1>6, <1>7, OneFrame, LateJoin
<1>14. Early(<<y>> \o <<z>>) <=> Early(<<x>>)
  BY <1>5, <1>6, <1>7, OneFrame, EarlyJoin
<1>15. SameTalk(<<y>> \o <<z>>, <<x>>)
  <2>1. y \notin Ending /\ y \notin Opening /\ y \in Talk /\ x \in Talk
    BY <1>5, <1>6, <1>7 DEF Talk
  <2>2. Some(<<y>> \o <<z>>, Talk) /\ Some(<<x>>, Talk)
    BY <1>5, <2>1, OneFrame, SomeJoin
  <2>3. ~Again(<<y>> \o <<z>>) /\ ~Twice(<<y>> \o <<z>>)
    BY <1>5, <2>1, OneFrame, AfterJoin, ZenonT(60) DEF Again, Twice
  <2>4. ~Again(<<x>>) /\ ~Twice(<<x>>)
    BY OneFrame DEF Again, Twice
  <2>. QED
    BY <2>2, <2>3, <2>4 DEF SameTalk
<1>16. Alike(<<y>> \o <<z>>, <<x>>)
  BY <1>9, <1>10, <1>11, <1>12, <1>13, <1>14, <1>15, OneFrame DEF Alike, Marks
<1>. QED
  BY <1>2, <1>5, <1>16 DEF y, z

Flows ==
  [window : Int, initialWindow : Int, queue : Seq(Frames), buffer : Seq(Frames),
   ended : BOOLEAN, received : Nat, timer : BOOLEAN, blocked : BOOLEAN, waiting : BOOLEAN,
   reading : BOOLEAN, asked : BOOLEAN, failed : {FALSE}]

\* What a flow holds, and what its window and its output buffer are worth.
Content(f) == f.buffer \o f.queue
Credit(f) == f.window + Len(Bytes(f.buffer))

\* The list starts with headers.
Leads(L) == L # <<>> /\ L[1] \in Opening

\* What comes in goes behind what is there, BLOCKED too; nothing comes of nothing.
Orderly(f, g, X) ==
  /\ Leads(f.buffer) => Leads(g.buffer)
  /\ Content(f) = <<>> /\ X = <<>> => Content(g) = <<>>
  /\ Content(f) = <<>> /\ Leads(X) => Leads(g.buffer)

\* A flow takes X in and its window grows by d; nothing is lost or said twice.
FlowMoves(f, g, X, d) ==
  /\ f \in Flows /\ g \in Flows /\ X \in Seq(Frames) /\ d \in Int
  /\ Alike(Content(g), Content(f) \o X)
  /\ Credit(g) = Credit(f) + d
  /\ g.received = f.received /\ g.ended = f.ended /\ g.initialWindow = f.initialWindow
  /\ Orderly(f, g, X)

\* Only what the properties do not see changes.
SameFlow(f, g) ==
  /\ f \in Flows /\ g \in Flows
  /\ g.window = f.window /\ g.buffer = f.buffer /\ g.queue = f.queue
  /\ g.received = f.received /\ g.ended = f.ended /\ g.initialWindow = f.initialWindow

\* What a flow consists of.
LEMMA FlowTypes ==
  ASSUME NEW f \in Flows
  PROVE  /\ Content(f) \in Seq(Frames) /\ Credit(f) \in Int
         /\ f.window \in Int /\ f.initialWindow \in Int /\ f.received \in Nat
         /\ f.queue \in Seq(Frames) /\ f.buffer \in Seq(Frames)
         /\ f.ended \in BOOLEAN /\ f.failed = FALSE
<1>1. /\ f.window \in Int /\ f.initialWindow \in Int /\ f.received \in Nat
      /\ f.queue \in Seq(Frames) /\ f.buffer \in Seq(Frames)
      /\ f.ended \in BOOLEAN /\ f.failed = FALSE
  BY DEF Flows
<1>2. Content(f) \in Seq(Frames)
  BY <1>1, ConcatProperties DEF Content
<1>3. Len(Bytes(f.buffer)) \in Nat
  BY <1>1, BytesType, LenProperties
<1>. QED
  BY <1>1, <1>2, <1>3 DEF Credit

\* The numbers of a flow.
LEMMA FlowNumbers ==
  ASSUME NEW f \in Flows
  PROVE  /\ f.window \in Int /\ f.initialWindow \in Int /\ f.received \in Nat
         /\ Credit(f) \in Int
BY FlowTypes, Zenon

\* A list keeps its first frame when others follow.
LEMMA LeadsOn ==
  ASSUME NEW L \in Seq(Frames), NEW M \in Seq(Frames)
  PROVE  /\ Leads(L) => Leads(L \o M)
         /\ L # <<>> /\ Leads(L \o M) => Leads(L)
         /\ L = <<>> => L \o M = M
         /\ L \o M = <<>> <=> L = <<>> /\ M = <<>>
<1>1. /\ Len(L) \in Nat /\ Len(M) \in Nat
      /\ L \o M \in Seq(Frames) /\ Len(L \o M) = Len(L) + Len(M)
      /\ \A i \in 1 .. Len(L) : (L \o M)[i] = L[i]
  BY JoinIndices
<1>2. \A N \in Seq(Frames) : N = <<>> <=> Len(N) = 0
  BY EmptySeq
<1>3. ASSUME L # <<>> PROVE (L \o M)[1] = L[1] /\ L \o M # <<>>
  <2>1. Len(L) # 0
    BY <1>2, <1>3
  <2>2. 1 \in 1 .. Len(L) /\ Len(L \o M) # 0
    BY <1>1, <2>1
  <2>. QED
    BY <1>1, <1>2, <2>2
<1>4. ASSUME L = <<>> PROVE L \o M = M
  BY <1>4, JoinEmpty
<1>. QED
  BY <1>3, <1>4 DEF Leads

\* The headers of a list of one.
LEMMA LeadsOne ==
  ASSUME NEW x \in Frames
  PROVE  /\ Leads(<<x>>) <=> x \in Opening
         /\ <<x>> # <<>> /\ ~Leads(<<>>)
BY DEF Leads

\* A list with one more frame.
LEMMA LeadsBehind ==
  ASSUME NEW L \in Seq(Frames), NEW x \in Frames, NEW M, M = L \o <<x>>
  PROVE  /\ Leads(L) => Leads(M)
         /\ L = <<>> => M = <<x>>
<1>1. <<x>> \in Seq(Frames)
  BY OneFrame
<1>2. /\ Leads(L) => Leads(L \o <<x>>)
      /\ L = <<>> => L \o <<x>> = <<x>>
  BY <1>1, LeadsOn
<1>. QED
  BY <1>2, Zenon

\* The same frames.
LEMMA OrderlySame ==
  ASSUME NEW f, NEW g, g.buffer = f.buffer, g.queue = f.queue
  PROVE  Orderly(f, g, <<>>)
BY DEF Orderly, Content, Leads

\* One orderly move after another.
LEMMA OrderlyChain ==
  ASSUME NEW f, NEW g, NEW h, NEW X \in Seq(Frames), NEW Y \in Seq(Frames),
         Orderly(f, g, X), Orderly(g, h, Y)
  PROVE  Orderly(f, h, X \o Y)
<1>1. Leads(f.buffer) => Leads(h.buffer)
  BY DEF Orderly
<1>2. ASSUME Content(f) = <<>>, X \o Y = <<>> PROVE Content(h) = <<>>
  BY <1>2, LeadsOn DEF Orderly
<1>3. ASSUME Content(f) = <<>>, Leads(X \o Y) PROVE Leads(h.buffer)
  <2>1. CASE X = <<>>
    <3>1. X \o Y = Y
      BY <2>1, LeadsOn
    <3>. QED
      BY <1>3, <2>1, <3>1, Zenon DEF Orderly
  <2>2. CASE X # <<>>
    <3>1. Leads(X)
      BY <1>3, <2>2, LeadsOn
    <3>. QED
      BY <1>3, <3>1, Zenon DEF Orderly
  <2>. QED
    BY <2>1, <2>2
<1>. QED
  BY <1>1, <1>2, <1>3, Zenon DEF Orderly

\* A flow that keeps its window and its frames moves nothing.
LEMMA FlowStays == ASSUME NEW f, NEW g, SameFlow(f, g) PROVE FlowMoves(f, g, <<>>, 0)
<1>1. f \in Flows /\ g \in Flows /\ Content(g) = Content(f) /\ Credit(g) = Credit(f)
  BY DEF SameFlow, Content, Credit
<1>2. Content(f) \in Seq(Frames) /\ Credit(f) \in Int
  BY <1>1, FlowTypes
<1>3. Alike(Content(g), Content(f) \o <<>>)
  <2>1. Content(f) \o <<>> = Content(f) /\ Alike(Content(f), Content(f))
    BY <1>2, JoinEmpty, AlikeSelf
  <2>. QED
    BY <1>1, <2>1, Zenon
<1>. QED
  BY <1>1, <1>2, <1>3, EmptyList, OrderlySame DEF FlowMoves, SameFlow

\* One move of a flow after another is a move.
LEMMA FlowGoesOn ==
  ASSUME NEW f, NEW g, NEW h, NEW X, NEW Y, NEW c, NEW d,
         FlowMoves(f, g, X, c), FlowMoves(g, h, Y, d)
  PROVE  FlowMoves(f, h, X \o Y, c + d)
<1>1. /\ X \in Seq(Frames) /\ Y \in Seq(Frames) /\ f \in Flows /\ g \in Flows /\ h \in Flows
      /\ c \in Int /\ d \in Int
      /\ Credit(g) = Credit(f) + c /\ Credit(h) = Credit(g) + d
      /\ Alike(Content(g), Content(f) \o X) /\ Alike(Content(h), Content(g) \o Y)
      /\ Orderly(f, g, X) /\ Orderly(g, h, Y)
  BY DEF FlowMoves
<1>2. X \o Y \in Seq(Frames)
  BY <1>1, ConcatProperties
<1>6. c + d \in Int /\ Credit(h) = Credit(f) + (c + d)
  <2>1. Credit(f) \in Int /\ Credit(g) \in Int /\ Credit(h) \in Int
    BY <1>1, FlowTypes
  <2>. QED
    BY <1>1, <2>1
<1>3. Alike(Content(g) \o Y, (Content(f) \o X) \o Y)
  BY <1>1, AlikeSelf, AlikeJoin
<1>4. (Content(f) \o X) \o Y = Content(f) \o (X \o Y)
  BY <1>1, FlowTypes, ConcatAssociative, SMTT(40)
<1>5. Alike(Content(h), Content(f) \o (X \o Y))
  BY <1>1, <1>3, <1>4, AlikeChain, Zenon
<1>7. Orderly(f, h, X \o Y)
  BY <1>1, OrderlyChain
<1>. QED
  BY <1>1, <1>2, <1>5, <1>6, <1>7 DEF FlowMoves

\* Without anything to take in.
LEMMA FlowRests ==
  ASSUME NEW f, NEW g, NEW h, NEW X, NEW d, FlowMoves(f, g, X, d), FlowMoves(g, h, <<>>, 0)
  PROVE  FlowMoves(f, h, X, d)
<1>1. FlowMoves(f, h, X \o <<>>, d + 0)
  BY FlowGoesOn
<1>2. X \o <<>> = X /\ d + 0 = d
  BY JoinEmpty DEF FlowMoves
<1>. QED
  BY <1>1, <1>2, Zenon

\* A move after one that moves nothing.
LEMMA FlowStarts ==
  ASSUME NEW f, NEW g, NEW h, NEW X, NEW d, FlowMoves(f, g, <<>>, 0), FlowMoves(g, h, X, d)
  PROVE  FlowMoves(f, h, X, d)
<1>1. FlowMoves(f, h, <<>> \o X, 0 + d)
  BY FlowGoesOn
<1>2. <<>> \o X = X /\ 0 + d = d
  BY JoinEmpty DEF FlowMoves
<1>. QED
  BY <1>1, <1>2, Zenon

-----------------------------------------------------------------------------
(* Pushing.                                                                *)

\* Append joins a list of one.
LEMMA AppendJoin ==
  ASSUME NEW L \in Seq(Frames), NEW x \in Frames
  PROVE  Append(L, x) = L \o <<x>> /\ Append(L, x) \in Seq(Frames)
BY AppendIsConcat, AppendProperties

\* A frame within the window goes to the output buffer.
LEMMA ParentPushMoves ==
  ASSUME NEW f \in Flows, NEW x \in Frames, x.type = "DATA" => Len(x.data) <= f.window
  PROVE  LET g == ParentPush(f, x)
         IN  /\ g \in Flows /\ g.queue = f.queue /\ g.buffer = f.buffer \o <<x>>
             /\ g.window = f.window - Len(x.data) /\ Credit(g) = Credit(f)
             /\ g.received = f.received /\ g.ended = f.ended
             /\ g.initialWindow = f.initialWindow
<1>. DEFINE n == Len(x.data)
            B == Append(f.buffer, x)
            g == ParentPush(f, x)
            k == Len(Bytes(f.buffer))
<1>1. x.data \in Seq(Octet) /\ n \in Nat /\ x.type \in FrameTypes
  BY LenProperties DEF Frames
<1>2. f.window \in Int /\ f.buffer \in Seq(Frames) /\ f.failed = FALSE
  BY FlowTypes
<1>3. B \in Seq(Frames) /\ B = f.buffer \o <<x>>
  BY <1>2, AppendJoin
<1>4. Len(Bytes(B)) = k + n /\ k \in Nat
  <2>1. Bytes(B) = Bytes(f.buffer) \o x.data
    <3>1. Bytes(f.buffer \o <<x>>) = Bytes(f.buffer) \o Bytes(<<x>>)
      BY <1>2, OneFrame, BytesJoin
    <3>2. Bytes(<<x>>) = x.data
      BY OneFrame
    <3>. QED
      BY <1>3, <3>1, <3>2, Zenon
  <2>2. Bytes(f.buffer) \in Seq(Octet)
    BY <1>2, BytesType
  <2>. QED
    BY <1>1, <2>1, <2>2, ConcatProperties, LenProperties
<1>. HIDE DEF n, B, k
<1>5. (f.window - n < 0) => x.type # "DATA"
  BY <1>1, <1>2 DEF n
<1>6. g = [f EXCEPT !.buffer = B, !.reading = FALSE, !.window = f.window - n, !.failed = FALSE]
  BY <1>2, <1>5 DEF ParentPush, B, n, Flows
<1>. HIDE DEF g
<1>7. /\ g \in Flows /\ g.queue = f.queue /\ g.buffer = B /\ g.window = f.window - n
      /\ g.received = f.received /\ g.ended = f.ended /\ g.initialWindow = f.initialWindow
  <2>1. B \in Seq(Frames) /\ n \in Nat /\ f.window \in Int
    BY <1>1, <1>2, <1>3
  <2>. DEFINE w == f.window - n
  <2>2. w \in Int
    BY <2>1
  <2>3. g = [f EXCEPT !.buffer = B, !.reading = FALSE, !.window = w, !.failed = FALSE]
    BY <1>6
  <2>. HIDE DEF w
  <2>4. /\ g \in Flows /\ g.queue = f.queue /\ g.buffer = B /\ g.window = w
        /\ g.received = f.received /\ g.ended = f.ended /\ g.initialWindow = f.initialWindow
    BY <2>1, <2>2, <2>3 DEF Flows
  <2>. QED
    BY <2>4 DEF w
<1>8. Credit(g) = Credit(f)
  <2>1. Credit(g) = (f.window - n) + Len(Bytes(B)) /\ Credit(f) = f.window + k
    BY <1>7 DEF Credit, k
  <2>. QED
    BY <1>1, <1>2, <1>4, <2>1
<1>. QED
  BY <1>3, <1>7, <1>8 DEF g, n

\* What a push leaves of a frame waits at the head of the queue, for a window of 0.
PushOne(f, x) == LET t == TryPush(f, x) IN [t.flow EXCEPT !.queue = t.left]

WaitsFor(f) ==
  /\ f.window >= 0
  /\ f.queue # <<>> => f.window = 0 /\ Head(f.queue).type = "DATA"

\* push() of a frame with nothing queued puts it behind what the flow has, in
\* one piece or in two, and takes its bytes from the window.
LEMMA PushOneMoves ==
  ASSUME NEW f \in Flows, f.queue = <<>>, NEW x \in Frames
  PROVE  /\ FlowMoves(f, PushOne(f, x), <<x>>, 0)
         /\ f.window >= 0 => WaitsFor(PushOne(f, x))
<1>. DEFINE g == PushOne(f, x)
            n == Len(x.data)
            parts == SplitAt(x, f.window)
<1>0. /\ f.window \in Int /\ f.buffer \in Seq(Frames) /\ n \in Nat /\ Credit(f) \in Int
      /\ <<x>> \in Seq(Frames) /\ Content(f) = f.buffer
  <2>1. f.window \in Int /\ f.buffer \in Seq(Frames) /\ Credit(f) \in Int
    BY FlowTypes
  <2>2. x.data \in Seq(Octet)
    BY DEF Frames
  <2>3. Content(f) = f.buffer
    BY <2>1, JoinEmpty DEF Content
  <2>. QED
    BY <2>1, <2>2, <2>3, LenProperties, OneFrame
<1>1. CASE Fits(f, x)
  <2>. DEFINE p == ParentPush(f, x)
  <2>1. x.type = "DATA" => n <= f.window
    BY <1>1 DEF Fits
  <2>2. /\ p \in Flows /\ p.queue = <<>> /\ p.buffer = f.buffer \o <<x>>
        /\ p.window = f.window - n /\ Credit(p) = Credit(f)
        /\ p.received = f.received /\ p.ended = f.ended
        /\ p.initialWindow = f.initialWindow
    BY <2>1, ParentPushMoves, Zenon
  <2>3. g = [p EXCEPT !.queue = <<>>]
    BY <1>1 DEF PushOne, TryPush
  <2>. HIDE DEF p, g
  <2>4. g = p
    BY <2>2, <2>3 DEF Flows
  <2>5. Content(g) = f.buffer \o <<x>>
    <3>1. f.buffer \o <<x>> \in Seq(Frames)
      BY <1>0, ConcatProperties
    <3>. QED
      BY <2>2, <2>4, <3>1, JoinEmpty DEF Content
  <2>6. Alike(Content(g), Content(f) \o <<x>>)
    BY <1>0, <2>5, ConcatProperties, AlikeSelf
  <2>7. x.type # "DATA" => n = 0
    BY EmptySeq DEF Frames
  <2>8. Orderly(f, g, <<x>>)
    <3>1. g.buffer = f.buffer \o <<x>> /\ <<x>> # <<>>
      BY <2>2, <2>4, LeadsOne
    <3>2. /\ Leads(f.buffer) => Leads(g.buffer)
          /\ f.buffer = <<>> => g.buffer = <<x>>
      BY <1>0, <3>1, LeadsBehind
    <3>3. Content(f) = <<>> /\ Leads(<<x>>) => Leads(g.buffer)
      BY <1>0, <3>2, Zenon
    <3>. QED
      BY <3>1, <3>2, <3>3, Zenon DEF Orderly
  <2>. QED
    BY <1>0, <2>1, <2>2, <2>4, <2>6, <2>7, <2>8 DEF FlowMoves, WaitsFor, g
<1>2. CASE ~Fits(f, x) /\ f.window <= 0
  <2>1. x.type = "DATA"
    BY <1>2 DEF Fits
  <2>2. g = [f EXCEPT !.queue = <<x>>]
    BY <1>2 DEF PushOne, TryPush
  <2>. HIDE DEF g
  <2>3. /\ g \in Flows /\ g.queue = <<x>> /\ g.buffer = f.buffer /\ g.window = f.window
        /\ g.received = f.received /\ g.ended = f.ended
        /\ g.initialWindow = f.initialWindow
    BY <1>0, <2>2 DEF Flows
  <2>4. Content(g) = f.buffer \o <<x>> /\ Credit(g) = Credit(f)
    BY <2>3 DEF Content, Credit
  <2>5. Alike(Content(g), Content(f) \o <<x>>)
    BY <1>0, <2>4, ConcatProperties, AlikeSelf
  <2>6. Head(g.queue) = x
    BY <2>3
  <2>7. Orderly(f, g, <<x>>)
    <3>1. x \notin Opening
      BY <2>1 DEF Opening
    <3>. QED
      BY <2>3, <3>1, LeadsOne DEF Orderly
  <2>. QED
    BY <1>0, <1>2, <2>1, <2>3, <2>4, <2>5, <2>6, <2>7 DEF FlowMoves, WaitsFor, g
<1>3. CASE ~Fits(f, x) /\ ~(f.window <= 0)
  <2>. DEFINE y == parts[1]
              z == parts[2]
              p == ParentPush(f, y)
  <2>1. x.type = "DATA" /\ f.window \in 0 .. Len(x.data)
    BY <1>0, <1>3 DEF Fits
  <2>2. /\ y \in Frames /\ z \in Frames /\ y.type = "DATA" /\ z.type = "DATA"
        /\ Len(y.data) = f.window /\ Alike(<<y>> \o <<z>>, <<x>>)
    BY <2>1, SplitAlike, Zenon
  <2>3. g = [p EXCEPT !.queue = <<z>>]
    BY <1>3 DEF PushOne, TryPush
  <2>. HIDE DEF y, z
  <2>4. /\ p \in Flows /\ p.queue = <<>> /\ p.buffer = f.buffer \o <<y>>
        /\ p.window = f.window - Len(y.data) /\ Credit(p) = Credit(f)
        /\ p.received = f.received /\ p.ended = f.ended
        /\ p.initialWindow = f.initialWindow
    <3>1. y.type = "DATA" => Len(y.data) <= f.window
      BY <1>0, <2>2
    <3>. QED
      BY <2>2, <3>1, ParentPushMoves, Zenon
  <2>. HIDE DEF p, g
  <2>5. /\ g \in Flows /\ g.queue = <<z>> /\ g.buffer = p.buffer /\ g.window = 0
        /\ Credit(g) = Credit(p)
        /\ g.received = f.received /\ g.ended = f.ended
        /\ g.initialWindow = f.initialWindow
    <3>1. <<z>> \in Seq(Frames) /\ f.window - f.window = 0
      BY <1>0, <2>2, OneFrame
    <3>2. /\ g \in Flows /\ g.queue = <<z>> /\ g.buffer = p.buffer /\ g.window = p.window
          /\ g.received = p.received /\ g.ended = p.ended
          /\ g.initialWindow = p.initialWindow
      <4>. DEFINE q == <<z>>
      <4>1. q \in Seq(Frames) /\ p \in Flows /\ g = [p EXCEPT !.queue = q]
        BY <2>3, <2>4, <3>1
      <4>. HIDE DEF q
      <4>2. /\ g \in Flows /\ g.queue = q /\ g.buffer = p.buffer /\ g.window = p.window
            /\ g.received = p.received /\ g.ended = p.ended
            /\ g.initialWindow = p.initialWindow
        BY <4>1 DEF Flows
      <4>. QED
        BY <4>2 DEF q
    <3>3. Credit(g) = Credit(p)
      BY <3>2, Zenon DEF Credit
    <3>. QED
      BY <2>2, <2>4, <3>1, <3>2, <3>3, Zenon
  <2>6. Content(g) = (f.buffer \o <<y>>) \o <<z>>
    BY <2>4, <2>5, Zenon DEF Content
  <2>7. (f.buffer \o <<y>>) \o <<z>> = f.buffer \o (<<y>> \o <<z>>)
    BY <1>0, <2>2, OneFrame, ConcatAssociative
  <2>8. Alike(f.buffer \o (<<y>> \o <<z>>), f.buffer \o <<x>>)
    BY <1>0, <2>2, AlikeSelf, AlikeJoin
  <2>9. Alike(Content(g), Content(f) \o <<x>>)
    BY <1>0, <2>6, <2>7, <2>8, Zenon
  <2>10. Head(g.queue) = z
    BY <2>5
  <2>11. Orderly(f, g, <<x>>)
    <3>1. x \notin Opening
      BY <2>1 DEF Opening
    <3>2. g.buffer = f.buffer \o <<y>>
      BY <2>4, <2>5
    <3>3. Leads(f.buffer) => Leads(g.buffer)
      BY <1>0, <2>2, <3>2, LeadsBehind
    <3>. QED
      BY <3>1, <3>3, LeadsOne DEF Orderly
  <2>. QED
    BY <1>0, <2>2, <2>4, <2>5, <2>9, <2>10, <2>11 DEF FlowMoves, WaitsFor, g
<1>. QED
  BY <1>1, <1>2, <1>3

\* A frame behind the others.
LEMMA QueueMoves ==
  ASSUME NEW f \in Flows, NEW x \in Frames, Content(f) # <<>>
  PROVE  FlowMoves(f, [f EXCEPT !.queue = Append(@, x)], <<x>>, 0)
<1>. DEFINE g == [f EXCEPT !.queue = Append(@, x)]
<1>1. f.queue \in Seq(Frames) /\ f.buffer \in Seq(Frames) /\ <<x>> \in Seq(Frames)
  BY FlowTypes, OneFrame
<1>2. Append(f.queue, x) \in Seq(Frames) /\ Append(f.queue, x) = f.queue \o <<x>>
  BY <1>1, AppendJoin
<1>3. /\ g \in Flows /\ g.queue = f.queue \o <<x>> /\ g.buffer = f.buffer /\ Credit(g) = Credit(f)
      /\ g.received = f.received /\ g.ended = f.ended
      /\ g.initialWindow = f.initialWindow
  <2>1. /\ g \in Flows /\ g.queue = Append(f.queue, x) /\ g.buffer = f.buffer
        /\ g.window = f.window /\ g.received = f.received /\ g.ended = f.ended
        /\ g.initialWindow = f.initialWindow
    BY <1>2 DEF Flows
  <2>. QED
    BY <1>2, <2>1 DEF Credit
<1>. HIDE DEF g
<1>4. Content(g) = (f.buffer \o f.queue) \o <<x>>
  <2>1. f.buffer \o (f.queue \o <<x>>) = (f.buffer \o f.queue) \o <<x>>
    BY <1>1, JoinAssociative, Zenon
  <2>2. Content(g) = f.buffer \o (f.queue \o <<x>>)
    BY <1>3 DEF Content
  <2>. QED
    BY <2>1, <2>2, Zenon
<1>5. Alike(Content(g), Content(f) \o <<x>>)
  <2>1. (f.buffer \o f.queue) \o <<x>> \in Seq(Frames)
    BY <1>1, ConcatProperties
  <2>2. Alike((f.buffer \o f.queue) \o <<x>>, (f.buffer \o f.queue) \o <<x>>)
    BY <2>1, AlikeSelf
  <2>. QED
    BY <1>4, <2>2, Zenon DEF Content
<1>6. FlowMoves(f, g, <<x>>, 0)
  <2>3. Orderly(f, g, <<x>>)
    BY <1>3 DEF Orderly
  <2>1. Credit(f) \in Int
    BY FlowTypes
  <2>2. Credit(f) + 0 = Credit(f) /\ 0 \in Int
    BY <2>1
  <2>. QED
    BY <1>1, <1>3, <1>5, <2>2, <2>3, Zenon DEF FlowMoves
<1>. QED
  BY <1>6 DEF g

\* push() of a frame puts it behind what the flow has.
LEMMA PushMoves ==
  ASSUME NEW f \in Flows, NEW x \in Frames
  PROVE  FlowMoves(f, Push(f, x), <<x>>, 0)
<1>1. f.queue # <<>> => Content(f) # <<>>
  BY FlowTypes, LeadsOn DEF Content
<1>. QED
  BY <1>1, PushOneMoves, QueueMoves DEF Push, PushOne

-----------------------------------------------------------------------------
(* Reading.                                                                *)

\* A list is built from its prefixes, one frame at a time.
LEMMA PrefixGrows ==
  ASSUME NEW L \in Seq(Frames)
  PROVE  /\ SubSeq(L, 1, 0) = <<>> /\ SubSeq(L, 1, Len(L)) = L
         /\ \A k \in 1 .. Len(L) :
              /\ L[k] \in Frames
              /\ SubSeq(L, 1, k) = SubSeq(L, 1, k - 1) \o <<L[k]>>
<1>1. SubSeq(L, 1, 0) = <<>> /\ SubSeq(L, 1, Len(L)) = L
  BY SubSeqEmpty, SubSeqFull
<1>2. Len(L) \in Nat
  BY LenProperties
<1>3. ASSUME NEW k \in 1 .. Len(L)
      PROVE  L[k] \in Frames /\ SubSeq(L, 1, k) = SubSeq(L, 1, k - 1) \o <<L[k]>>
  <2>1. 1 \in 1 .. Len(L) /\ k \in 1 .. Len(L)
    BY <1>2
  <2>. QED
    BY <2>1, SubSeqRecursiveSecond, ElementOfSeq
<1>. QED
  BY <1>1, <1>3

\* What the loop of _read keeps true of a flow that it refills.
Filling ==
  {g \in Flows : /\ g.window >= 0
                 /\ g.queue # <<>> => \/ ~MoreNeeded(g)
                                      \/ g.window = 0 /\ Head(g.queue).type = "DATA"}

RefillNext(f, g, x) ==
  IF g.queue # <<>> \/ (g.buffer # f.buffer /\ ~MoreNeeded(g))
  THEN [g EXCEPT !.queue = Append(@, x)]
  ELSE PushOne(g, x)

\* One round of the loop of _read moves one frame of the queue.
LEMMA RefillNextMoves ==
  ASSUME NEW f, NEW g \in Filling, NEW x \in Frames
  PROVE  RefillNext(f, g, x) \in Filling /\ FlowMoves(g, RefillNext(f, g, x), <<x>>, 0)
<1>0. /\ g \in Flows /\ g.window >= 0
      /\ g.queue # <<>> => \/ ~MoreNeeded(g)
                           \/ g.window = 0 /\ Head(g.queue).type = "DATA"
  BY DEF Filling
<1>1. CASE g.queue # <<>> \/ (g.buffer # f.buffer /\ ~MoreNeeded(g))
  <2>. DEFINE h == [g EXCEPT !.queue = Append(@, x)]
  <2>1. FlowMoves(g, h, <<x>>, 0)
    <3>1. g.queue \in Seq(Frames) /\ g.buffer \in Seq(Frames)
      BY <1>0, FlowTypes
    <3>2. ~MoreNeeded(g) => g.buffer # <<>>
      BY EmptySeq, FlowAssumption DEF MoreNeeded
    <3>3. Content(g) # <<>>
      BY <1>1, <3>1, <3>2, LeadsOn DEF Content
    <3>. QED
      BY <1>0, <3>3, QueueMoves
  <2>2. /\ h.window = g.window /\ h.buffer = g.buffer /\ h.queue = Append(g.queue, x)
    BY <1>0 DEF Flows
  <2>3. Head(h.queue) = IF g.queue = <<>> THEN x ELSE Head(g.queue)
    <3>1. g.queue \in Seq(Frames)
      BY <1>0, FlowTypes
    <3>. QED
      BY <2>2, <3>1, HeadTailAppend
  <2>. HIDE DEF h
  <2>4. h \in Filling
    BY <1>0, <1>1, <2>1, <2>2, <2>3 DEF Filling, FlowMoves, MoreNeeded
  <2>. QED
    BY <1>1, <2>1, <2>4 DEF RefillNext, h
<1>2. CASE ~(g.queue # <<>> \/ (g.buffer # f.buffer /\ ~MoreNeeded(g)))
  <2>1. FlowMoves(g, PushOne(g, x), <<x>>, 0) /\ WaitsFor(PushOne(g, x))
    BY <1>0, <1>2, PushOneMoves
  <2>2. PushOne(g, x) \in Filling
    BY <2>1 DEF FlowMoves, WaitsFor, Filling
  <2>. QED
    BY <1>2, <2>1, <2>2 DEF RefillNext
<1>. QED
  BY <1>1, <1>2

\* The loop of _read takes the queue in again, and ends as line 171 asserts.
LEMMA RefillRuns ==
  ASSUME NEW f \in Flows, f.window > 0
  PROVE  LET start == [f EXCEPT !.queue = <<>>, !.blocked = FALSE]
         IN  \E after \in Filling :
               /\ FlowMoves(start, after, f.queue, 0)
               /\ Refill(f) = [after EXCEPT !.failed =
                     @ \/ ~(\/ ~MoreNeeded(after) \/ after.queue = <<>>
                            \/ after.window = 0 /\ Head(after.queue).type = "DATA")]
<1>. DEFINE L == f.queue
            n == Len(L)
            start == [f EXCEPT !.queue = <<>>, !.blocked = FALSE]
            Solves(g) == g = [s \in SUBSET DOMAIN L |->
                                IF s = {} THEN start
                                ELSE RefillNext(f, g[s \ {Max(s)}], L[Max(s)])]
            c == CHOOSE g : Solves(g)
            Step == [p \in (1 .. n) \X Filling |-> RefillNext(f, p[2], L[p[1]])]
            after == c[DOMAIN L]
<1>1. Refill(f) = [after EXCEPT !.failed =
                     @ \/ ~(\/ ~MoreNeeded(after) \/ after.queue = <<>>
                            \/ after.window = 0 /\ Head(after.queue).type = "DATA")]
  BY Zenon DEF Refill, FoldLeft, MapThenFoldSet, RefillNext, PushOne
<1>0. L \in Seq(Frames)
  BY FlowTypes
<1>2. n \in Nat /\ DOMAIN L = 1 .. n /\ \A k \in 1 .. n : L[k] \in Frames
  BY <1>0, LenProperties, ElementOfSeq
<1>20. start \in Filling /\ FlowMoves(start, start, <<>>, 0)
  <2>1. start \in Flows /\ start.window = f.window /\ start.queue = <<>>
    BY EmptyList DEF Flows
  <2>2. SameFlow(start, start)
    BY <2>1 DEF SameFlow
  <2>. HIDE DEF start
  <2>. QED
    <3>1. start.window >= 0
      <4>1. f.window \in Int /\ f.window > 0
        BY FlowTypes
      <4>. QED
        BY <2>1, <4>1
    <3>2. start \in Filling
      BY <2>1, <3>1, Zenon DEF Filling
    <3>. QED
      BY <2>2, <3>2, FlowStays
<1>. HIDE DEF start
<1>3. StepIn(n, Filling, start, Step)
  BY <1>2, <1>20, RefillNextMoves DEF StepIn
<1>4. \A k \in 1 .. n, v \in Filling : Step[<<k, v>>] = RefillNext(f, v, L[k])
  OBVIOUS
<1>. HIDE DEF Step, n, L
<1>5. PICK g \in [SUBSET (1 .. n) -> Filling] : IsFold(n, start, Step, g)
  BY <1>2, <1>3, FoldsExist
<1>6. Solves(g)
  <2>1. ASSUME NEW s \in SUBSET (1 .. n), s # {}
        PROVE  Max(s) \in 1 .. n /\ g[s \ {Max(s)}] \in Filling
    BY <1>2, <2>1, LargestIndex
  <2>2. g = [s \in SUBSET (1 .. n) |->
               IF s = {} THEN start ELSE Step[<<Max(s), g[s \ {Max(s)}]>>]]
    BY <1>5 DEF IsFold, FoldStep
  <2>3. \A s \in SUBSET (1 .. n) :
           g[s] = IF s = {} THEN start ELSE RefillNext(f, g[s \ {Max(s)}], L[Max(s)])
    BY <1>4, <2>1, <2>2
  <2>. QED
    BY <1>2, <2>3
<1>7. Solves(c)
  BY <1>6
<1>. HIDE DEF c
<1>8. Obeys(n, Filling, start, Step, c)
  <2>1. \A s \in SUBSET (1 .. n) :
           c[s] = IF s = {} THEN start ELSE RefillNext(f, c[s \ {Max(s)}], L[Max(s)])
    BY <1>2, <1>7
  <2>2. \A s \in SUBSET (1 .. n) : s # {} => Max(s) \in 1 .. n
    BY <1>2, LargestIndex
  <2>. QED
    BY <1>4, <2>1, <2>2 DEF Obeys
<1>9. PICK h \in [0 .. n -> Filling] : Runs(n, start, Step, h) /\ h[n] = c[1 .. n]
  <2>1. n \in Nat
    BY <1>2
  <2>. QED
    <3>1. ASSUME NEW x, Obeys(n, Filling, start, Step, x)
          PROVE  \E h \in [0 .. n -> Filling] : Runs(n, start, Step, h) /\ h[n] = x[1 .. n]
      BY <2>1, <1>3, <3>1, FoldRuns
    <3>. QED
      BY <1>8, <3>1
<1>. DEFINE P == {k \in 0 .. n : FlowMoves(start, h[k], SubSeq(L, 1, k), 0)}
<1>10. 0 \in P
  <2>1. h[0] = start /\ 0 \in 0 .. n
    BY <1>2, <1>9 DEF Runs
  <2>2. SubSeq(L, 1, 0) = <<>>
    BY <1>0, PrefixGrows
  <2>. QED
    BY <1>20, <2>1, <2>2
<1>11. ASSUME NEW k \in 1 .. n, k - 1 \in P PROVE k \in P
  <2>1. h[k - 1] \in Filling /\ k \in 0 .. n
    BY <1>2
  <2>2. h[k] = Step[<<k, h[k - 1]>>]
    BY <1>9, Zenon DEF Runs
  <2>3. h[k] = RefillNext(f, h[k - 1], L[k])
    BY <1>4, <2>1, <2>2
  <2>4. FlowMoves(h[k - 1], h[k], <<L[k]>>, 0)
    BY <1>2, <2>1, <2>3, RefillNextMoves
  <2>5. FlowMoves(start, h[k - 1], SubSeq(L, 1, k - 1), 0)
    BY <1>11
  <2>6. FlowMoves(start, h[k], SubSeq(L, 1, k - 1) \o <<L[k]>>, 0 + 0)
    BY <2>4, <2>5, FlowGoesOn
  <2>7. SubSeq(L, 1, k) = SubSeq(L, 1, k - 1) \o <<L[k]>> /\ 0 + 0 = 0
    BY <1>0, PrefixGrows DEF n
  <2>. QED
    BY <2>1, <2>6, <2>7
<1>12. n \in P
  <2>. HIDE DEF P
  <2>1. 0 .. n \subseteq P
    BY <1>2, <1>10, <1>11, UpTo
  <2>2. n \in 0 .. n
    BY <1>2
  <2>. QED
    BY <2>1, <2>2
<1>13. h[n] \in Filling /\ h[n] = after
  BY <1>2, <1>9
<1>14. SubSeq(L, 1, n) = L
  BY <1>0, PrefixGrows DEF n
<1>15. FlowMoves(start, after, L, 0)
  BY <1>12, <1>13, <1>14
<1>. QED
  BY <1>1, <1>13, <1>15 DEF start, L

\* The loop of _read moves frames from the queue to the output buffer, in order,
\* and its assertion holds when it ends.
LEMMA RefillMoves ==
  ASSUME NEW f \in Flows, f.window > 0
  PROVE  FlowMoves(f, Refill(f), <<>>, 0)
<1>. DEFINE start == [f EXCEPT !.queue = <<>>, !.blocked = FALSE]
<1>1. PICK after \in Filling :
               /\ FlowMoves(start, after, f.queue, 0)
               /\ Refill(f) = [after EXCEPT !.failed =
                     @ \/ ~(\/ ~MoreNeeded(after) \/ after.queue = <<>>
                            \/ after.window = 0 /\ Head(after.queue).type = "DATA")]
  BY RefillRuns
<1>2. /\ after \in Flows /\ after.failed = FALSE
      /\ \/ ~MoreNeeded(after) \/ after.queue = <<>>
         \/ after.window = 0 /\ Head(after.queue).type = "DATA"
  BY FlowTypes DEF Filling
<1>3. Refill(f) = after
  <2>1. Refill(f) = [after EXCEPT !.failed = FALSE]
    BY <1>1, <1>2
  <2>. QED
    BY <1>2, <2>1 DEF Flows
<1>4. /\ start \in Flows /\ start.window = f.window /\ start.queue = <<>> /\ start.buffer = f.buffer
      /\ start.received = f.received /\ start.ended = f.ended
      /\ start.initialWindow = f.initialWindow
  BY EmptyList DEF Flows
<1>. HIDE DEF start
<1>5. f.buffer \in Seq(Frames) /\ f.queue \in Seq(Frames)
  BY FlowTypes
<1>6. Content(start) \o f.queue = Content(f) \o <<>>
  <2>1. Content(start) = f.buffer \o <<>>
    BY <1>4, Zenon DEF Content
  <2>2. f.buffer \o <<>> = f.buffer
    BY <1>5, JoinEmpty
  <2>3. Content(f) \o <<>> = Content(f)
    BY FlowTypes, JoinEmpty
  <2>. QED
    BY <2>1, <2>2, <2>3, Zenon DEF Content
<1>7. Credit(start) = Credit(f)
  BY <1>4 DEF Credit
<1>8. Orderly(f, after, <<>>)
  <2>1. Orderly(start, after, f.queue)
    BY <1>1 DEF FlowMoves
  <2>2. Content(f) = <<>> => f.queue = <<>> /\ Content(start) = <<>>
    BY <1>4, <1>5, LeadsOn DEF Content
  <2>. QED
    BY <1>4, <2>1, <2>2, EmptyList, LeadsOne DEF Orderly, Leads
<1>. QED
  BY <1>1, <1>3, <1>4, <1>6, <1>7, <1>8, EmptyList, Zenon DEF FlowMoves

\* _read moves frames, or says BLOCKED.
LEMMA ReadMoves ==
  ASSUME NEW f \in Flows
  PROVE  FlowMoves(f, Read(f), <<>>, 0)
<1>1. CASE f.queue = <<>>
  <2>1. SameFlow(f, [f EXCEPT !.asked = TRUE])
    BY DEF SameFlow, Flows
  <2>. QED
    BY <1>1, <2>1, FlowStays DEF Read
<1>2. CASE f.queue # <<>> /\ f.window > 0
  BY <1>2, RefillMoves DEF Read
<1>3. CASE f.queue # <<>> /\ ~(f.window > 0) /\ f.blocked
  <2>1. SameFlow(f, f)
    BY DEF SameFlow
  <2>. QED
    BY <1>3, <2>1, FlowStays DEF Read
<1>4. CASE f.queue # <<>> /\ ~(f.window > 0) /\ ~f.blocked
  <2>. DEFINE x == F("BLOCKED")
              p == ParentPush(f, x)
              g == [p EXCEPT !.blocked = TRUE, !.waiting = TRUE]
  <2>1. x \in Quiets /\ x \in Frames /\ x.type = "BLOCKED"
    BY EmptyList, EmptySeq DEF F, Quiets, Frames, FrameTypes
  <2>2. /\ p \in Flows /\ p.queue = f.queue /\ p.buffer = f.buffer \o <<x>>
        /\ Credit(p) = Credit(f) /\ p.received = f.received /\ p.ended = f.ended
        /\ p.initialWindow = f.initialWindow
    BY <2>1, ParentPushMoves
  <2>3. Read(f) = g
    BY <1>4 DEF Read
  <2>. HIDE DEF x, p
  <2>4. SameFlow(p, g)
    BY <2>2 DEF SameFlow, Flows
  <2>5. f.buffer \in Seq(Frames) /\ f.queue \in Seq(Frames) /\ Credit(f) \in Int
    BY FlowTypes
  <2>6. Alike(f.buffer \o <<x>>, f.buffer \o <<>>) /\ Alike(f.queue, f.queue)
    BY <2>1, <2>5, QuietAlike, AlikeSelf, AlikeJoin
  <2>7. Alike((f.buffer \o <<x>>) \o f.queue, (f.buffer \o <<>>) \o f.queue)
    BY <2>6, AlikeJoin
  <2>8. f.buffer \o <<>> = f.buffer /\ Content(f) \o <<>> = Content(f)
    BY <2>5, FlowTypes, JoinEmpty
  <2>9. Alike(Content(p), Content(f) \o <<>>)
    BY <2>2, <2>7, <2>8, Zenon DEF Content
  <2>10. Credit(f) + 0 = Credit(f)
    BY <2>5
  <2>12. Orderly(f, p, <<>>)
    <3>1. Content(f) # <<>>
      BY <1>4, <2>5, LeadsOn DEF Content
    <3>3. Leads(f.buffer) => Leads(p.buffer)
      BY <2>1, <2>2, <2>5, LeadsBehind
    <3>. QED
      BY <3>1, <3>3 DEF Orderly
  <2>11. FlowMoves(f, p, <<>>, 0)
    BY <2>2, <2>9, <2>10, <2>12, EmptyList DEF FlowMoves
  <2>. HIDE DEF g
  <2>. QED
    BY <2>3, <2>4, <2>11, FlowStays, FlowRests
<1>. QED
  BY <1>1, <1>2, <1>3, <1>4

\* The reads that the Duplex makes by itself move frames.
LEMMA ReadMoreMoves ==
  ASSUME NEW f \in Flows
  PROVE  FlowMoves(f, ReadMore(f), <<>>, 0)
<1>. DEFINE g == [f EXCEPT !.reading = TRUE]
<1>1. SameFlow(f, f) /\ SameFlow(f, g)
  BY DEF SameFlow, Flows
<1>2. ReadMore(f) = f \/ ReadMore(f) = Read(g)
  BY DEF ReadMore
<1>. HIDE DEF g
<1>3. g \in Flows
  BY <1>1 DEF SameFlow
<1>. QED
  BY <1>1, <1>2, <1>3, FlowStays, ReadMoves, FlowStarts

\* The end of a turn reads up to three times.
LEMMA EndOfTurnMoves ==
  ASSUME NEW f \in Flows
  PROVE  FlowMoves(f, EndOfTurn(f), <<>>, 0)
<1>. DEFINE L == <<1, 2, 3>>
            n == 3
            start == f
            Solves(g) == g = [s \in SUBSET DOMAIN L |->
                                IF s = {} THEN start ELSE ReadMore(g[s \ {Max(s)}])]
            c == CHOOSE g : Solves(g)
            Step == [p \in (1 .. n) \X Flows |-> ReadMore(p[2])]
            after == c[DOMAIN L]
<1>1. EndOfTurn(f) = after
  BY Zenon DEF EndOfTurn, FoldLeft, MapThenFoldSet
<1>2. n \in Nat /\ DOMAIN L = 1 .. n
  OBVIOUS
<1>. HIDE DEF L, n
<1>3. StepIn(n, Flows, start, Step)
  BY ReadMoreMoves DEF StepIn, FlowMoves
<1>4. \A k \in 1 .. n, v \in Flows : Step[<<k, v>>] = ReadMore(v)
  OBVIOUS
<1>. HIDE DEF Step, start
<1>5. PICK g \in [SUBSET (1 .. n) -> Flows] : IsFold(n, start, Step, g)
  BY <1>2, <1>3, FoldsExist
<1>6. Solves(g)
  <2>1. ASSUME NEW s \in SUBSET (1 .. n), s # {}
        PROVE  Max(s) \in 1 .. n /\ g[s \ {Max(s)}] \in Flows
    BY <1>2, <2>1, LargestIndex
  <2>2. g = [s \in SUBSET (1 .. n) |->
               IF s = {} THEN start ELSE Step[<<Max(s), g[s \ {Max(s)}]>>]]
    BY <1>5 DEF IsFold, FoldStep
  <2>3. \A s \in SUBSET (1 .. n) :
           g[s] = IF s = {} THEN start ELSE ReadMore(g[s \ {Max(s)}])
    BY <1>4, <2>1, <2>2
  <2>. QED
    BY <1>2, <2>3
<1>7. Solves(c)
  BY <1>6
<1>. HIDE DEF c
<1>8. Obeys(n, Flows, start, Step, c)
  <2>1. \A s \in SUBSET (1 .. n) :
           c[s] = IF s = {} THEN start ELSE ReadMore(c[s \ {Max(s)}])
    BY <1>2, <1>7
  <2>2. \A s \in SUBSET (1 .. n) : s # {} => Max(s) \in 1 .. n
    BY <1>2, LargestIndex
  <2>. QED
    BY <1>4, <2>1, <2>2 DEF Obeys
<1>9. PICK h \in [0 .. n -> Flows] : Runs(n, start, Step, h) /\ h[n] = c[1 .. n]
  <2>1. ASSUME NEW x, Obeys(n, Flows, start, Step, x)
        PROVE  \E h \in [0 .. n -> Flows] : Runs(n, start, Step, h) /\ h[n] = x[1 .. n]
    BY <1>2, <1>3, <2>1, FoldRuns
  <2>. QED
    BY <1>8, <2>1
<1>. DEFINE P == {k \in 0 .. n : FlowMoves(start, h[k], <<>>, 0)}
<1>10. 0 \in P
  <2>1. h[0] = start /\ 0 \in 0 .. n
    BY <1>2, <1>9 DEF Runs
  <2>2. FlowMoves(start, start, <<>>, 0)
    BY FlowStays DEF SameFlow, start
  <2>. QED
    BY <2>1, <2>2
<1>11. ASSUME NEW k \in 1 .. n, k - 1 \in P PROVE k \in P
  <2>1. h[k - 1] \in Flows /\ k \in 0 .. n
    BY <1>2
  <2>2. h[k] = Step[<<k, h[k - 1]>>]
    BY <1>9, Zenon DEF Runs
  <2>3. FlowMoves(h[k - 1], h[k], <<>>, 0)
    BY <1>4, <2>1, <2>2, ReadMoreMoves
  <2>4. FlowMoves(start, h[k - 1], <<>>, 0)
    BY <1>11
  <2>. QED
    BY <2>1, <2>3, <2>4, FlowRests
<1>12. n \in P
  <2>. HIDE DEF P
  <2>1. 0 .. n \subseteq P
    BY <1>2, <1>10, <1>11, UpTo
  <2>2. n \in 0 .. n
    BY <1>2
  <2>. QED
    BY <2>1, <2>2
<1>13. h[n] = after
  BY <1>2, <1>9
<1>. QED
  BY <1>1, <1>12, <1>13 DEF start

\* read() with an empty buffer moves frames.
LEMMA PolledMoves ==
  ASSUME NEW f \in Flows
  PROVE  FlowMoves(f, Polled(f), <<>>, 0)
<1>1. SameFlow(f, f)
  BY DEF SameFlow
<1>. QED
  BY <1>1, FlowStays, ReadMoves DEF Polled

\* What the connection takes was at the head of what the flow holds.
LEMMA TakenMoves ==
  ASSUME NEW f \in Flows, f.buffer # <<>>, NEW limit \in Nat \ {0}
  PROVE  LET x == TakeFrame(f, limit).frame
             g == Taken(f, limit)
         IN  /\ x \in Frames /\ g \in Flows
             /\ Alike(<<x>> \o Content(g), Content(f))
             /\ Credit(g) + Len(x.data) = Credit(f)
             /\ g.received = f.received /\ g.ended = f.ended
             /\ g.initialWindow = f.initialWindow
             /\ Leads(f.buffer) => x \in Opening
             /\ Content(f) # <<>>
<1>. DEFINE x == TakeFrame(f, limit).frame
            g == TakeFrame(f, limit).flow
            head == Head(f.buffer)
            rest == Tail(f.buffer)
            most == IF limit > MAX_PAYLOAD_SIZE THEN MAX_PAYLOAD_SIZE ELSE limit
<1>0. /\ f.buffer \in Seq(Frames) /\ f.queue \in Seq(Frames) /\ f.window \in Int
      /\ head \in Frames /\ rest \in Seq(Frames) /\ f.buffer = <<head>> \o rest
      /\ most \in Nat \ {0}
  <2>1. f.buffer \in Seq(Frames) /\ f.queue \in Seq(Frames) /\ f.window \in Int
    BY FlowTypes
  <2>2. head \in Frames /\ rest \in Seq(Frames)
    BY <2>1, HeadTailProperties
  <2>3. f.buffer = <<head>> \o rest
    BY <2>1
  <2>4. most \in Nat \ {0}
    BY FlowAssumption
  <2>. QED
    BY <2>1, <2>2, <2>3, <2>4
<1>. HIDE DEF most
\* The two cases give the same picture.
<1>1. \E tail \in Seq(Frames) :
         /\ x \in Frames /\ g = [f EXCEPT !.buffer = tail]
         /\ Alike(<<x>> \o tail, f.buffer)
         /\ Leads(f.buffer) => x \in Opening
  <2>1. CASE head.type = "DATA" /\ Len(head.data) > most
    <3>. DEFINE y == SplitAt(head, most)[1]
                z == SplitAt(head, most)[2]
    <3>1. most \in 0 .. Len(head.data)
      <4>1. head.data \in Seq(Octet)
        BY <1>0 DEF Frames
      <4>2. Len(head.data) \in Nat
        BY <4>1, LenProperties
      <4>. QED
        BY <1>0, <2>1, <4>2
    <3>2. y \in Frames /\ z \in Frames /\ Alike(<<y>> \o <<z>>, <<head>>)
      BY <1>0, <2>1, <3>1, SplitAlike
    <3>3. x = y /\ g = [f EXCEPT !.buffer = <<z>> \o rest]
      BY <2>1 DEF TakeFrame, most
    <3>. HIDE DEF y, z, head, rest, x, g
    <3>4. <<z>> \in Seq(Frames) /\ <<y>> \in Seq(Frames)
      BY <3>2, OneFrame
    <3>5. <<z>> \o rest \in Seq(Frames)
      BY <1>0, <3>4, JoinList
    <3>6. Alike((<<y>> \o <<z>>) \o rest, <<head>> \o rest)
      BY <1>0, <3>2, AlikeSelf, AlikeJoin
    <3>7. (<<y>> \o <<z>>) \o rest = <<y>> \o (<<z>> \o rest)
      BY <1>0, <3>4, JoinAssociative
    <3>8. Alike(<<x>> \o (<<z>> \o rest), f.buffer)
      BY <1>0, <3>3, <3>6, <3>7, Zenon
    <3>9. head \notin Opening
      BY <2>1 DEF Opening
    <3>10. f.buffer[1] = head
      BY <1>0 DEF head
    <3>. QED
      BY <3>2, <3>3, <3>5, <3>8, <3>9, <3>10 DEF Leads
  <2>2. CASE ~(head.type = "DATA" /\ Len(head.data) > most)
    <3>1. x = head /\ g = [f EXCEPT !.buffer = rest]
      BY <2>2 DEF TakeFrame, most
    <3>. HIDE DEF head, rest, x, g
    <3>2. Alike(<<x>> \o rest, f.buffer)
      BY <1>0, <3>1, AlikeSelf, Zenon
    <3>3. f.buffer[1] = head
      BY <1>0 DEF head
    <3>. QED
      BY <1>0, <3>1, <3>2, <3>3 DEF Leads
  <2>. QED
    BY <2>1, <2>2
<1>2. PICK tail \in Seq(Frames) :
         /\ x \in Frames /\ g = [f EXCEPT !.buffer = tail]
         /\ Alike(<<x>> \o tail, f.buffer)
         /\ Leads(f.buffer) => x \in Opening
  BY <1>1
<1>3. Taken(f, limit) = Polled(g)
  BY DEF Taken
<1>. HIDE DEF x, g, head, rest
<1>4. /\ g \in Flows /\ g.buffer = tail /\ g.queue = f.queue /\ g.window = f.window
      /\ g.received = f.received /\ g.ended = f.ended /\ g.initialWindow = f.initialWindow
  BY <1>2 DEF Flows
<1>5. FlowMoves(g, Polled(g), <<>>, 0)
  BY <1>4, PolledMoves
<1>6. Alike(<<x>> \o Content(g), Content(f))
  <2>1. Alike((<<x>> \o tail) \o f.queue, f.buffer \o f.queue)
    BY <1>0, <1>2, AlikeSelf, AlikeJoin
  <2>2. <<x>> \in Seq(Frames)
    BY <1>2, OneFrame
  <2>3. (<<x>> \o tail) \o f.queue = <<x>> \o (tail \o f.queue)
    BY <1>0, <2>2, JoinAssociative, ZenonT(60)
  <2>. QED
    BY <1>4, <2>1, <2>3, Zenon DEF Content
<1>7. Credit(g) + Len(x.data) = Credit(f)
  <2>1. Bytes(<<x>> \o tail) = Bytes(f.buffer)
    BY <1>2 DEF Alike
  <2>2. Bytes(<<x>> \o tail) = Bytes(<<x>>) \o Bytes(tail) /\ Bytes(<<x>>) = x.data
    BY <1>2, OneFrame, BytesJoin
  <2>3. x.data \in Seq(Octet) /\ Bytes(tail) \in Seq(Octet)
    BY <1>2, BytesType DEF Frames
  <2>4. Len(Bytes(f.buffer)) = Len(x.data) + Len(Bytes(tail))
    <3>1. Bytes(f.buffer) = x.data \o Bytes(tail)
      BY <2>1, <2>2, Zenon
    <3>. QED
      BY <2>3, <3>1, ConcatProperties
  <2>5. Len(x.data) \in Nat /\ Len(Bytes(tail)) \in Nat
    BY <2>3, LenProperties
  <2>6. Credit(g) = f.window + Len(Bytes(tail)) /\ Credit(f) = f.window + Len(Bytes(f.buffer))
    BY <1>4 DEF Credit
  <2>. QED
    BY <1>0, <2>4, <2>5, <2>6
<1>. DEFINE p == Polled(g)
<1>8. /\ p \in Flows /\ Credit(p) = Credit(g) + 0 /\ Alike(Content(p), Content(g) \o <<>>)
      /\ p.received = g.received /\ p.ended = g.ended /\ p.initialWindow = g.initialWindow
  BY <1>5 DEF FlowMoves
<1>. HIDE DEF p
<1>9. Credit(p) = Credit(g)
  BY <1>4, <1>8, FlowNumbers
<1>10. Alike(<<x>> \o Content(p), Content(f))
  <2>1. Content(g) \o <<>> = Content(g)
    BY <1>4, FlowTypes, JoinEmpty
  <2>2. <<x>> \in Seq(Frames)
    BY <1>2, OneFrame
  <2>3. Alike(Content(p), Content(g)) /\ Alike(<<x>>, <<x>>)
    BY <1>8, <2>1, <2>2, AlikeSelf, Zenon
  <2>4. Alike(<<x>> \o Content(p), <<x>> \o Content(g))
    BY <2>3, AlikeJoin
  <2>. QED
    BY <1>6, <2>4, AlikeChain
<1>11. Content(f) # <<>>
  BY <1>0, LeadsOn DEF Content
<1>. QED
  BY <1>2, <1>3, <1>4, <1>7, <1>8, <1>9, <1>10, <1>11, Zenon DEF x, p

-----------------------------------------------------------------------------
(* Windows.                                                                *)

\* _increaseWindow gives its increment to the window, and moves no frame but those
\* that the event 'window_update' lets go.
LEMMA IncreaseWindowMoves ==
  ASSUME NEW f \in Flows, NEW d \in Int
  PROVE  FlowMoves(f, IncreaseWindow(f, d), <<>>, d)
<1>. DEFINE g == Grow(f, d)
            w == f.window + d
<1>1. g = [f EXCEPT !.window = w] /\ w \in Int
  BY FlowNumbers DEF Grow
<1>. HIDE DEF g
<1>2. FlowMoves(f, g, <<>>, d)
  <2>. HIDE DEF w
  <2>1. /\ g \in Flows /\ g.window = w /\ g.buffer = f.buffer /\ g.queue = f.queue
        /\ g.received = f.received /\ g.ended = f.ended /\ g.initialWindow = f.initialWindow
    BY <1>1 DEF Flows
  <2>2. Content(g) = Content(f)
    BY <2>1, Zenon DEF Content
  <2>3. Alike(Content(g), Content(f) \o <<>>)
    <3>1. Content(f) \o <<>> = Content(f) /\ Alike(Content(f), Content(f))
      BY FlowTypes, JoinEmpty, AlikeSelf
    <3>. QED
      BY <2>2, <3>1, Zenon
  <2>4. Credit(g) = Credit(f) + d
    <3>1. Credit(g) = w + Len(Bytes(f.buffer)) /\ Credit(f) = f.window + Len(Bytes(f.buffer))
      BY <2>1 DEF Credit
    <3>2. Len(Bytes(f.buffer)) \in Nat /\ f.window \in Int
      BY FlowTypes, BytesType, LenProperties
    <3>. QED
      BY <3>1, <3>2 DEF w
  <2>. QED
    BY <2>1, <2>3, <2>4, EmptyList, OrderlySame DEF FlowMoves
<1>3. ASSUME NEW h \in Flows PROVE FlowMoves(h, Wake(h), <<>>, 0)
  <2>. DEFINE k == [h EXCEPT !.waiting = FALSE]
  <2>1. SameFlow(h, h) /\ SameFlow(h, k)
    BY DEF SameFlow, Flows
  <2>2. Wake(h) = h \/ Wake(h) = Read(k)
    BY DEF Wake
  <2>. HIDE DEF k
  <2>. QED
    BY <2>1, <2>2, FlowStays, ReadMoves, FlowStarts DEF SameFlow
<1>4. FlowMoves(g, Wake(g), <<>>, 0)
  BY <1>2, <1>3 DEF FlowMoves
<1>5. IncreaseWindow(f, d) = g \/ IncreaseWindow(f, d) = Wake(g)
  BY DEF IncreaseWindow, g
<1>. QED
  BY <1>2, <1>4, <1>5, FlowRests

\* SETTINGS move the window with the initial window.
LEMMA SetInitialWindowMoves ==
  ASSUME NEW f \in Flows, NEW size \in Int
  PROVE  LET g == SetInitialWindow(f, size)
         IN  /\ g \in Flows /\ Alike(Content(g), Content(f))
             /\ Credit(g) - g.initialWindow = Credit(f) - f.initialWindow
             /\ g.received = f.received /\ g.ended = f.ended /\ g.initialWindow = size
             /\ Orderly(f, g, <<>>)
<1>. DEFINE d == size - f.initialWindow
            h == IncreaseWindow(f, d)
            g == SetInitialWindow(f, size)
<1>1. g = [h EXCEPT !.initialWindow = size] /\ d \in Int
  BY FlowNumbers DEF SetInitialWindow
<1>2. FlowMoves(f, h, <<>>, d)
  BY <1>1, IncreaseWindowMoves
<1>. HIDE DEF h, d, g
<1>3. h \in Flows
  BY <1>2 DEF FlowMoves
<1>4. /\ g \in Flows /\ g.window = h.window /\ g.buffer = h.buffer /\ g.queue = h.queue
      /\ g.received = h.received /\ g.ended = h.ended /\ g.initialWindow = size
  BY <1>1, <1>3 DEF Flows
<1>5. Content(g) = Content(h) /\ Credit(g) = Credit(h)
  BY <1>4 DEF Content, Credit
<1>6. Content(f) \o <<>> = Content(f)
  BY FlowTypes, JoinEmpty
<1>7. Alike(Content(g), Content(f))
  BY <1>2, <1>5, <1>6, Zenon DEF FlowMoves
<1>8. Credit(h) = Credit(f) + d /\ Credit(f) \in Int /\ f.initialWindow \in Int
  BY <1>2, FlowTypes DEF FlowMoves
<1>9. Credit(g) - g.initialWindow = Credit(f) - f.initialWindow
  BY <1>4, <1>5, <1>8 DEF d
<1>10. Orderly(f, g, <<>>)
  BY <1>2, <1>4, <1>5 DEF FlowMoves, Orderly
<1>. QED
  BY <1>2, <1>4, <1>7, <1>9, <1>10 DEF FlowMoves, g

\* What was received is given back once.
LEMMA RestoreWindowMoves ==
  ASSUME NEW f \in Flows
  PROVE  LET g == RestoreWindow(f)
         IN  /\ g \in Flows /\ Credit(g) = Credit(f) /\ g.ended = f.ended
             /\ g.initialWindow = f.initialWindow
             /\ \/ /\ Alike(Content(g), Content(f)) /\ g.received = f.received
                   /\ Orderly(f, g, <<>>)
                \/ /\ Alike(Content(g), Content(f) \o <<WindowUpdate(f.received)>>)
                   /\ WindowUpdate(f.received) \in Frames
                   /\ g.received = 0 /\ f.received # 0
                   /\ Orderly(f, g, <<WindowUpdate(f.received)>>)
<1>. DEFINE h == [f EXCEPT !.timer = FALSE]
            x == WindowUpdate(f.received)
            p == Push(h, x)
            g == RestoreWindow(f)
<1>1. SameFlow(f, h) /\ h \in Flows
  BY DEF SameFlow, Flows
<1>2. Content(h) = Content(f) /\ Credit(h) = Credit(f)
  BY <1>1 DEF SameFlow, Content, Credit
<1>. HIDE DEF h, x, p
<1>3. CASE f.ended \/ f.received = 0
  <2>1. g = h
    BY <1>3 DEF RestoreWindow, h
  <2>. HIDE DEF g
  <2>2. Alike(Content(g), Content(f))
    BY <1>2, <2>1, FlowTypes, AlikeSelf
  <2>3. Orderly(f, g, <<>>)
    BY <1>1, <2>1, OrderlySame DEF SameFlow
  <2>. QED
    BY <1>1, <1>2, <2>1, <2>2, <2>3 DEF SameFlow, g
<1>4. CASE ~(f.ended \/ f.received = 0)
  <2>1. g = [p EXCEPT !.received = 0]
    BY <1>4 DEF RestoreWindow, h, x, p
  <2>2. x \in Frames
    BY FlowNumbers, UpdateFrame DEF x
  <2>3. FlowMoves(h, p, <<x>>, 0)
    BY <1>1, <2>2, PushMoves DEF p
  <2>. HIDE DEF g
  <2>4. p \in Flows /\ Credit(p) = Credit(h) + 0 /\ Alike(Content(p), Content(h) \o <<x>>)
    BY <2>3 DEF FlowMoves
  <2>5. /\ g \in Flows /\ g.window = p.window /\ g.buffer = p.buffer /\ g.queue = p.queue
        /\ g.received = 0 /\ g.ended = p.ended /\ g.initialWindow = p.initialWindow
    BY <2>1, <2>4 DEF Flows
  <2>6. Content(g) = Content(p) /\ Credit(g) = Credit(p)
    BY <2>5 DEF Content, Credit
  <2>7. Credit(g) = Credit(f)
    BY <1>1, <1>2, <2>4, <2>6, FlowNumbers
  <2>8. Alike(Content(g), Content(f) \o <<x>>)
    BY <1>2, <2>4, <2>6, Zenon
  <2>9. Orderly(f, g, <<x>>)
    BY <1>1, <1>2, <2>3, <2>5, <2>6 DEF FlowMoves, SameFlow, Orderly
  <2>. QED
    BY <1>1, <1>4, <2>2, <2>3, <2>5, <2>7, <2>8, <2>9 DEF FlowMoves, SameFlow, g, x
<1>. QED
  BY <1>3, <1>4

-----------------------------------------------------------------------------
(* The mark of the end.                                                    *)

\* A list with the mark says what it said, and that the stream ends.
Marked(L, M) ==
  /\ L \in Seq(Frames) /\ M \in Seq(Frames)
  /\ Bytes(L) = Bytes(M) /\ Increments(L) = Increments(M)
  /\ \A S \in {Resets, Opening} : Some(L, S) <=> Some(M, S)
  /\ Some(M, Ended)
  /\ Late(L) <=> Late(M)
  /\ Early(M) => Early(L) \/ ~Some(M, Opening)
  /\ SameTalk(L, M)

\* A mark on the last frame of a list is one in the concatenation that ends with it.
LEMMA MarkedJoin ==
  ASSUME NEW L, NEW M, Marked(L, M), NEW P \in Seq(Frames)
  PROVE  Marked(P \o L, P \o M)
<1>1. /\ L \in Seq(Frames) /\ M \in Seq(Frames) /\ Bytes(L) = Bytes(M)
      /\ Increments(L) = Increments(M)
  BY DEF Marked
<1>2. P \o L \in Seq(Frames) /\ P \o M \in Seq(Frames)
  BY <1>1, JoinList
<1>3. Bytes(P \o L) = Bytes(P \o M)
  <2>1. Bytes(P \o L) = Bytes(P) \o Bytes(L) /\ Bytes(P \o M) = Bytes(P) \o Bytes(M)
    BY <1>1, BytesJoin
  <2>. QED
    BY <1>1, <2>1, Zenon
<1>4. Increments(P \o L) = Increments(P \o M)
  <2>1. /\ Increments(P \o L) = Increments(P) + Increments(L)
        /\ Increments(P \o M) = Increments(P) + Increments(M)
    BY <1>1, IncrementsJoin
  <2>. QED
    BY <1>1, <2>1, Zenon
<1>5. ASSUME NEW S \in {Resets, Opening} PROVE Some(P \o L, S) <=> Some(P \o M, S)
  BY <1>1, SomeJoin DEF Marked
<1>6. Late(P \o L) <=> Late(P \o M)
  BY <1>1, LateJoin DEF Marked
<1>7. Early(P \o M) => Early(P \o L) \/ ~Some(P \o M, Opening)
  BY <1>1, EarlyJoin, SomeJoin DEF Marked
<1>8. Some(P \o M, Ended)
  BY <1>1, SomeJoin DEF Marked
<1>9. SameTalk(P \o L, P \o M)
  <2>1. SameTalk(P, P)
    BY DEF SameTalk
  <2>2. SameTalk(L, M) /\ (Some(L, Opening) <=> Some(M, Opening))
    BY DEF Marked
  <2>. QED
    BY <1>1, <2>1, <2>2, TalkJoin
<1>. QED
  BY <1>2, <1>3, <1>4, <1>5, <1>6, <1>7, <1>8, <1>9, Zenon DEF Marked

\* The last frame of a list.
LEMMA MarkTheLast ==
  ASSUME NEW L \in Seq(Frames), L # <<>>, L[Len(L)].type \in {"DATA", "HEADERS"}
  PROVE  LET M == [L EXCEPT ![Len(L)].end = TRUE]
         IN  Marked(L, M) /\ (Leads(L) => Leads(M))
<1>1. PICK K \in Seq(Frames), x \in Frames : L = Append(K, x)
  BY SequenceEmptyOrAppend
<1>. DEFINE y == [x EXCEPT !.end = TRUE]
            M == [L EXCEPT ![Len(L)].end = TRUE]
            n == Len(L)
<1>3. n \in Nat /\ n = Len(K) + 1 /\ L[n] = x /\ n \in 1 .. n /\ \A i \in 1 .. Len(K) : L[i] = K[i]
  BY <1>1, AppendProperties, LenProperties
<1>2. /\ y \in Frames /\ y.data = x.data /\ y.inc = x.inc /\ y \in Ended
      /\ \A S \in {Resets, Opening} : y \in S <=> x \in S
      /\ y \in Talk <=> x \in Talk
  <2>1. y \in Frames /\ y.data = x.data /\ y.inc = x.inc /\ y.type = x.type /\ y.end
    BY <1>3 DEF Frames
  <2>. HIDE DEF y
  <2>. QED
    BY <2>1 DEF Resets, Opening, Ended, Talk
<1>4. M = Append(K, y)
  <2>1. M = [L EXCEPT ![n] = y]
    BY <1>3
  <2>. HIDE DEF M, y, n
  <2>2. /\ M \in Seq(Frames) /\ Len(M) = n
        /\ \A i \in 1 .. n : M[i] = IF i = n THEN y ELSE L[i]
    BY <1>2, <1>3, <2>1, ExceptSeq DEF n
  <2>. DEFINE A == Append(K, y)
  <2>3. /\ A \in Seq(Frames) /\ Len(A) = Len(K) + 1
        /\ \A i \in 1 .. Len(K) : A[i] = K[i]
        /\ A[Len(K) + 1] = y
    BY <1>2, AppendProperties
  <2>. HIDE DEF A
  <2>4. Len(A) = n /\ Len(K) \in Nat
    BY <1>3, <2>3, LenProperties
  <2>5. ASSUME NEW i \in 1 .. n PROVE M[i] = A[i]
    <3>1. CASE i = n
      BY <1>3, <2>2, <2>3, <3>1
    <3>2. CASE i # n
      <4>1. i \in 1 .. Len(K)
        BY <1>3, <2>4, <3>2
      <4>. QED
        BY <1>3, <2>2, <2>3, <3>2, <4>1
    <3>. QED
      BY <3>1, <3>2
  <2>. QED
    BY <2>2, <2>3, <2>4, <2>5, SeqEqual DEF A
<1>5. L = K \o <<x>> /\ M = K \o <<y>>
  BY <1>1, <1>2, <1>4, AppendJoin
<1>. HIDE DEF M, y, n
<1>6. Marked(<<x>>, <<y>>)
  <2>1. /\ <<x>> \in Seq(Frames) /\ <<y>> \in Seq(Frames)
        /\ Bytes(<<x>>) = x.data /\ Bytes(<<y>>) = y.data
        /\ Increments(<<x>>) = x.inc /\ Increments(<<y>>) = y.inc
        /\ \A S : (Some(<<x>>, S) <=> x \in S) /\ (Some(<<y>>, S) <=> y \in S)
        /\ ~Late(<<x>>) /\ ~Late(<<y>>)
        /\ Early(<<y>>) => y \notin Opening
        /\ \A S, T : ~After(<<x>>, S, T) /\ ~After(<<y>>, S, T)
    BY <1>2, OneFrame
  <2>2. SameTalk(<<x>>, <<y>>)
    BY <1>2, <2>1, Zenon DEF SameTalk, Again, Twice
  <2>. QED
    BY <1>2, <2>1, <2>2, Zenon DEF Marked
<1>7. Marked(K \o <<x>>, K \o <<y>>)
  BY <1>6, MarkedJoin
<1>8. ASSUME Leads(L) PROVE Leads(M)
  <2>1. <<x>> \in Seq(Frames) /\ <<y>> \in Seq(Frames)
    BY <1>2, OneFrame
  <2>2. CASE K = <<>>
    <3>1. L = <<x>> /\ M = <<y>>
      BY <1>5, <2>1, <2>2, LeadsOn
    <3>. QED
      BY <1>2, <1>8, <3>1, LeadsOne, Zenon
  <2>3. CASE K # <<>>
    <3>1. Leads(K)
      BY <1>5, <1>8, <2>1, <2>3, LeadsOn
    <3>. QED
      BY <1>5, <2>1, <3>1, LeadsOn
  <2>. QED
    BY <2>2, <2>3
<1>. QED
  BY <1>5, <1>7, <1>8, Zenon DEF M

\* The mark of the end goes to the last frame that waits, and to nothing else.
LEMMA MarkLastMoves ==
  ASSUME NEW f \in Flows, LastQueued(f) # <<>>,
         Last(LastQueued(f)).type \in {"DATA", "HEADERS"}
  PROVE  LET g == MarkLast(f)
         IN  /\ g \in Flows /\ Marked(Content(f), Content(g)) /\ Credit(g) = Credit(f)
             /\ g.received = f.received /\ g.ended = f.ended
             /\ g.initialWindow = f.initialWindow
             /\ Orderly(f, g, <<>>)
<1>. DEFINE g == MarkLast(f)
            Q == [f.queue EXCEPT ![Len(f.queue)].end = TRUE]
            B == [f.buffer EXCEPT ![Len(f.buffer)].end = TRUE]
<1>0. f.buffer \in Seq(Frames) /\ f.queue \in Seq(Frames)
  BY FlowTypes
<1>1. CASE f.queue # <<>>
  <2>1. g = [f EXCEPT !.queue = Q]
    BY <1>1 DEF MarkLast
  <2>2. Marked(f.queue, Q)
    <3>. DEFINE b == f.buffer
                q == f.queue
                a == b \o q
    <3>0. b \in Seq(Frames) /\ q \in Seq(Frames) /\ q # <<>>
      BY <1>0, <1>1
    <3>. HIDE DEF b, q
    <3>2. /\ Len(b) \in Nat /\ Len(q) \in Nat /\ Len(a) = Len(b) + Len(q)
          /\ \A i \in 1 .. Len(q) : a[Len(b) + i] = q[i]
      BY <3>0, JoinIndices
    <3>3. Len(q) \in 1 .. Len(q)
      BY <3>0, <3>2, EmptySeq
    <3>4. a[Len(a)] = q[Len(q)]
      BY <3>2, <3>3, Zenon
    <3>1. Last(LastQueued(f)) = f.queue[Len(f.queue)]
      BY <3>4 DEF LastQueued, Last, b, q
    <3>. QED
      BY <1>0, <1>1, <3>1, MarkTheLast
  <2>. HIDE DEF Q, g
  <2>3. Q \in Seq(Frames)
    BY <2>2 DEF Marked
  <2>4. /\ g \in Flows /\ g.queue = Q /\ g.buffer = f.buffer /\ g.window = f.window
        /\ g.received = f.received /\ g.ended = f.ended /\ g.initialWindow = f.initialWindow
    BY <2>1, <2>3 DEF Flows
  <2>5. Marked(f.buffer \o f.queue, f.buffer \o Q)
    BY <1>0, <2>2, MarkedJoin
  <2>6. Marked(Content(f), Content(g)) /\ Credit(g) = Credit(f)
    BY <2>4, <2>5, Zenon DEF Content, Credit
  <2>7. Content(f) # <<>>
    BY <1>0, <1>1, LeadsOn DEF Content
  <2>8. Orderly(f, g, <<>>)
    BY <2>4, <2>7, Zenon DEF Orderly
  <2>. QED
    BY <2>4, <2>6, <2>8 DEF g
<1>2. CASE f.queue = <<>>
  <2>1. g = [f EXCEPT !.buffer = B]
    BY <1>2 DEF MarkLast
  <2>2. Content(f) = f.buffer /\ f.buffer # <<>>
    BY <1>0, <1>2, JoinEmpty DEF Content, LastQueued
  <2>3. Marked(f.buffer, B) /\ (Leads(f.buffer) => Leads(B))
    <3>1. LastQueued(f) = f.buffer
      BY <2>2 DEF Content, LastQueued
    <3>2. f.buffer[Len(f.buffer)].type \in {"DATA", "HEADERS"}
      BY <3>1 DEF Last
    <3>. QED
      BY <1>0, <2>2, <3>2, MarkTheLast
  <2>. HIDE DEF B, g
  <2>4. B \in Seq(Frames) /\ Bytes(B) = Bytes(f.buffer)
    BY <2>3 DEF Marked
  <2>5. /\ g \in Flows /\ g.queue = <<>> /\ g.buffer = B /\ g.window = f.window
        /\ g.received = f.received /\ g.ended = f.ended /\ g.initialWindow = f.initialWindow
    BY <1>2, <2>1, <2>4 DEF Flows
  <2>6. Content(g) = B
    BY <2>4, <2>5, JoinEmpty DEF Content
  <2>7. Marked(Content(f), Content(g))
    BY <2>2, <2>3, <2>6, Zenon
  <2>8. Credit(g) = Credit(f)
    BY <2>4, <2>5, Zenon DEF Credit
  <2>9. Orderly(f, g, <<>>)
    BY <2>2, <2>3, <2>5, Zenon DEF Orderly
  <2>. QED
    BY <2>5, <2>7, <2>8, <2>9 DEF g
<1>. QED
  BY <1>1, <1>2

\* A new flow holds nothing, and its window is the initial one.
LEMMA NewFlowHolds ==
  /\ NewFlow \in Flows /\ Content(NewFlow) = <<>> /\ NewFlow.received = 0 /\ ~NewFlow.ended
  /\ Credit(NewFlow) = NewFlow.initialWindow
<1>1. INITIAL_WINDOW_SIZE \in Int /\ <<>> \in Seq(Frames)
  BY FlowAssumption, EmptyList
<1>2. NewFlow \in Flows
  BY <1>1 DEF NewFlow, Flows
<1>3. /\ NewFlow.received = 0 /\ NewFlow.ended = FALSE /\ NewFlow.buffer = <<>> /\ NewFlow.queue = <<>>
      /\ NewFlow.window = INITIAL_WINDOW_SIZE /\ NewFlow.initialWindow = INITIAL_WINDOW_SIZE
  BY DEF NewFlow
<1>4. Content(NewFlow) = <<>>
  BY <1>1, <1>3, JoinEmpty DEF Content
<1>5. Len(Bytes(<<>>)) = 0
  BY EmptyList, EmptySeq
<1>6. Credit(NewFlow) = NewFlow.initialWindow
  BY <1>1, <1>3, <1>5 DEF Credit
<1>. QED
  BY <1>2, <1>3, <1>4, <1>6

-----------------------------------------------------------------------------
(* A stream.                                                               *)

StateNames == {"IDLE", "OPEN", "HALF_CLOSED_LOCAL", "HALF_CLOSED_REMOTE", "CLOSED"}

ErrorNames == {"STREAM_CLOSED", "PROTOCOL_ERROR", "FLOW_CONTROL_ERROR"}

\* The bytes of the one DATA frame that is being received.
Pending == {<<>>} \cup {<<d>> : d \in Seq(Octet)}

Streams ==
  {s \in [state : StateNames, initiated : {"unknown", "us", "peer"}, closedByUs : BOOLEAN, closedWithRst : BOOLEAN,
          resetSent : BOOLEAN, processedHeaders : BOOLEAN, ended : BOOLEAN, upstream : Flows,
          input : Seq(Frames), busy : Pending, user : Seq(Octet), writing : BOOLEAN,
          errors : SUBSET ErrorNames, thrown : BOOLEAN] :
     s.busy = <<>> => s.input = <<>>}

\* What a stream may still send and has been given back, less its first window;
\* and what it holds of the window of its peer.
Given(s) == Credit(s.upstream) + Increments(s.input) - s.upstream.initialWindow
Held(s) ==
  Len(Bytes(s.input)) + Len(FlattenSeq(s.busy)) + s.upstream.received
  + Increments(Content(s.upstream))

\* Bytes neither follow the end in what comes in, nor come after it.
Sound(s, X) == ~Late(s.input \o X) /\ (s.ended => Bytes(s.input \o X) = <<>>)

\* The stream hears X: it takes in a part C of what waits and of X, in order.
HeardPart(s, t, X, C) ==
  /\ s.input \o X = C \o t.input
  /\ t.ended <=> s.ended \/ Some(C, Ending)
  /\ Sound(s, X) => t.user = s.user \o Bytes(C)

Heard(s, t, X) == \E C \in Seq(Frames) : HeardPart(s, t, X, C)

\* The stream hears X and says Y.
Turns(s, t, X, Y) ==
  /\ s \in Streams /\ t \in Streams /\ X \in Seq(Frames) /\ Y \in Seq(Frames)
  /\ Heard(s, t, X)
  /\ Alike(Content(t.upstream), Content(s.upstream) \o Y)
  /\ Given(t) = Given(s) + Increments(X)
  /\ Held(t) = Held(s) + Len(Bytes(X))
  /\ Orderly(s.upstream, t.upstream, Y)

\* What comes in fits into the window of the stream.
Within(s, X) ==
  Given(s) + Increments(X) <= 0 /\ s.upstream.initialWindow <= WINDOW_SIZE_LIMIT

\* The stream takes X in without complaint, if it fits.
Calm(s, t, X) ==
  /\ t.processedHeaders = s.processedHeaders
  /\ t.upstream.initialWindow = s.upstream.initialWindow
  /\ Within(s, X) => t.errors = s.errors

\* The state machine stays where it is.
SameState(s, t) ==
  /\ t.state = s.state /\ t.closedByUs = s.closedByUs /\ t.closedWithRst = s.closedWithRst
  /\ t.resetSent = s.resetSent /\ t.thrown = s.thrown

\* What a stream consists of.
LEMMA StreamTypes ==
  ASSUME NEW s \in Streams
  PROVE  /\ s.upstream \in Flows /\ s.input \in Seq(Frames) /\ s.user \in Seq(Octet)
         /\ s.busy \in Pending /\ (s.busy = <<>> => s.input = <<>>)
         /\ s.ended \in BOOLEAN /\ s.resetSent \in BOOLEAN /\ s.closedWithRst \in BOOLEAN
         /\ s.closedByUs \in BOOLEAN /\ s.state \in StateNames
         /\ Content(s.upstream) \in Seq(Frames)
<1>1. /\ s.upstream \in Flows /\ s.input \in Seq(Frames) /\ s.user \in Seq(Octet)
      /\ s.busy \in Pending /\ (s.busy = <<>> => s.input = <<>>)
      /\ s.ended \in BOOLEAN /\ s.resetSent \in BOOLEAN /\ s.closedWithRst \in BOOLEAN
      /\ s.closedByUs \in BOOLEAN /\ s.state \in StateNames
  BY DEF Streams
<1>. QED
  BY <1>1, FlowTypes

\* The bytes of the frame that is being received.
LEMMA PendingBytes ==
  /\ \A d \in Seq(Octet) : FlattenSeq(<<d>>) = d
  /\ FlattenSeq(<<>>) = <<>>
  /\ \A b \in Pending : FlattenSeq(b) \in Seq(Octet) /\ Len(FlattenSeq(b)) \in Nat
<1>1. ASSUME NEW d \in Seq(Octet) PROVE FlattenSeq(<<d>>) = d
  <2>. DEFINE D == <<d>>
              V == Seq(Octet)
  <2>1. D \in Seq(V) /\ Len(D) = 1 /\ D[1] = d
    <3>. HIDE DEF V
    <3>1. d \in V
      BY DEF V
    <3>. QED
      BY <3>1
  <2>. HIDE DEF D
  <2>2. PICK h \in [0 .. Len(D) -> Seq(Octet)] :
              /\ h[0] = <<>> /\ \A k \in 1 .. Len(D) : h[k] = h[k - 1] \o D[k]
              /\ FlattenSeq(D) = h[Len(D)]
    BY <2>1, FlattenRuns
  <2>3. 1 \in 1 .. Len(D) /\ 1 - 1 = 0
    BY <2>1
  <2>4. h[1] = h[1 - 1] \o D[1]
    BY <2>2, <2>3, Zenon
  <2>5. h[1] = <<>> \o d
    BY <2>1, <2>2, <2>3, <2>4, Zenon
  <2>6. <<>> \o d = d
    BY ConcatEmptySeq
  <2>. QED
    BY <2>1, <2>2, <2>5, <2>6, Zenon DEF D
<1>2. FlattenSeq(<<>>) = <<>>
  <2>. DEFINE D == <<>>
              V == Seq(Octet)
  <2>1. D \in Seq(V) /\ Len(D) = 0
    BY EmptySeq
  <2>. HIDE DEF D
  <2>2. PICK h \in [0 .. Len(D) -> Seq(Octet)] :
              /\ h[0] = <<>> /\ \A k \in 1 .. Len(D) : h[k] = h[k - 1] \o D[k]
              /\ FlattenSeq(D) = h[Len(D)]
    BY <2>1, FlattenRuns
  <2>. QED
    BY <2>1, <2>2, Zenon DEF D
<1>3. ASSUME NEW b \in Pending PROVE FlattenSeq(b) \in Seq(Octet)
  BY <1>1, <1>2, NoOctets DEF Pending
<1>4. ASSUME NEW b \in Pending PROVE Len(FlattenSeq(b)) \in Nat
  BY <1>3, LenProperties
<1>. QED
  BY <1>1, <1>2, <1>3, <1>4

\* The accounts of a stream are numbers.
LEMMA StreamNumbers ==
  ASSUME NEW s \in Streams
  PROVE  Given(s) \in Int /\ Held(s) \in Int
<1>1. /\ s.upstream \in Flows /\ s.input \in Seq(Frames) /\ s.busy \in Pending
      /\ Content(s.upstream) \in Seq(Frames)
  BY StreamTypes
<1>2. Credit(s.upstream) \in Int /\ s.upstream.initialWindow \in Int /\ s.upstream.received \in Int
  BY <1>1, FlowNumbers
<1>3. Increments(s.input) \in Int /\ Increments(Content(s.upstream)) \in Int
  BY <1>1, IncrementsType
<1>4. Len(Bytes(s.input)) \in Int /\ Len(FlattenSeq(s.busy)) \in Int
  BY <1>1, BytesType, LenProperties, PendingBytes
<1>. QED
  BY <1>2, <1>3, <1>4 DEF Given, Held

-----------------------------------------------------------------------------
(* One turn after another.                                                 *)

\* A concatenation without bytes is one of lists without bytes.
LEMMA BytesEmptyJoin ==
  ASSUME NEW L \in Seq(Frames), NEW M \in Seq(Frames)
  PROVE  Bytes(L \o M) = <<>> <=> Bytes(L) = <<>> /\ Bytes(M) = <<>>
<1>1. Bytes(L \o M) = Bytes(L) \o Bytes(M)
  BY BytesJoin
<1>2. Bytes(L) \in Seq(Octet) /\ Bytes(M) \in Seq(Octet)
  BY BytesType
<1>3. Bytes(L) \o Bytes(M) = <<>> <=> Bytes(L) = <<>> /\ Bytes(M) = <<>>
  BY <1>2, ConcatEqualIffEmpty
<1>. QED
  BY <1>1, <1>3, Zenon

\* The two ways to join three lists.
Regroups(L, M, N) == L \o (M \o N) = (L \o M) \o N

\* Lists of frames may be regrouped.
LEMMA ListsRegroup ==
  ASSUME NEW L \in Seq(Frames), NEW M \in Seq(Frames), NEW N \in Seq(Frames)
  PROVE  Regroups(L, M, N)
BY JoinAssociative, Zenon DEF Regroups

\* Hearing X and then Z is hearing both.
LEMMA HeardGoesOn ==
  ASSUME NEW s \in Streams, NEW t \in Streams, NEW u \in Streams,
         NEW X \in Seq(Frames), NEW Z \in Seq(Frames), Heard(s, t, X), Heard(t, u, Z)
  PROVE  Heard(s, u, X \o Z)
<1>1. PICK C \in Seq(Frames) : HeardPart(s, t, X, C)
  BY DEF Heard
<1>2. PICK D \in Seq(Frames) : HeardPart(t, u, Z, D)
  BY DEF Heard
<1>. DEFINE I == s.input
            J == t.input
            K == u.input
<1>3. I \in Seq(Frames) /\ J \in Seq(Frames) /\ K \in Seq(Frames) /\ s.user \in Seq(Octet)
  BY StreamTypes
<1>12. I \o X = C \o J /\ J \o Z = D \o K
  BY <1>1, <1>2, Zenon DEF HeardPart
<1>. HIDE DEF I, J, K
<1>4. /\ I \o X \in Seq(Frames) /\ J \o Z \in Seq(Frames) /\ D \o K \in Seq(Frames)
      /\ C \o D \in Seq(Frames)
  BY <1>3, JoinList
<1>5. I \o (X \o Z) = (I \o X) \o Z /\ I \o (X \o Z) = C \o (J \o Z)
      /\ I \o (X \o Z) = (C \o D) \o K
  <2>1. Regroups(I, X, Z) /\ Regroups(C, J, Z) /\ Regroups(C, D, K)
    BY <1>3, ListsRegroup
  <2>. QED
    BY <1>12, <2>1, Zenon DEF Regroups
<1>9. u.ended <=> s.ended \/ Some(C \o D, Ending)
  <2>1. Some(C \o D, Ending) <=> Some(C, Ending) \/ Some(D, Ending)
    BY SomeJoin
  <2>2. t.ended <=> s.ended \/ Some(C, Ending)
    BY <1>1, Zenon DEF HeardPart
  <2>3. u.ended <=> t.ended \/ Some(D, Ending)
    BY <1>2, Zenon DEF HeardPart
  <2>. QED
    BY <2>1, <2>2, <2>3
<1>10. ASSUME Sound(s, X \o Z)
       PROVE  u.user = s.user \o Bytes(C \o D)
  <2>1. ~Late(I \o (X \o Z)) /\ (s.ended => Bytes(I \o (X \o Z)) = <<>>)
    BY <1>10 DEF Sound, I
  <2>2. Sound(s, X)
    <3>1. ~Late((I \o X) \o Z) /\ (s.ended => Bytes((I \o X) \o Z) = <<>>)
      BY <1>5, <2>1, Zenon
    <3>2. Late(I \o X) => Late((I \o X) \o Z)
      BY <1>4, LateJoin
    <3>3. Bytes((I \o X) \o Z) = <<>> => Bytes(I \o X) = <<>>
      BY <1>4, BytesEmptyJoin
    <3>. QED
      BY <3>1, <3>2, <3>3 DEF Sound, I
  <2>3. Sound(t, Z)
    <3>1. ~Late(C \o (J \o Z)) /\ (s.ended => Bytes(C \o (J \o Z)) = <<>>)
      BY <1>5, <2>1, Zenon
    <3>2. ~Late(J \o Z) /\ (Some(C, Ending) => Bytes(J \o Z) = <<>>)
      BY <1>4, <3>1, LateJoin
    <3>3. Bytes(C \o (J \o Z)) = <<>> => Bytes(J \o Z) = <<>>
      BY <1>4, BytesEmptyJoin
    <3>4. t.ended <=> s.ended \/ Some(C, Ending)
      BY <1>1 DEF HeardPart
    <3>. QED
      BY <3>1, <3>2, <3>3, <3>4 DEF Sound, J
  <2>4. t.user = s.user \o Bytes(C) /\ u.user = t.user \o Bytes(D)
    BY <1>1, <1>2, <2>2, <2>3 DEF HeardPart
  <2>5. Bytes(C) \in Seq(Octet) /\ Bytes(D) \in Seq(Octet)
    BY BytesType
  <2>6. (s.user \o Bytes(C)) \o Bytes(D) = s.user \o (Bytes(C) \o Bytes(D))
    BY <1>3, <2>5, DataAssociative
  <2>7. Bytes(C \o D) = Bytes(C) \o Bytes(D)
    BY BytesJoin
  <2>. QED
    BY <2>4, <2>6, <2>7, Zenon
<1>11. HeardPart(s, u, X \o Z, C \o D)
  BY <1>5, <1>9, <1>10, Zenon DEF HeardPart, I, K
<1>. QED
  BY <1>4, <1>11 DEF Heard

\* One turn after another.
LEMMA TurnsGoOn ==
  ASSUME NEW s, NEW t, NEW u, NEW X, NEW Y, NEW Z, NEW W,
         Turns(s, t, X, Y), Turns(t, u, Z, W)
  PROVE  Turns(s, u, X \o Z, Y \o W)
<1>1. /\ s \in Streams /\ t \in Streams /\ u \in Streams
      /\ X \in Seq(Frames) /\ Y \in Seq(Frames) /\ Z \in Seq(Frames) /\ W \in Seq(Frames)
      /\ Heard(s, t, X) /\ Heard(t, u, Z)
      /\ Alike(Content(t.upstream), Content(s.upstream) \o Y)
      /\ Alike(Content(u.upstream), Content(t.upstream) \o W)
      /\ Given(t) = Given(s) + Increments(X) /\ Given(u) = Given(t) + Increments(Z)
      /\ Held(t) = Held(s) + Len(Bytes(X)) /\ Held(u) = Held(t) + Len(Bytes(Z))
      /\ Orderly(s.upstream, t.upstream, Y) /\ Orderly(t.upstream, u.upstream, W)
  BY DEF Turns
<1>2. X \o Z \in Seq(Frames) /\ Y \o W \in Seq(Frames)
  BY <1>1, JoinList
<1>3. Heard(s, u, X \o Z)
  BY <1>1, HeardGoesOn
<1>4. Alike(Content(u.upstream), Content(s.upstream) \o (Y \o W))
  <2>1. Content(s.upstream) \in Seq(Frames)
    BY <1>1, StreamTypes
  <2>2. Alike(W, W)
    BY <1>1, AlikeSelf
  <2>3. Alike(Content(t.upstream) \o W, (Content(s.upstream) \o Y) \o W)
    BY <1>1, <2>2, AlikeJoin
  <2>4. (Content(s.upstream) \o Y) \o W = Content(s.upstream) \o (Y \o W)
    BY <1>1, <2>1, JoinAssociative, ZenonT(60)
  <2>. QED
    BY <1>1, <2>3, <2>4, AlikeChain, Zenon
<1>5. Given(u) = Given(s) + Increments(X \o Z)
  <2>1. Increments(X \o Z) = Increments(X) + Increments(Z)
    BY <1>1, IncrementsJoin
  <2>2. Given(s) \in Int /\ Increments(X) \in Int /\ Increments(Z) \in Int
    BY <1>1, StreamNumbers, IncrementsType
  <2>3. Given(t) = Given(s) + Increments(X) /\ Given(u) = Given(t) + Increments(Z)
    BY <1>1
  <2>. QED
    BY <2>1, <2>2, <2>3
<1>6. Held(u) = Held(s) + Len(Bytes(X \o Z))
  <2>1. Bytes(X \o Z) = Bytes(X) \o Bytes(Z)
    BY <1>1, BytesJoin
  <2>2. Bytes(X) \in Seq(Octet) /\ Bytes(Z) \in Seq(Octet)
    BY <1>1, BytesType
  <2>3. Len(Bytes(X \o Z)) = Len(Bytes(X)) + Len(Bytes(Z))
    BY <2>1, <2>2, ConcatProperties
  <2>4. Held(s) \in Int /\ Len(Bytes(X)) \in Int /\ Len(Bytes(Z)) \in Int
    BY <1>1, <2>2, StreamNumbers, LenProperties
  <2>5. Held(t) = Held(s) + Len(Bytes(X)) /\ Held(u) = Held(t) + Len(Bytes(Z))
    BY <1>1
  <2>. QED
    BY <2>3, <2>4, <2>5
<1>7. Orderly(s.upstream, u.upstream, Y \o W)
  BY <1>1, OrderlyChain
<1>. QED
  BY <1>1, <1>2, <1>3, <1>4, <1>5, <1>6, <1>7 DEF Turns

\* A turn without hearing or saying before or after another.
LEMMA TurnsRest ==
  ASSUME NEW s, NEW t, NEW u, NEW X, NEW Y, Turns(s, t, X, Y), Turns(t, u, <<>>, <<>>)
  PROVE  Turns(s, u, X, Y)
<1>1. Turns(s, u, X \o <<>>, Y \o <<>>)
  BY TurnsGoOn
<1>2. X \o <<>> = X /\ Y \o <<>> = Y
  BY JoinEmpty DEF Turns
<1>. QED
  BY <1>1, <1>2, Zenon

\* A turn after one that neither hears nor says anything.
LEMMA TurnsStart ==
  ASSUME NEW s, NEW t, NEW u, NEW X, NEW Y, Turns(s, t, <<>>, <<>>), Turns(t, u, X, Y)
  PROVE  Turns(s, u, X, Y)
<1>1. Turns(s, u, <<>> \o X, <<>> \o Y)
  BY TurnsGoOn
<1>2. <<>> \o X = X /\ <<>> \o Y = Y
  BY JoinEmpty DEF Turns
<1>. QED
  BY <1>1, <1>2, Zenon

\* One calm turn after another.
LEMMA CalmGoesOn ==
  ASSUME NEW s, NEW t, NEW u, NEW X, NEW Y, NEW Z, NEW W,
         Turns(s, t, X, Y), Turns(t, u, Z, W), Calm(s, t, X), Calm(t, u, Z)
  PROVE  Calm(s, u, X \o Z)
<1>1. /\ s \in Streams /\ X \in Seq(Frames) /\ Z \in Seq(Frames)
      /\ Given(t) = Given(s) + Increments(X)
  BY DEF Turns
<1>2. Increments(X \o Z) = Increments(X) + Increments(Z)
  BY <1>1, IncrementsJoin
<1>3. Given(s) \in Int /\ Increments(X) \in Int /\ Increments(Z) \in Nat
  BY <1>1, StreamNumbers, IncrementsType, IncrementsNat
<1>4. ASSUME Within(s, X \o Z) PROVE Within(s, X) /\ Within(t, Z)
  <2>1. Given(s) + (Increments(X) + Increments(Z)) <= 0
    BY <1>2, <1>4 DEF Within
  <2>2. Given(s) + Increments(X) <= 0 /\ Given(t) + Increments(Z) <= 0
    BY <1>1, <1>3, <2>1
  <2>. QED
    BY <1>4, <2>2 DEF Within, Calm
<1>. QED
  BY <1>4 DEF Calm

\* A calm turn that takes nothing in before or after another.
LEMMA CalmRests ==
  ASSUME NEW s, NEW t, NEW u, NEW X, NEW Y, NEW W,
         Turns(s, t, X, Y), Turns(t, u, <<>>, W), Calm(s, t, X), Calm(t, u, <<>>)
  PROVE  Calm(s, u, X)
<1>1. Calm(s, u, X \o <<>>)
  BY CalmGoesOn
<1>2. X \o <<>> = X
  BY JoinEmpty DEF Turns
<1>. QED
  BY <1>1, <1>2, Zenon

\* A stream that hears nothing.
LEMMA HeardNothing ==
  ASSUME NEW s \in Streams, NEW t, t.input = s.input, t.user = s.user, t.ended = s.ended
  PROVE  Heard(s, t, <<>>)
<1>1. s.input \in Seq(Frames) /\ s.user \in Seq(Octet)
  BY StreamTypes
<1>2. s.input \o <<>> = <<>> \o t.input
  BY <1>1, JoinEmpty
<1>3. s.user \o Bytes(<<>>) = s.user
  <2>1. s.user \o <<>> = s.user
    BY <1>1, ConcatEmptySeq
  <2>. QED
    BY <2>1, EmptyList, Zenon
<1>4. HeardPart(s, t, <<>>, <<>>)
  BY <1>2, <1>3, EmptyList DEF HeardPart
<1>. QED
  BY <1>4, EmptyList DEF Heard

\* A turn of the upstream.
LEMMA TurnsUpstream ==
  ASSUME NEW s \in Streams, NEW t \in Streams, NEW Y,
         t.input = s.input, t.user = s.user, t.ended = s.ended, t.busy = s.busy,
         FlowMoves(s.upstream, t.upstream, Y, 0), Increments(Y) = 0
  PROVE  Turns(s, t, <<>>, Y)
<1>. DEFINE f == s.upstream
            g == t.upstream
<1>1. /\ Y \in Seq(Frames) /\ f \in Flows /\ g \in Flows /\ Alike(Content(g), Content(f) \o Y)
      /\ Credit(g) = Credit(f) + 0 /\ g.received = f.received
      /\ g.initialWindow = f.initialWindow /\ Orderly(f, g, Y)
  BY DEF FlowMoves
<1>2. Content(f) \in Seq(Frames) /\ Credit(f) \in Int
  BY <1>1, FlowTypes
<1>3. Increments(Content(g)) = Increments(Content(f))
  <2>1. Increments(Content(g)) = Increments(Content(f) \o Y)
    BY <1>1 DEF Alike
  <2>2. Increments(Content(f) \o Y) = Increments(Content(f)) + Increments(Y)
    BY <1>1, <1>2, IncrementsJoin
  <2>3. Increments(Content(f)) \in Int
    BY <1>2, IncrementsType
  <2>. QED
    BY <2>1, <2>2, <2>3
<1>4. Credit(g) = Credit(f)
  BY <1>1, <1>2
<1>5. Given(t) = Given(s)
  BY <1>1, <1>4 DEF Given
<1>6. Held(t) = Held(s)
  BY <1>1, <1>3 DEF Held
<1>7. Increments(<<>>) = 0 /\ Len(Bytes(<<>>)) = 0
  BY EmptyList, EmptySeq
<1>8. Given(s) \in Int /\ Held(s) \in Int
  BY StreamNumbers
<1>9. Given(t) = Given(s) + Increments(<<>>) /\ Held(t) = Held(s) + Len(Bytes(<<>>))
  BY <1>5, <1>6, <1>7, <1>8
<1>. QED
  BY <1>1, <1>9, HeardNothing, EmptyList DEF Turns

-----------------------------------------------------------------------------
(* What the operations of a stream hear and say.                           *)

\* The state machine and the user's bytes stay.
Still(s, t) ==
  /\ SameState(s, t) /\ t.user = s.user /\ t.ended = s.ended
  /\ t.processedHeaders = s.processedHeaders /\ t.errors = s.errors

\* A stream with another flow is a stream that stands still.
LEMMA StreamOfFlow ==
  ASSUME NEW s \in Streams, NEW f \in Flows
  PROVE  LET t == [s EXCEPT !.upstream = f]
         IN  /\ t \in Streams /\ t.upstream = f /\ Still(s, t)
             /\ t.input = s.input /\ t.busy = s.busy
BY DEF Streams, Still, SameState

\* _send and the end of a turn.
LEMMA SendTurns ==
  ASSUME NEW s \in Streams
  PROVE  Turns(s, Send(s), <<>>, <<>>) /\ Still(s, Send(s)) /\ Calm(s, Send(s), <<>>)
<1>. DEFINE f == s.upstream
            g == IF f.asked THEN [f EXCEPT !.asked = FALSE] ELSE f
            t == Send(s)
<1>1. f \in Flows
  BY StreamTypes
<1>2. SameFlow(f, g)
  BY <1>1 DEF SameFlow, Flows
<1>3. /\ t \in Streams /\ t.upstream = g /\ Still(s, t)
      /\ t.input = s.input /\ t.busy = s.busy
  <2>1. g \in Flows
    BY <1>2 DEF SameFlow
  <2>. QED
    BY <2>1, ZenonT(60) DEF Send, Streams, Still, SameState
<1>4. FlowMoves(f, g, <<>>, 0)
  BY <1>2, FlowStays
<1>. HIDE DEF t
<1>5. Turns(s, t, <<>>, <<>>)
  <2>1. FlowMoves(s.upstream, t.upstream, <<>>, 0)
    BY <1>3, <1>4
  <2>. QED
    BY <1>3, <2>1, TurnsUpstream, EmptyList DEF Still
<1>6. Calm(s, t, <<>>)
  BY <1>2, <1>3, Zenon DEF SameFlow, Still, Calm
<1>. QED
  BY <1>3, <1>5, <1>6 DEF t

\* The end of a turn neither hears nor says anything.
LEMMA EndTurnTurns ==
  ASSUME NEW s \in Streams
  PROVE  /\ Turns(s, EndTurn(s), <<>>, <<>>) /\ Still(s, EndTurn(s))
         /\ Calm(s, EndTurn(s), <<>>)
<1>. DEFINE g == EndOfTurn(s.upstream)
            t == [s EXCEPT !.upstream = g]
<1>1. FlowMoves(s.upstream, g, <<>>, 0) /\ g \in Flows
  BY StreamTypes, EndOfTurnMoves DEF FlowMoves
<1>. HIDE DEF g
<1>2. /\ t \in Streams /\ t.upstream = g /\ Still(s, t)
      /\ t.input = s.input /\ t.busy = s.busy
  BY <1>1, StreamOfFlow
<1>. HIDE DEF t
<1>3. Turns(s, t, <<>>, <<>>)
  BY <1>1, <1>2, TurnsUpstream, EmptyList DEF Still
<1>4. Turns(t, Send(t), <<>>, <<>>) /\ Still(t, Send(t)) /\ Calm(t, Send(t), <<>>)
  BY <1>2, SendTurns
<1>5. Turns(s, Send(t), <<>>, <<>>)
  BY <1>3, <1>4, TurnsRest
<1>6. Still(s, Send(t))
  BY <1>2, <1>4 DEF Still, SameState
<1>7. EndTurn(s) = Send(t)
  BY DEF EndTurn, t, g
<1>8. Calm(s, Send(t), <<>>)
  <2>1. t.upstream.initialWindow = s.upstream.initialWindow
    BY <1>1, <1>2 DEF FlowMoves
  <2>. QED
    BY <1>4, <1>6, <2>1 DEF Still, Calm
<1>. QED
  BY <1>5, <1>6, <1>7, <1>8

\* A stream that hears one frame.
LEMMA HeardOne ==
  ASSUME NEW s \in Streams, s.input = <<>>, NEW t, NEW x \in Frames,
         t.input = <<>>, t.ended <=> s.ended \/ x \in Ending,
         (s.ended => x.data = <<>>) => t.user = s.user \o x.data
  PROVE  Heard(s, t, <<x>>)
<1>1. /\ <<x>> \in Seq(Frames) /\ Bytes(<<x>>) = x.data
      /\ Some(<<x>>, Ending) <=> x \in Ending
  BY OneFrame
<1>2. <<>> \o <<x>> = <<x>> /\ <<x>> \o <<>> = <<x>>
  BY <1>1, JoinEmpty
<1>3. Sound(s, <<x>>) => (s.ended => x.data = <<>>)
  BY <1>1, <1>2, Zenon DEF Sound
<1>4. s.input \o <<x>> = <<x>> \o t.input
  BY <1>2, Zenon
<1>5. Sound(s, <<x>>) => t.user = s.user \o Bytes(<<x>>)
  <2>1. Sound(s, <<x>>) => t.user = s.user \o x.data
    BY <1>3
  <2>. QED
    BY <1>1, <2>1, Zenon
<1>6. HeardPart(s, t, <<x>>, <<x>>)
  BY <1>1, <1>4, <1>5 DEF HeardPart
<1>. QED
  BY <1>1, <1>6 DEF Heard

\* _receive of n bytes that the user has taken.
LEMMA ReceivedKeeps ==
  ASSUME NEW f \in Flows, NEW n \in Nat
  PROVE  LET r == Received(f, n)
         IN  /\ r \in Flows /\ r.queue = f.queue /\ r.buffer = f.buffer /\ r.window = f.window
             /\ r.initialWindow = f.initialWindow /\ r.received = f.received + n
<1>. DEFINE r == Received(f, n)
<1>1. f.received \in Nat /\ f.received + 0 = f.received
  BY FlowNumbers
<1>2. CASE n = 0
  BY <1>1, <1>2 DEF Received, Flows
<1>3. CASE n # 0
  <2>. DEFINE m == f.received + n
  <2>1. r = [f EXCEPT !.received = m, !.timer = TRUE]
    BY <1>3 DEF Received
  <2>2. m \in Nat
    BY <1>1
  <2>. HIDE DEF r, m
  <2>3. /\ r \in Flows /\ r.queue = f.queue /\ r.buffer = f.buffer /\ r.window = f.window
        /\ r.initialWindow = f.initialWindow /\ r.received = m
    BY <2>1, <2>2 DEF Flows
  <2>. QED
    BY <2>3 DEF m, r
<1>. QED
  BY <1>2, <1>3

\* The flow of a stream that receives n bytes, of which the user has taken all
\* or the stream keeps all.
LEMMA ReceivedFlow ==
  ASSUME NEW f \in Flows, NEW n \in Nat, NEW ends \in BOOLEAN
  PROVE  LET g == [Received(f, n) EXCEPT !.ended = @ \/ ends]
             h == [f EXCEPT !.ended = @ \/ ends]
         IN  /\ g \in Flows /\ Content(g) = Content(f) /\ Credit(g) = Credit(f)
             /\ g.initialWindow = f.initialWindow /\ g.received = f.received + n
             /\ h \in Flows /\ Content(h) = Content(f) /\ Credit(h) = Credit(f)
             /\ h.initialWindow = f.initialWindow /\ h.received = f.received
             /\ g.buffer = f.buffer /\ h.buffer = f.buffer
             /\ g.window = f.window /\ h.window = f.window
<1>. DEFINE r == Received(f, n)
            g == [r EXCEPT !.ended = @ \/ ends]
            h == [f EXCEPT !.ended = @ \/ ends]
<1>1. /\ r \in Flows /\ r.queue = f.queue /\ r.buffer = f.buffer /\ r.window = f.window
      /\ r.initialWindow = f.initialWindow /\ r.received = f.received + n
  BY ReceivedKeeps
<1>. HIDE DEF r
<1>2. /\ g \in Flows /\ g.queue = r.queue /\ g.buffer = r.buffer /\ g.window = r.window
      /\ g.initialWindow = r.initialWindow /\ g.received = r.received
  BY <1>1 DEF Flows
<1>3. /\ h \in Flows /\ h.queue = f.queue /\ h.buffer = f.buffer /\ h.window = f.window
      /\ h.initialWindow = f.initialWindow /\ h.received = f.received
  BY DEF Flows
<1>. HIDE DEF g, h
<1>4. Content(g) = Content(f) /\ Credit(g) = Credit(f)
  BY <1>1, <1>2 DEF Content, Credit
<1>5. Content(h) = Content(f) /\ Credit(h) = Credit(f)
  BY <1>3 DEF Content, Credit
<1>. QED
  BY <1>1, <1>2, <1>3, <1>4, <1>5 DEF g, h, r

\* _receive takes the whole frame in: its bytes, its end and its increment.
LEMMA ReceiveTurns ==
  ASSUME NEW s \in Streams, s.busy = <<>>, NEW x \in Frames
  PROVE  /\ Turns(s, Receive(s, x), <<x>>, <<>>) /\ SameState(s, Receive(s, x))
         /\ Calm(s, Receive(s, x), <<x>>)
<1>. DEFINE f == s.upstream
            ends == x.end \/ x.type = "RST_STREAM"
            user1 == IF x.type = "DATA" /\ ~s.ended THEN s.user \o x.data ELSE s.user
            full == x.type = "DATA" /\ ~s.ended /\ Len(user1) >= UserHighWaterMark
            n == Len(x.data)
            taken == IF full THEN f ELSE Received(f, n)
            flow == [taken EXCEPT !.ended = @ \/ ends]
            g == IF x.type = "WINDOW_UPDATE" THEN IncreaseWindow(flow, x.inc) ELSE flow
            busy1 == IF full THEN <<x.data>> ELSE <<>>
            errors1 == IF x.type = "WINDOW_UPDATE" /\ TooLarge(flow, x.inc)
                       THEN s.errors \cup {"FLOW_CONTROL_ERROR"} ELSE s.errors
            r == [s EXCEPT !.user = user1, !.ended = @ \/ ends, !.busy = busy1,
                           !.upstream = g, !.errors = errors1]
<1>1. /\ f \in Flows /\ s.input = <<>> /\ s.user \in Seq(Octet) /\ s.ended \in BOOLEAN
      /\ Content(f) \in Seq(Frames)
  BY StreamTypes
<1>2. /\ x.data \in Seq(Octet) /\ x.inc \in Int /\ x.end \in BOOLEAN /\ n \in Nat
      /\ x.type # "DATA" => x.data = <<>>
      /\ x.type # "WINDOW_UPDATE" => x.inc = 0
      /\ ends \in BOOLEAN /\ (ends <=> x \in Ending)
  <2>1. /\ x.data \in Seq(Octet) /\ x.inc \in Int /\ x.end \in BOOLEAN
        /\ x.type # "DATA" => x.data = <<>>
        /\ x.type # "WINDOW_UPDATE" => x.inc = 0
    BY DEF Frames
  <2>2. ends <=> x \in Ending
    BY DEF Ending, Ended, Resets
  <2>. QED
    BY <2>1, <2>2, LenProperties
<1>. HIDE DEF n, ends
<1>3. /\ busy1 \in Pending /\ FlattenSeq(busy1) \in Seq(Octet)
      /\ flow \in Flows /\ Content(flow) = Content(f) /\ Credit(flow) = Credit(f)
      /\ flow.initialWindow = f.initialWindow /\ flow.buffer = f.buffer
      /\ flow.received + Len(FlattenSeq(busy1)) = f.received + n
  <2>. DEFINE later == [f EXCEPT !.ended = @ \/ ends]
              now == [Received(f, n) EXCEPT !.ended = @ \/ ends]
  <2>1. f.received \in Nat
    BY <1>1, FlowNumbers
  <2>2. /\ now \in Flows /\ Content(now) = Content(f) /\ Credit(now) = Credit(f)
        /\ now.initialWindow = f.initialWindow /\ now.received = f.received + n
        /\ later \in Flows /\ Content(later) = Content(f) /\ Credit(later) = Credit(f)
        /\ later.initialWindow = f.initialWindow /\ later.received = f.received
        /\ now.buffer = f.buffer /\ later.buffer = f.buffer
    BY <1>1, <1>2, ReceivedFlow
  <2>3. flow = IF full THEN later ELSE now
    BY Zenon
  <2>. HIDE DEF later, now
  <2>4. CASE full
    <3>1. busy1 = <<x.data>> /\ flow = later
      BY <2>4, <2>3
    <3>. HIDE DEF flow, busy1, full
    <3>2. /\ flow \in Flows /\ Content(flow) = Content(f) /\ Credit(flow) = Credit(f)
          /\ flow.initialWindow = f.initialWindow /\ flow.received = f.received
          /\ flow.buffer = f.buffer
      BY <2>2, <3>1
    <3>3. busy1 \in Pending /\ FlattenSeq(busy1) = x.data
      BY <1>2, <3>1, PendingBytes DEF Pending
    <3>. QED
      BY <1>2, <2>1, <3>2, <3>3 DEF n
  <2>5. CASE ~full
    <3>1. busy1 = <<>> /\ flow = now
      BY <2>5, <2>3
    <3>. HIDE DEF flow, busy1, full
    <3>2. /\ flow \in Flows /\ Content(flow) = Content(f) /\ Credit(flow) = Credit(f)
          /\ flow.initialWindow = f.initialWindow /\ flow.received = f.received + n
          /\ flow.buffer = f.buffer
      BY <2>2, <3>1
    <3>3. busy1 \in Pending /\ FlattenSeq(busy1) = <<>> /\ Len(<<>>) = 0
      BY <3>1, PendingBytes DEF Pending
    <3>. QED
      BY <1>2, <2>1, <3>2, <3>3, NoOctets
  <2>. QED
    BY <2>4, <2>5
<1>4. user1 \in Seq(Octet)
  BY <1>1, <1>2, ConcatProperties
<1>5. (s.ended => x.data = <<>>) => user1 = s.user \o x.data
  <2>1. s.user \o <<>> = s.user
    BY <1>1, ConcatEmptySeq
  <2>. QED
    BY <1>1, <1>2, <2>1, Zenon
<1>. HIDE DEF flow, busy1
<1>6. FlowMoves(flow, g, <<>>, x.inc)
  <2>1. FlowMoves(flow, IncreaseWindow(flow, x.inc), <<>>, x.inc)
    BY <1>2, <1>3, IncreaseWindowMoves
  <2>2. FlowMoves(flow, flow, <<>>, 0)
    BY <1>3, FlowStays DEF SameFlow
  <2>. QED
    BY <1>2, <2>1, <2>2
<1>. HIDE DEF g, user1, full
<1>7. /\ g \in Flows /\ errors1 \in SUBSET ErrorNames
      /\ ~TooLarge(flow, x.inc) => errors1 = s.errors
  <2>1. s.errors \in SUBSET ErrorNames
    BY DEF Streams
  <2>2. g \in Flows
    BY <1>6 DEF FlowMoves
  <2>3. /\ errors1 = s.errors \/ errors1 = s.errors \cup {"FLOW_CONTROL_ERROR"}
        /\ ~TooLarge(flow, x.inc) => errors1 = s.errors
    BY Zenon
  <2>. HIDE DEF errors1
  <2>4. "FLOW_CONTROL_ERROR" \in ErrorNames
    BY DEF ErrorNames
  <2>. QED
    BY <2>1, <2>2, <2>3, <2>4
<1>. HIDE DEF errors1
<1>8. /\ r \in Streams /\ r.upstream = g /\ r.input = <<>> /\ r.busy = busy1
      /\ r.user = user1 /\ (r.ended <=> s.ended \/ ends) /\ SameState(s, r)
      /\ r.processedHeaders = s.processedHeaders /\ r.errors = errors1
  BY <1>1, <1>2, <1>3, <1>4, <1>7 DEF Streams, SameState
<1>9. Receive(s, x) = Send(r)
  BY Zenon DEF Receive, r, errors1, g, user1, full, flow, busy1, taken, n, ends
<1>. HIDE DEF r
<1>10. Heard(s, r, <<x>>)
  BY <1>1, <1>2, <1>5, <1>8, HeardOne
<1>11. /\ Credit(g) = Credit(f) + x.inc /\ g.initialWindow = f.initialWindow
       /\ g.received = flow.received
       /\ Alike(Content(g), Content(f) \o <<>>)
       /\ Orderly(f, g, <<>>)
  BY <1>3, <1>6 DEF FlowMoves, Orderly
<1>12. <<x>> \in Seq(Frames) /\ Bytes(<<x>>) = x.data /\ Increments(<<x>>) = x.inc
  BY OneFrame
<1>13. Bytes(<<>>) = <<>> /\ Increments(<<>>) = 0 /\ Len(<<>>) = 0
  BY EmptyList
<1>14. Given(r) = Given(s) + Increments(<<x>>)
  <2>1. Given(r) = Credit(g) + 0 - g.initialWindow
    BY <1>8, <1>13 DEF Given
  <2>2. Given(s) = Credit(f) + 0 - f.initialWindow
    BY <1>1, <1>13 DEF Given
  <2>3. Credit(f) \in Int /\ f.initialWindow \in Int
    BY <1>1, FlowNumbers
  <2>. QED
    BY <1>2, <1>11, <1>12, <2>1, <2>2, <2>3
<1>15. Held(r) = Held(s) + Len(Bytes(<<x>>))
  <2>1. Held(r) = 0 + Len(FlattenSeq(busy1)) + g.received + Increments(Content(g))
    BY <1>8, <1>13 DEF Held
  <2>2. Held(s) = 0 + 0 + f.received + Increments(Content(f))
    BY <1>1, <1>13, PendingBytes DEF Held
  <2>3. Increments(Content(g)) = Increments(Content(f))
    <3>1. Content(f) \o <<>> = Content(f)
      BY <1>1, JoinEmpty
    <3>. QED
      BY <1>11, <3>1 DEF Alike
  <2>4. /\ f.received \in Nat /\ Increments(Content(f)) \in Int /\ flow.received \in Nat
        /\ Len(FlattenSeq(busy1)) \in Nat
    BY <1>1, <1>3, FlowNumbers, IncrementsType, LenProperties
  <2>5. Len(Bytes(<<x>>)) = n
    BY <1>12 DEF n
  <2>. QED
    <3>1. g.received = flow.received /\ n \in Nat
      BY <1>2, <1>11
    <3>2. flow.received + Len(FlattenSeq(busy1)) = f.received + n
      BY <1>3
    <3>. QED
      BY <2>1, <2>2, <2>3, <2>4, <2>5, <3>1, <3>2, SMTT(40)
<1>16. Turns(s, r, <<x>>, <<>>)
  BY <1>8, <1>10, <1>11, <1>12, <1>14, <1>15, EmptyList DEF Turns
<1>17. Turns(r, Send(r), <<>>, <<>>) /\ Still(r, Send(r)) /\ Calm(r, Send(r), <<>>)
  BY <1>8, SendTurns
<1>20. Calm(s, r, <<x>>)
  <2>1. ASSUME Within(s, <<x>>) PROVE ~TooLarge(flow, x.inc)
    <3>1. Given(s) = Credit(f) + 0 - f.initialWindow
      BY <1>1, <1>13 DEF Given
    <3>2. Credit(f) - f.initialWindow + x.inc <= 0 /\ f.initialWindow <= WINDOW_SIZE_LIMIT
      <4>1. Given(s) + x.inc <= 0 /\ f.initialWindow <= WINDOW_SIZE_LIMIT
        BY <1>12, <2>1 DEF Within
      <4>2. Credit(f) \in Int /\ f.initialWindow \in Int
        BY <1>1, FlowNumbers
      <4>. QED
        BY <1>2, <3>1, <4>1, <4>2
    <3>3. Credit(f) = flow.window + Len(Bytes(flow.buffer))
      BY <1>3 DEF Credit
    <3>4. flow.window \in Int /\ Len(Bytes(flow.buffer)) \in Nat /\ f.initialWindow \in Int
      BY <1>1, <1>3, FlowTypes, BytesType, LenProperties
    <3>5. flow.window + x.inc <= WINDOW_SIZE_LIMIT
      BY <1>2, <3>2, <3>3, <3>4, FlowAssumption, SMTT(40)
    <3>. QED
      BY <1>2, <3>4, <3>5, FlowAssumption DEF TooLarge
  <2>. QED
    BY <1>7, <1>8, <1>11, <2>1 DEF Calm
<1>21. Calm(s, Send(r), <<x>>)
  BY <1>16, <1>17, <1>20, CalmRests
<1>18. Turns(s, Send(r), <<x>>, <<>>)
  BY <1>16, <1>17, TurnsRest
<1>19. SameState(s, Send(r))
  BY <1>8, <1>17 DEF Still, SameState
<1>. QED
  BY <1>9, <1>18, <1>19, <1>21

\* A frame that waits behind the one that is being received.
LEMMA WaitingTurns ==
  ASSUME NEW s \in Streams, s.busy # <<>>, NEW x \in Frames
  PROVE  LET t == [s EXCEPT !.input = Append(@, x)]
         IN  Turns(s, t, <<x>>, <<>>) /\ SameState(s, t) /\ Calm(s, t, <<x>>)
<1>. DEFINE t == [s EXCEPT !.input = Append(@, x)]
<1>1. /\ s.input \in Seq(Frames) /\ s.upstream \in Flows /\ s.user \in Seq(Octet)
      /\ Content(s.upstream) \in Seq(Frames) /\ s.busy \in Pending
  BY StreamTypes
<1>2. Append(s.input, x) = s.input \o <<x>> /\ Append(s.input, x) \in Seq(Frames)
  BY <1>1, AppendJoin
<1>3. /\ t \in Streams /\ t.input = s.input \o <<x>> /\ t.upstream = s.upstream
      /\ t.busy = s.busy /\ t.user = s.user /\ t.ended = s.ended /\ SameState(s, t)
      /\ t.processedHeaders = s.processedHeaders /\ t.errors = s.errors
  <2>1. t = [s EXCEPT !.input = s.input \o <<x>>]
    BY <1>2
  <2>2. s.input \o <<x>> \in Seq(Frames)
    BY <1>2
  <2>. HIDE DEF t
  <2>. QED
    BY <2>1, <2>2 DEF Streams, SameState
<1>. HIDE DEF t
<1>4. <<x>> \in Seq(Frames) /\ Bytes(<<x>>) = x.data /\ Increments(<<x>>) = x.inc
  BY OneFrame
<1>5. Heard(s, t, <<x>>)
  <2>1. <<>> \o t.input = t.input
    BY <1>3, StreamTypes, JoinEmpty
  <2>2. s.input \o <<x>> = <<>> \o t.input
    BY <1>3, <2>1, Zenon
  <2>3. s.user \o Bytes(<<>>) = s.user
    <3>1. s.user \o <<>> = s.user
      BY <1>1, ConcatEmptySeq
    <3>. QED
      BY <3>1, EmptyList, Zenon
  <2>4. HeardPart(s, t, <<x>>, <<>>)
    BY <1>3, <2>2, <2>3, EmptyList DEF HeardPart
  <2>. QED
    BY <2>4, EmptyList DEF Heard
<1>6. Given(t) = Given(s) + Increments(<<x>>)
  <2>1. Increments(t.input) = Increments(s.input) + Increments(<<x>>)
    BY <1>1, <1>3, <1>4, IncrementsJoin
  <2>2. Given(t) = Credit(s.upstream) + Increments(t.input) - s.upstream.initialWindow
    BY <1>3 DEF Given
  <2>3. /\ Credit(s.upstream) \in Int /\ s.upstream.initialWindow \in Int
        /\ Increments(s.input) \in Int /\ Increments(<<x>>) \in Int
    BY <1>1, <1>4, FlowNumbers, IncrementsType
  <2>. QED
    BY <2>1, <2>2, <2>3 DEF Given
<1>7. Held(t) = Held(s) + Len(Bytes(<<x>>))
  <2>1. Bytes(t.input) = Bytes(s.input) \o Bytes(<<x>>)
    BY <1>1, <1>3, <1>4, BytesJoin
  <2>2. Bytes(s.input) \in Seq(Octet) /\ Bytes(<<x>>) \in Seq(Octet)
    BY <1>1, <1>4, BytesType
  <2>3. Len(Bytes(t.input)) = Len(Bytes(s.input)) + Len(Bytes(<<x>>))
    BY <2>1, <2>2, ConcatProperties
  <2>4. Held(t) = Len(Bytes(t.input)) + Len(FlattenSeq(s.busy)) + s.upstream.received
                  + Increments(Content(s.upstream))
    BY <1>3 DEF Held
  <2>5. /\ Len(Bytes(s.input)) \in Int /\ Len(Bytes(<<x>>)) \in Int
        /\ Len(FlattenSeq(s.busy)) \in Int /\ s.upstream.received \in Int
        /\ Increments(Content(s.upstream)) \in Int
    BY <1>1, <2>2, LenProperties, PendingBytes, FlowNumbers, IncrementsType
  <2>. QED
    BY <2>3, <2>4, <2>5 DEF Held
<1>8. Alike(Content(t.upstream), Content(s.upstream) \o <<>>)
  <2>1. Content(s.upstream) \o <<>> = Content(s.upstream)
    BY <1>1, JoinEmpty
  <2>2. Alike(Content(s.upstream), Content(s.upstream))
    BY <1>1, AlikeSelf
  <2>. QED
    BY <1>3, <2>1, <2>2, Zenon
<1>10. Orderly(s.upstream, t.upstream, <<>>)
  BY <1>3, OrderlySame
<1>9. Turns(s, t, <<x>>, <<>>)
  BY <1>3, <1>4, <1>5, <1>6, <1>7, <1>8, <1>10, EmptyList DEF Turns
<1>11. Calm(s, t, <<x>>)
  BY <1>3 DEF Calm
<1>. QED
  BY <1>3, <1>9, <1>11 DEF t

\* A write to the upstream takes the frame in, or lets it wait behind the others.
LEMMA WriteUpstreamTurns ==
  ASSUME NEW s \in Streams, NEW x \in Frames
  PROVE  LET t == WriteUpstream(s, x)
         IN  Turns(s, t, <<x>>, <<>>) /\ SameState(s, t) /\ Calm(s, t, <<x>>)
<1>1. CASE s.busy # <<>>
  <2>1. WriteUpstream(s, x) = [s EXCEPT !.input = Append(@, x)]
    BY <1>1 DEF WriteUpstream
  <2>. QED
    BY <1>1, <2>1, WaitingTurns, Zenon
<1>2. CASE s.busy = <<>>
  <2>1. WriteUpstream(s, x) = Receive(s, x)
    BY <1>2 DEF WriteUpstream
  <2>. QED
    BY <1>2, <2>1, ReceiveTurns, Zenon
<1>. QED
  BY <1>1, <1>2

\* The frames that waited are written one after the other.
LEMMA InputTurns ==
  ASSUME NEW s \in Streams, NEW L \in Seq(Frames)
  PROVE  LET t == FoldLeft(WriteUpstream, s, L) IN Turns(s, t, L, <<>>) /\ Calm(s, t, L)
<1>. DEFINE n == Len(L)
            Solves(g) == g = [S \in SUBSET DOMAIN L |->
                                IF S = {} THEN s
                                ELSE WriteUpstream(g[S \ {Max(S)}], L[Max(S)])]
            c == CHOOSE g : Solves(g)
            Step == [p \in (1 .. n) \X Streams |-> WriteUpstream(p[2], L[p[1]])]
            after == c[DOMAIN L]
<1>1. FoldLeft(WriteUpstream, s, L) = after
  BY Zenon DEF FoldLeft, MapThenFoldSet
<1>2. n \in Nat /\ DOMAIN L = 1 .. n /\ \A k \in 1 .. n : L[k] \in Frames
  BY LenProperties, ElementOfSeq
<1>3. StepIn(n, Streams, s, Step)
  BY <1>2, WriteUpstreamTurns DEF StepIn, Turns
<1>4. \A k \in 1 .. n, v \in Streams : Step[<<k, v>>] = WriteUpstream(v, L[k])
  OBVIOUS
<1>. HIDE DEF Step, n
<1>5. PICK g \in [SUBSET (1 .. n) -> Streams] : IsFold(n, s, Step, g)
  BY <1>2, <1>3, FoldsExist
<1>6. Solves(g)
  <2>1. ASSUME NEW S \in SUBSET (1 .. n), S # {}
        PROVE  Max(S) \in 1 .. n /\ g[S \ {Max(S)}] \in Streams
    BY <1>2, <2>1, LargestIndex
  <2>2. g = [S \in SUBSET (1 .. n) |->
               IF S = {} THEN s ELSE Step[<<Max(S), g[S \ {Max(S)}]>>]]
    BY <1>5 DEF IsFold, FoldStep
  <2>3. \A S \in SUBSET (1 .. n) :
           g[S] = IF S = {} THEN s ELSE WriteUpstream(g[S \ {Max(S)}], L[Max(S)])
    BY <1>4, <2>1, <2>2
  <2>. QED
    BY <1>2, <2>3
<1>7. Solves(c)
  BY <1>6
<1>. HIDE DEF c
<1>8. Obeys(n, Streams, s, Step, c)
  <2>1. \A S \in SUBSET (1 .. n) :
           c[S] = IF S = {} THEN s ELSE WriteUpstream(c[S \ {Max(S)}], L[Max(S)])
    BY <1>2, <1>7
  <2>2. \A S \in SUBSET (1 .. n) : S # {} => Max(S) \in 1 .. n
    BY <1>2, LargestIndex
  <2>. QED
    BY <1>4, <2>1, <2>2 DEF Obeys
<1>9. PICK h \in [0 .. n -> Streams] : Runs(n, s, Step, h) /\ h[n] = c[1 .. n]
  <2>1. ASSUME NEW x, Obeys(n, Streams, s, Step, x)
        PROVE  \E h \in [0 .. n -> Streams] : Runs(n, s, Step, h) /\ h[n] = x[1 .. n]
    BY <1>2, <1>3, <2>1, FoldRuns
  <2>. QED
    BY <1>8, <2>1
<1>. DEFINE P == {k \in 0 .. n : /\ Turns(s, h[k], SubSeq(L, 1, k), <<>>)
                                 /\ Calm(s, h[k], SubSeq(L, 1, k))}
<1>10. 0 \in P
  <2>1. h[0] = s /\ 0 \in 0 .. n
    BY <1>2, <1>9 DEF Runs
  <2>2. SubSeq(L, 1, 0) = <<>>
    BY PrefixGrows
  <2>3. Turns(s, s, <<>>, <<>>)
    <3>1. FlowMoves(s.upstream, s.upstream, <<>>, 0)
      BY StreamTypes, FlowStays DEF SameFlow
    <3>. QED
      BY <3>1, TurnsUpstream, EmptyList
  <2>4. Calm(s, s, <<>>)
    BY DEF Calm
  <2>. QED
    BY <2>1, <2>2, <2>3, <2>4
<1>11. ASSUME NEW k \in 1 .. n, k - 1 \in P PROVE k \in P
  <2>1. h[k - 1] \in Streams /\ k \in 0 .. n
    BY <1>2
  <2>2. h[k] = Step[<<k, h[k - 1]>>]
    BY <1>9, Zenon DEF Runs
  <2>3. h[k] = WriteUpstream(h[k - 1], L[k])
    BY <1>4, <2>1, <2>2
  <2>4. Turns(h[k - 1], h[k], <<L[k]>>, <<>>) /\ Calm(h[k - 1], h[k], <<L[k]>>)
    BY <1>2, <2>1, <2>3, WriteUpstreamTurns
  <2>5. Turns(s, h[k - 1], SubSeq(L, 1, k - 1), <<>>) /\ Calm(s, h[k - 1], SubSeq(L, 1, k - 1))
    BY <1>11
  <2>6. Turns(s, h[k], SubSeq(L, 1, k - 1) \o <<L[k]>>, <<>> \o <<>>)
    BY <2>4, <2>5, TurnsGoOn
  <2>9. Calm(s, h[k], SubSeq(L, 1, k - 1) \o <<L[k]>>)
    BY <2>4, <2>5, CalmGoesOn
  <2>7. SubSeq(L, 1, k) = SubSeq(L, 1, k - 1) \o <<L[k]>>
    BY PrefixGrows DEF n
  <2>8. <<>> \o <<>> = <<>>
    BY EmptyList, JoinEmpty
  <2>. QED
    BY <2>1, <2>6, <2>7, <2>8, <2>9
<1>12. n \in P
  <2>. HIDE DEF P
  <2>1. 0 .. n \subseteq P
    BY <1>2, <1>10, <1>11, UpTo
  <2>2. n \in 0 .. n
    BY <1>2
  <2>. QED
    BY <2>1, <2>2
<1>13. h[n] = after /\ SubSeq(L, 1, n) = L
  BY <1>2, <1>9, PrefixGrows DEF n
<1>. QED
  BY <1>1, <1>12, <1>13

\* _read of the stream: what waited is received.
LEMMA ReceiveMoreTurns ==
  ASSUME NEW s \in Streams, s.busy # <<>>
  PROVE  LET t == ReceiveMore(s)
         IN  Turns(s, t, <<>>, <<>>) /\ SameState(s, t) /\ Calm(s, t, <<>>)
<1>. DEFINE f == Received(s.upstream, Len(s.busy[1]))
            s0 == [s EXCEPT !.busy = <<>>, !.input = <<>>, !.upstream = f]
            L == s.input
            g == FoldLeft(WriteUpstream, s0, L)
            r == WithReceived(s, g)
<1>1. /\ L \in Seq(Frames) /\ s.upstream \in Flows /\ s.user \in Seq(Octet)
      /\ Content(s.upstream) \in Seq(Frames) /\ s.busy \in Pending
  BY StreamTypes
<1>2. PICK d \in Seq(Octet) : s.busy = <<d>>
  BY <1>1 DEF Pending
<1>3. s.busy[1] = d /\ FlattenSeq(s.busy) = d /\ Len(d) \in Nat
  <2>1. s.busy[1] = d
    BY <1>2
  <2>2. FlattenSeq(s.busy) = d
    BY <1>2, PendingBytes
  <2>. QED
    BY <2>1, <2>2, LenProperties
<1>4. /\ f \in Flows /\ Content(f) = Content(s.upstream) /\ Credit(f) = Credit(s.upstream)
      /\ f.initialWindow = s.upstream.initialWindow /\ f.received = s.upstream.received + Len(d)
      /\ f.buffer = s.upstream.buffer
  <2>1. f = Received(s.upstream, Len(d))
    BY <1>3
  <2>. HIDE DEF f
  <2>2. /\ f \in Flows /\ f.queue = s.upstream.queue /\ f.buffer = s.upstream.buffer
        /\ f.window = s.upstream.window
        /\ f.initialWindow = s.upstream.initialWindow /\ f.received = s.upstream.received + Len(d)
    BY <1>1, <1>3, <2>1, ReceivedKeeps
  <2>. QED
    BY <2>2 DEF Content, Credit
<1>5. s0 \in Streams /\ s0.upstream = f /\ s0.input = <<>> /\ s0.busy = <<>>
      /\ s0.user = s.user /\ s0.ended = s.ended /\ s0.errors = s.errors
  <2>. HIDE DEF f
  <2>1. <<>> \in Pending /\ <<>> \in Seq(Frames)
    BY EmptyList DEF Pending
  <2>. QED
    BY <1>4, <2>1 DEF Streams
<1>. HIDE DEF s0, f
<1>6. Turns(s0, g, L, <<>>) /\ Calm(s0, g, L)
  BY <1>1, <1>5, InputTurns
<1>7. ReceiveMore(s) = r
  BY Zenon DEF ReceiveMore, r, g, s0, f, L
<1>. HIDE DEF g, L
<1>8. g \in Streams
  BY <1>6 DEF Turns
<1>9. /\ r \in Streams /\ r.upstream = g.upstream /\ r.input = g.input /\ r.busy = g.busy
      /\ r.user = g.user /\ r.ended = g.ended /\ SameState(s, r)
      /\ r.processedHeaders = s.processedHeaders /\ r.errors = g.errors
  BY <1>8 DEF WithReceived, Streams, SameState
<1>. HIDE DEF r
<1>10. L \o <<>> = L /\ <<>> \o L = L /\ Increments(<<>>) = 0 /\ Bytes(<<>>) = <<>>
       /\ Len(<<>>) = 0
  BY <1>1, JoinEmpty, EmptyList
<1>11. Heard(s, r, <<>>)
  <2>1. PICK C \in Seq(Frames) : HeardPart(s0, g, L, C)
    BY <1>6 DEF Turns, Heard
  <2>2. s.input \o <<>> = C \o r.input
    BY <1>5, <1>9, <1>10, <2>1, Zenon DEF HeardPart, L
  <2>3. r.ended <=> s.ended \/ Some(C, Ending)
    BY <1>5, <1>9, <2>1, Zenon DEF HeardPart
  <2>4. Sound(s, <<>>) => Sound(s0, L)
    BY <1>5, <1>10, Zenon DEF Sound, L
  <2>5. Sound(s, <<>>) => r.user = s.user \o Bytes(C)
    BY <1>5, <1>9, <2>1, <2>4, Zenon DEF HeardPart
  <2>6. HeardPart(s, r, <<>>, C)
    BY <2>2, <2>3, <2>5, Zenon DEF HeardPart
  <2>. QED
    BY <2>6 DEF Heard
<1>12. Given(r) = Given(s) + Increments(<<>>)
  <2>1. Given(r) = Given(g)
    BY <1>9, Zenon DEF Given
  <2>2. Given(g) = Given(s0) + Increments(L)
    BY <1>6 DEF Turns
  <2>3. Given(s0) = Credit(s.upstream) + 0 - s.upstream.initialWindow
    BY <1>4, <1>5, <1>10 DEF Given
  <2>4. Given(s) = Credit(s.upstream) + Increments(L) - s.upstream.initialWindow
    BY DEF Given, L
  <2>5. /\ Credit(s.upstream) \in Int /\ s.upstream.initialWindow \in Int
        /\ Increments(L) \in Int
    BY <1>1, FlowNumbers, IncrementsType
  <2>. QED
    BY <1>10, <2>1, <2>2, <2>3, <2>4, <2>5
<1>13. Held(r) = Held(s) + Len(Bytes(<<>>))
  <2>1. Held(r) = Held(g)
    BY <1>9, Zenon DEF Held
  <2>2. Held(g) = Held(s0) + Len(Bytes(L))
    BY <1>6 DEF Turns
  <2>3. Held(s0) = 0 + 0 + (s.upstream.received + Len(d)) + Increments(Content(s.upstream))
    BY <1>4, <1>5, <1>10, PendingBytes DEF Held
  <2>4. Held(s) = Len(Bytes(L)) + Len(d) + s.upstream.received + Increments(Content(s.upstream))
    BY <1>3 DEF Held, L
  <2>5. /\ s.upstream.received \in Nat /\ Increments(Content(s.upstream)) \in Int
        /\ Len(Bytes(L)) \in Nat
    BY <1>1, FlowNumbers, IncrementsType, BytesType, LenProperties
  <2>. QED
    BY <1>3, <1>10, <2>1, <2>2, <2>3, <2>4, <2>5
<1>14. Alike(Content(r.upstream), Content(s.upstream) \o <<>>)
  BY <1>4, <1>5, <1>6, <1>9, Zenon DEF Turns
<1>16. Orderly(s.upstream, r.upstream, <<>>)
  BY <1>4, <1>5, <1>6, <1>9 DEF Turns, Orderly
<1>15. Turns(s, r, <<>>, <<>>)
  BY <1>9, <1>11, <1>12, <1>13, <1>14, <1>16, EmptyList DEF Turns
<1>17. Calm(s, r, <<>>)
  <2>1. ASSUME Within(s, <<>>) PROVE Within(s0, L)
    <3>1. Given(s) + 0 <= 0 /\ s.upstream.initialWindow <= WINDOW_SIZE_LIMIT
      BY <1>10, <2>1 DEF Within
    <3>2. Given(s) = Credit(s.upstream) + Increments(L) - s.upstream.initialWindow
      BY DEF Given, L
    <3>3. Given(s0) = Credit(s.upstream) + 0 - s.upstream.initialWindow
      BY <1>4, <1>5, <1>10 DEF Given
    <3>4. /\ Credit(s.upstream) \in Int /\ s.upstream.initialWindow \in Int
          /\ Increments(L) \in Int
      BY <1>1, FlowNumbers, IncrementsType
    <3>5. Given(s0) + Increments(L) <= 0
      BY <3>1, <3>2, <3>3, <3>4
    <3>. QED
      BY <1>4, <1>5, <3>1, <3>5 DEF Within
  <2>. QED
    BY <1>4, <1>5, <1>6, <1>9, <2>1 DEF Calm
<1>. QED
  BY <1>7, <1>9, <1>15, <1>17

\* The Duplex that calls _read again loses nothing of what waits.
LEMMA ReadiedTurns ==
  ASSUME NEW s \in Streams
  PROVE  LET t == Readied(s)
         IN  Turns(s, t, <<>>, <<>>) /\ SameState(s, t) /\ Calm(s, t, <<>>)
<1>1. CASE CanReceiveMore(s)
  <2>1. s.busy # <<>> /\ Readied(s) = ReceiveMore(s)
    BY <1>1 DEF CanReceiveMore, Readied
  <2>. QED
    BY <2>1, ReceiveMoreTurns, Zenon
<1>2. CASE ~CanReceiveMore(s)
  <2>1. Readied(s) = s
    BY <1>2 DEF Readied
  <2>2. FlowMoves(s.upstream, s.upstream, <<>>, 0)
    BY StreamTypes, FlowStays DEF SameFlow
  <2>3. Turns(s, s, <<>>, <<>>)
    BY <2>2, TurnsUpstream, EmptyList
  <2>. QED
    BY <2>1, <2>3 DEF SameState, Calm
<1>. QED
  BY <1>1, <1>2

-----------------------------------------------------------------------------
(* The state machine.                                                      *)

\* Only the state machine moves, or what the user is told.
SameData(s, t) ==
  /\ s \in Streams /\ t \in Streams
  /\ t.upstream = s.upstream /\ t.input = s.input /\ t.busy = s.busy
  /\ t.user = s.user /\ t.ended = s.ended

\* A step of the state machine alone neither hears nor says anything.
LEMMA SameDataTurns ==
  ASSUME NEW s, NEW t, SameData(s, t) PROVE Turns(s, t, <<>>, <<>>)
<1>1. s \in Streams /\ t \in Streams /\ t.upstream = s.upstream
  BY DEF SameData
<1>2. FlowMoves(s.upstream, t.upstream, <<>>, 0)
  BY <1>1, StreamTypes, FlowStays DEF SameFlow
<1>. QED
  BY <1>2, TurnsUpstream, EmptyList DEF SameData

\* The stream has seen the end of its peer, by the state machine.
Done(s) == s.state = "HALF_CLOSED_REMOTE" \/ (s.state = "CLOSED" /\ ~s.closedWithRst)

\* The peer has closed its side: no more of it is legal.
Shut(s) ==
  \/ s.state = "HALF_CLOSED_REMOTE"
  \/ s.state = "CLOSED" /\ ~(s.closedByUs /\ s.closedWithRst)

\* What becomes of the state machine when x is heard, and when it is said.
HearsState(s, t, x) ==
  /\ Done(t) => Done(s) \/ x.end
  /\ Shut(t) => Shut(s) \/ x.end \/ x.type = "RST_STREAM"
  /\ x.type = "RST_STREAM" =>
       t.closedWithRst \/ x.end \/ s.state = "IDLE" \/ s.state = "CLOSED"
  /\ s.closedWithRst => t.closedWithRst
  /\ t.state = "IDLE" => s.state = "IDLE" /\ x.type # "HEADERS"
  /\ t.state # "IDLE" => s.state # "IDLE" \/ x.type = "HEADERS"
  /\ s.resetSent => t.resetSent

SaysState(s, t) ==
  /\ Done(t) => Done(s)
  /\ Shut(t) => Shut(s)
  /\ t.processedHeaders = s.processedHeaders /\ t.errors = s.errors
  /\ t.upstream.initialWindow = s.upstream.initialWindow
  /\ s.closedWithRst => t.closedWithRst
  /\ t.state = "IDLE" => s.state = "IDLE"
  /\ t.resetSent = s.resetSent

\* What the two state machines make of x, as far as they must agree: where x leads
\* when it is heard, and when it is said and the user gets no exception.
Heeds(s, t, x) ==
  /\ t.thrown = s.thrown
  /\ s.state = "CLOSED" => t.state = "CLOSED" /\ t.closedWithRst = s.closedWithRst
  /\ s.state = "HALF_CLOSED_REMOTE" => t.state \in {"HALF_CLOSED_REMOTE", "CLOSED"}
  /\ s.state = "HALF_CLOSED_LOCAL" => t.state \in {"HALF_CLOSED_LOCAL", "CLOSED"}
  /\ t.state = "HALF_CLOSED_LOCAL" => s.state = "HALF_CLOSED_LOCAL"
  /\ t.state = "CLOSED" /\ ~t.closedWithRst => s.state \in {"HALF_CLOSED_LOCAL", "CLOSED"}
  /\ t.closedWithRst => s.closedWithRst \/ x.type = "RST_STREAM"
  /\ x.end /\ (s.state # "IDLE" \/ x.type = "HEADERS") =>
       t.state \in {"HALF_CLOSED_REMOTE", "CLOSED"}
  /\ x.type = "RST_STREAM" /\ s.state # "IDLE" => t.state = "CLOSED"

Spoken(s, t, type, end) ==
  ~t.thrown =>
    /\ ~s.thrown
    /\ type = "RST_STREAM" =>
         t.state = "CLOSED" /\ (t.closedWithRst <=> s.closedWithRst \/ s.state # "CLOSED")
    /\ type # "RST_STREAM" /\ ~end =>
         /\ s.state \notin {"HALF_CLOSED_LOCAL", "CLOSED"}
         /\ t.state \notin {"HALF_CLOSED_LOCAL", "CLOSED"} /\ ~t.closedWithRst
         /\ s.state = "HALF_CLOSED_REMOTE" => t.state = "HALF_CLOSED_REMOTE"
    /\ type # "RST_STREAM" /\ end =>
         /\ s.state \in {"OPEN", "HALF_CLOSED_REMOTE"} /\ ~t.closedWithRst
         /\ t.state = IF s.state = "OPEN" THEN "HALF_CLOSED_LOCAL" ELSE "CLOSED"

\* What a user says.
UserSays(type, end) ==
  /\ type \in {"HEADERS", "DATA", "RST_STREAM"} /\ end \in BOOLEAN
  /\ end => type = "DATA"

\* Where a legal frame leads.
LEMMA TargetState ==
  ASSUME NEW s \in Streams, NEW x \in Frames, NEW sending \in BOOLEAN,
         Legal(s, sending, x)
  PROVE  LET to == Target(s.state, sending, x)
         IN  /\ to \in StateNames
             /\ to = "IDLE" => s.state = "IDLE" /\ x.type # "HEADERS"
             /\ s.state = "IDLE" /\ to # "IDLE" => sending \/ x.type = "HEADERS"
             /\ s.state = "CLOSED" => to = "CLOSED"
             /\ to = "HALF_CLOSED_REMOTE" =>
                  s.state = "HALF_CLOSED_REMOTE" \/ (~sending /\ x.end)
             /\ to = "CLOSED" =>
                  \/ s.state = "CLOSED" \/ x.type = "RST_STREAM"
                  \/ x.end /\ (~sending \/ s.state = "HALF_CLOSED_REMOTE")
             /\ x.type = "RST_STREAM" /\ s.state # "IDLE" /\ ~x.end => to = "CLOSED"
<1>1. s.state \in StateNames
  BY StreamTypes
<1>2. x.type \in FrameTypes /\ x.end \in BOOLEAN
  BY DEF Frames
<1>3. CASE s.state = "IDLE"
  BY <1>2, <1>3 DEF Target, Legal, StateNames, FrameTypes
<1>4. CASE s.state = "OPEN"
  BY <1>2, <1>4 DEF Target, Legal, StateNames, FrameTypes
<1>5. CASE s.state = "HALF_CLOSED_LOCAL"
  BY <1>2, <1>5 DEF Target, Legal, StateNames, FrameTypes
<1>6. CASE s.state = "HALF_CLOSED_REMOTE"
  BY <1>2, <1>6 DEF Target, Legal, StateNames, FrameTypes
<1>7. CASE s.state = "CLOSED"
  BY <1>2, <1>7 DEF Target, Legal, StateNames, FrameTypes
<1>. QED
  BY <1>1, <1>3, <1>4, <1>5, <1>6, <1>7 DEF StateNames

\* A legal frame moves the state machine and leaves the data alone.
LEMMA TransitionLegal ==
  ASSUME NEW s \in Streams, NEW x \in Frames, NEW sending \in BOOLEAN,
         Legal(s, sending, x), s.closedWithRst => s.state = "CLOSED"
  PROVE  LET t == Transition(s, sending, x)
         IN  /\ SameData(s, t) /\ t.resetSent = s.resetSent /\ t.thrown = s.thrown
             /\ t.processedHeaders = s.processedHeaders /\ t.errors = s.errors
             /\ t.state = Target(s.state, sending, x)
             /\ t.closedWithRst = IF t.state = "CLOSED" /\ s.state # "CLOSED"
                                  THEN x.type = "RST_STREAM" ELSE s.closedWithRst
             /\ sending => SaysState(s, t)
             /\ ~sending => HearsState(s, t, x)
<1>. DEFINE t == Transition(s, sending, x)
            to == Target(s.state, sending, x)
            by == IF to = "CLOSED" /\ s.state # "CLOSED" THEN sending ELSE s.closedByUs
            rst == IF to = "CLOSED" /\ s.state # "CLOSED" THEN x.type = "RST_STREAM"
                   ELSE s.closedWithRst
            who == IF s.state = "IDLE" /\ x.type = "HEADERS"
                   THEN IF sending THEN "us" ELSE "peer" ELSE s.initiated
<1>1. /\ to \in StateNames
      /\ to = "IDLE" => s.state = "IDLE" /\ x.type # "HEADERS"
      /\ s.state = "IDLE" /\ to # "IDLE" => sending \/ x.type = "HEADERS"
      /\ s.state = "CLOSED" => to = "CLOSED"
      /\ to = "HALF_CLOSED_REMOTE" =>
           s.state = "HALF_CLOSED_REMOTE" \/ (~sending /\ x.end)
      /\ to = "CLOSED" =>
           \/ s.state = "CLOSED" \/ x.type = "RST_STREAM"
           \/ x.end /\ (~sending \/ s.state = "HALF_CLOSED_REMOTE")
      /\ x.type = "RST_STREAM" /\ s.state # "IDLE" /\ ~x.end => to = "CLOSED"
  BY TargetState
<1>2. t = [s EXCEPT !.state = to, !.initiated = who, !.closedByUs = by, !.closedWithRst = rst]
  BY Zenon DEF Transition
<1>. HIDE DEF t, to
<1>3. by \in BOOLEAN /\ rst \in BOOLEAN /\ who \in {"unknown", "us", "peer"}
  BY DEF Streams
<1>4. /\ t \in Streams /\ t.state = to /\ t.closedWithRst = rst /\ t.resetSent = s.resetSent
      /\ t.thrown = s.thrown /\ t.upstream = s.upstream /\ t.input = s.input /\ t.busy = s.busy
      /\ t.user = s.user /\ t.ended = s.ended /\ t.closedByUs = by
      /\ t.processedHeaders = s.processedHeaders /\ t.errors = s.errors
  <2>. HIDE DEF by, rst, who
  <2>. QED
    BY <1>1, <1>2, <1>3 DEF Streams
<1>5. SameData(s, t)
  BY <1>4 DEF SameData
<1>6. s.closedWithRst => t.closedWithRst
  BY <1>4
<1>9. Shut(t) => Shut(s) \/ (~sending /\ (x.end \/ x.type = "RST_STREAM"))
  BY <1>1, <1>4 DEF Shut
<1>7. sending => SaysState(s, t)
  BY <1>1, <1>4, <1>6, <1>9 DEF SaysState, Done
<1>8. ~sending => HearsState(s, t, x)
  BY <1>1, <1>4, <1>6, <1>9 DEF HearsState, Done
<1>. QED
  BY <1>4, <1>5, <1>7, <1>8 DEF t, to, rst

\* Where a frame of the user leads.
LEMMA TransitionSpoken ==
  ASSUME NEW s \in Streams, NEW x \in Frames, UserSays(x.type, x.end),
         s.closedWithRst => s.state = "CLOSED"
  PROVE  Spoken(s, Transition(s, TRUE, x), x.type, x.end)
<1>. DEFINE t == Transition(s, TRUE, x)
<1>. SUFFICES Spoken(s, t, x.type, x.end)
  OBVIOUS
<1>1. CASE Legal(s, TRUE, x)
  <2>1. /\ t.thrown = s.thrown /\ t.state = Target(s.state, TRUE, x)
        /\ t.closedWithRst = IF t.state = "CLOSED" /\ s.state # "CLOSED"
                             THEN x.type = "RST_STREAM" ELSE s.closedWithRst
    BY <1>1, TransitionLegal
  <2>2. s.state \in StateNames /\ s.closedWithRst \in BOOLEAN
    BY StreamTypes
  <2>. HIDE DEF t
  <2>3. CASE x.type = "RST_STREAM"
    <3>1. t.state = "CLOSED"
      BY <1>1, <2>1, <2>2, <2>3 DEF Target, Legal, StateNames, UserSays
    <3>. QED
      BY <2>1, <2>2, <2>3, <3>1 DEF Spoken, UserSays
  <2>4. CASE x.type # "RST_STREAM"
    <3>1. x.type \in {"HEADERS", "DATA"} /\ s.state \notin {"HALF_CLOSED_LOCAL", "CLOSED"}
      BY <1>1, <2>4 DEF Legal, LegalWhenClosed, UserSays
    <3>2. CASE x.end
      <4>1. /\ s.state \in {"OPEN", "HALF_CLOSED_REMOTE"}
            /\ t.state = IF s.state = "OPEN" THEN "HALF_CLOSED_LOCAL" ELSE "CLOSED"
        BY <1>1, <2>1, <2>2, <3>1, <3>2 DEF Target, Legal, StateNames, UserSays
      <4>. QED
        BY <2>1, <2>4, <3>2, <4>1 DEF Spoken
    <3>3. CASE ~x.end
      <4>1. /\ t.state \notin {"HALF_CLOSED_LOCAL", "CLOSED"}
            /\ s.state = "HALF_CLOSED_REMOTE" => t.state = "HALF_CLOSED_REMOTE"
        BY <2>1, <2>2, <3>1, <3>3 DEF Target, StateNames
      <4>. QED
        BY <2>1, <2>4, <3>1, <3>3, <4>1 DEF Spoken
    <3>. QED
      BY <3>2, <3>3
  <2>. QED
    BY <2>3, <2>4
<1>2. CASE ~Legal(s, TRUE, x)
  <2>1. t = [s EXCEPT !.thrown = TRUE]
    BY <1>2, Zenon DEF Transition
  <2>. HIDE DEF t
  <2>2. t.thrown
    BY <2>1 DEF Streams
  <2>. QED
    BY <2>2 DEF Spoken
<1>. QED
  BY <1>1, <1>2

\* Where a frame of the peer leads when it is legal.
LEMMA TransitionHeeds ==
  ASSUME NEW s \in Streams, NEW x \in Frames, Legal(s, FALSE, x),
         s.closedWithRst => s.state = "CLOSED"
  PROVE  Heeds(s, Transition(s, FALSE, x), x)
<1>. DEFINE t == Transition(s, FALSE, x)
<1>. SUFFICES Heeds(s, t, x)
  OBVIOUS
<1>1. /\ t.thrown = s.thrown /\ t.state = Target(s.state, FALSE, x)
      /\ t.closedWithRst = IF t.state = "CLOSED" /\ s.state # "CLOSED"
                           THEN x.type = "RST_STREAM" ELSE s.closedWithRst
  BY TransitionLegal
<1>2. /\ s.state \in StateNames /\ x.end \in BOOLEAN /\ x.type \in FrameTypes
      /\ x.end => x.type \in {"DATA", "HEADERS"}
  BY StreamTypes DEF Frames
<1>. HIDE DEF t
<1>3. CASE s.state = "IDLE"
  <2>1. x.type = "HEADERS"
    BY <1>2, <1>3 DEF Legal, FrameTypes
  <2>2. t.state = IF x.end THEN "HALF_CLOSED_REMOTE" ELSE "OPEN"
    BY <1>1, <1>3, <2>1 DEF Target
  <2>. QED
    BY <1>1, <1>3, <2>1, <2>2 DEF Heeds
<1>4. CASE s.state = "OPEN"
  <2>1. t.state = IF x.end THEN "HALF_CLOSED_REMOTE"
                  ELSE IF x.type = "RST_STREAM" THEN "CLOSED" ELSE "OPEN"
    BY <1>1, <1>2, <1>4 DEF Target
  <2>. QED
    BY <1>1, <1>2, <1>4, <2>1 DEF Heeds
<1>5. CASE s.state = "HALF_CLOSED_LOCAL"
  <2>1. t.state = IF x.end \/ x.type = "RST_STREAM" THEN "CLOSED" ELSE "HALF_CLOSED_LOCAL"
    BY <1>1, <1>2, <1>5 DEF Target
  <2>. QED
    BY <1>1, <1>2, <1>5, <2>1 DEF Heeds
<1>6. CASE s.state = "HALF_CLOSED_REMOTE"
  <2>1. t.state = IF x.type = "RST_STREAM" THEN "CLOSED" ELSE "HALF_CLOSED_REMOTE"
    BY <1>1, <1>2, <1>6 DEF Target
  <2>. QED
    BY <1>1, <1>2, <1>6, <2>1 DEF Heeds
<1>7. CASE s.state = "CLOSED"
  <2>1. t.state = "CLOSED"
    BY <1>1, <1>7 DEF Target
  <2>. QED
    BY <1>1, <1>7, <2>1 DEF Heeds
<1>. QED
  BY <1>2, <1>3, <1>4, <1>5, <1>6, <1>7 DEF StateNames

\* The user's frame: if it is illegal the user gets an exception.
LEMMA TransitionSaid ==
  ASSUME NEW s \in Streams, NEW x \in Frames, s.closedWithRst => s.state = "CLOSED"
  PROVE  LET t == Transition(s, TRUE, x) IN SameData(s, t) /\ SaysState(s, t)
<1>1. CASE Legal(s, TRUE, x)
  BY <1>1, TransitionLegal
<1>2. CASE ~Legal(s, TRUE, x)
  <2>. DEFINE t == Transition(s, TRUE, x)
  <2>1. t = [s EXCEPT !.thrown = TRUE]
    BY <1>2, Zenon DEF Transition
  <2>. HIDE DEF t
  <2>2. SameData(s, t) /\ SaysState(s, t)
    BY <2>1 DEF SameData, SaysState, Done, Shut, Streams
  <2>. QED
    BY <2>2 DEF t
<1>. QED
  BY <1>1, <1>2

\* What a stream says when it gets a frame that is illegal in its state.
Answers == {<<>>, <<F("RST_STREAM")>>}

\* The frame of a reset.
LEMMA ResetFrame ==
  /\ F("RST_STREAM") \in Frames /\ F("RST_STREAM").data = <<>> /\ F("RST_STREAM").inc = 0
  /\ ~F("RST_STREAM").end /\ F("RST_STREAM").type = "RST_STREAM"
  /\ \A Y \in Answers : Y \in Seq(Frames) /\ Increments(Y) = 0
<1>1. F("RST_STREAM") \in Frames
  BY PlainFrame DEF FrameTypes
<1>2. F("RST_STREAM").data = <<>> /\ F("RST_STREAM").inc = 0
      /\ ~F("RST_STREAM").end /\ F("RST_STREAM").type = "RST_STREAM"
  BY DEF F
<1>3. ASSUME NEW Y \in Answers PROVE Y \in Seq(Frames) /\ Increments(Y) = 0
  BY <1>1, <1>2, OneFrame, EmptyList DEF Answers
<1>. QED
  BY <1>1, <1>2, <1>3

\* A frame on a closed stream is answered with RST_STREAM, once.
LEMMA ResetClosedTurns ==
  ASSUME NEW s \in Streams
  PROVE  LET t == ResetClosed(s)
         IN  \E Y \in Answers :
               /\ Turns(s, t, <<>>, Y) /\ t \in Streams
               /\ t.resetSent <=> s.resetSent \/ Y # <<>>
               /\ t.state = s.state /\ t.closedWithRst = s.closedWithRst
               /\ t.closedByUs = s.closedByUs /\ t.thrown = s.thrown
               /\ t.user = s.user /\ t.ended = s.ended
               /\ t.processedHeaders = s.processedHeaders
               /\ t.upstream.initialWindow = s.upstream.initialWindow
<1>1. CASE s.resetSent
  <2>1. ResetClosed(s) = s
    BY <1>1 DEF ResetClosed
  <2>2. Turns(s, s, <<>>, <<>>)
    BY SameDataTurns DEF SameData
  <2>. QED
    BY <2>1, <2>2 DEF Answers
<1>2. CASE ~s.resetSent
  <2>. DEFINE x == F("RST_STREAM")
              g == Push(s.upstream, x)
              t == [s EXCEPT !.resetSent = TRUE, !.upstream = g]
  <2>1. ResetClosed(s) = t
    BY <1>2 DEF ResetClosed
  <2>2. x \in Frames /\ Increments(<<x>>) = 0 /\ <<x>> \in Answers
    BY ResetFrame DEF Answers
  <2>. HIDE DEF x
  <2>3. FlowMoves(s.upstream, g, <<x>>, 0) /\ g \in Flows
    BY <2>2, StreamTypes, PushMoves DEF FlowMoves
  <2>. HIDE DEF g
  <2>4. /\ t \in Streams /\ t.resetSent /\ t.state = s.state /\ t.thrown = s.thrown
        /\ t.closedWithRst = s.closedWithRst /\ t.upstream = g
        /\ t.user = s.user /\ t.ended = s.ended /\ t.input = s.input /\ t.busy = s.busy
        /\ t.closedByUs = s.closedByUs /\ t.processedHeaders = s.processedHeaders
    BY <2>3 DEF Streams
  <2>. HIDE DEF t
  <2>6. t.upstream.initialWindow = s.upstream.initialWindow
    BY <2>3, <2>4 DEF FlowMoves
  <2>5. Turns(s, t, <<>>, <<x>>)
    BY <2>2, <2>3, <2>4, TurnsUpstream
  <2>. QED
    BY <2>1, <2>2, <2>4, <2>5, <2>6
<1>. QED
  BY <1>1, <1>2

\* The frame of the peer goes to the state machine and to its handler.
LEMMA TransitionHeard ==
  ASSUME NEW s \in Streams, NEW x \in Frames, s.closedWithRst => s.state = "CLOSED"
  PROVE  LET t == Transition(s, FALSE, x)
         IN  \E Y \in Answers :
               /\ Turns(s, t, <<>>, Y) /\ HearsState(s, t, x) /\ Heeds(s, t, x)
               /\ Y # <<>> => s.state = "CLOSED"
               /\ t.resetSent <=> s.resetSent \/ Y # <<>>
               /\ t.user = s.user /\ t.ended = s.ended
               /\ t.processedHeaders = s.processedHeaders
               /\ t.upstream.initialWindow = s.upstream.initialWindow
               /\ Legal(s, FALSE, x) => t.errors = s.errors
<1>. DEFINE t == Transition(s, FALSE, x)
<1>1. CASE Legal(s, FALSE, x)
  <2>1. /\ SameData(s, t) /\ HearsState(s, t, x) /\ Heeds(s, t, x)
        /\ t.resetSent = s.resetSent /\ t.processedHeaders = s.processedHeaders
        /\ t.errors = s.errors
    BY <1>1, TransitionLegal, TransitionHeeds
  <2>2. Turns(s, t, <<>>, <<>>)
    BY <2>1, SameDataTurns
  <2>. QED
    BY <2>1, <2>2 DEF Answers, SameData
<1>2. CASE ~Legal(s, FALSE, x) /\ s.state = "CLOSED"
  <2>. DEFINE r == ResetClosed(s)
  <2>1. t = [r EXCEPT !.errors = @ \cup {ErrorOf(s)}]
    BY <1>2, Zenon DEF Transition
  <2>2. PICK Y \in Answers :
               /\ Turns(s, r, <<>>, Y) /\ r \in Streams
               /\ r.resetSent <=> s.resetSent \/ Y # <<>>
               /\ r.state = s.state /\ r.closedWithRst = s.closedWithRst
               /\ r.closedByUs = s.closedByUs /\ r.thrown = s.thrown
               /\ r.user = s.user /\ r.ended = s.ended
               /\ r.processedHeaders = s.processedHeaders
               /\ r.upstream.initialWindow = s.upstream.initialWindow
    BY ResetClosedTurns
  <2>. HIDE DEF r, t
  <2>3. ErrorOf(s) \in ErrorNames
    BY DEF ErrorOf, ErrorNames
  <2>4. /\ SameData(r, t) /\ t.resetSent = r.resetSent /\ t.state = r.state
        /\ t.closedWithRst = r.closedWithRst /\ t.thrown = r.thrown
        /\ t.closedByUs = r.closedByUs /\ t.processedHeaders = r.processedHeaders
    BY <2>1, <2>2, <2>3 DEF SameData, Streams
  <2>5. Turns(s, t, <<>>, Y)
    BY <2>2, <2>4, SameDataTurns, TurnsRest
  <2>6. HearsState(s, t, x) /\ Heeds(s, t, x)
    BY <1>2, <2>2, <2>4 DEF HearsState, Heeds, Done, Shut
  <2>7. t.user = s.user /\ t.ended = s.ended
    BY <2>2, <2>4 DEF SameData
  <2>8. t.upstream.initialWindow = s.upstream.initialWindow
    <3>1. t.upstream = r.upstream
      BY <2>4 DEF SameData
    <3>. QED
      BY <3>1, <2>2
  <2>. QED
    BY <1>2, <2>2, <2>4, <2>5, <2>6, <2>7, <2>8 DEF t
<1>3. CASE ~Legal(s, FALSE, x) /\ s.state # "CLOSED"
  <2>1. t = [s EXCEPT !.errors = @ \cup {ErrorOf(s)}]
    BY <1>3, Zenon DEF Transition
  <2>. HIDE DEF t
  <2>2. ErrorOf(s) \in ErrorNames
    BY DEF ErrorOf, ErrorNames
  <2>3. /\ SameData(s, t) /\ t.resetSent = s.resetSent /\ t.state = s.state
        /\ t.closedWithRst = s.closedWithRst /\ t.thrown = s.thrown
        /\ t.closedByUs = s.closedByUs /\ t.processedHeaders = s.processedHeaders
    BY <2>1, <2>2 DEF SameData, Streams
  <2>4. x.type = "RST_STREAM" => s.state = "IDLE"
    <3>1. s.state \in StateNames
      BY StreamTypes
    <3>. QED
      BY <1>3, <3>1 DEF Legal, StateNames
  <2>5. x.type = "HEADERS" => s.state # "IDLE"
    BY <1>3 DEF Legal
  <2>6. HearsState(s, t, x)
    BY <2>3, <2>4, <2>5 DEF HearsState, Done, Shut
  <2>7. Turns(s, t, <<>>, <<>>)
    BY <2>3, SameDataTurns
  <2>8. s.state \in {"IDLE", "HALF_CLOSED_REMOTE"}
    <3>1. s.state \in StateNames
      BY StreamTypes
    <3>. QED
      BY <1>3, <3>1 DEF Legal, StateNames
  <2>9. Heeds(s, t, x)
    BY <2>3, <2>4, <2>5, <2>8 DEF Heeds
  <2>. QED
    BY <1>3, <2>3, <2>6, <2>7, <2>9 DEF t, Answers, SameData
<1>. QED
  BY <1>1, <1>2, <1>3

\* The handlers of the frames leave the data alone.
LEMMA HandleSameData ==
  ASSUME NEW s \in Streams, NEW x \in Frames
  PROVE  LET t == Handle(s, x)
         IN  /\ SameData(s, t) /\ SameState(s, t)
             /\ t.processedHeaders <=> s.processedHeaders \/ x.type = "HEADERS"
             /\ ~(x.type = "HEADERS" /\ s.processedHeaders /\ ~x.end) => t.errors = s.errors
<1>. DEFINE t == Handle(s, x)
            errors1 == IF s.processedHeaders /\ ~x.end THEN s.errors \cup {"PROTOCOL_ERROR"}
                       ELSE s.errors
<1>1. t = IF x.type = "HEADERS" THEN [s EXCEPT !.processedHeaders = TRUE, !.errors = errors1]
          ELSE s
  BY Zenon DEF Handle
<1>2. /\ errors1 \in SUBSET ErrorNames
      /\ ~(s.processedHeaders /\ ~x.end) => errors1 = s.errors
  BY DEF Streams, ErrorNames
<1>. HIDE DEF t, errors1
<1>3. CASE x.type = "HEADERS"
  <2>1. t = [s EXCEPT !.processedHeaders = TRUE, !.errors = errors1]
    BY <1>1, <1>3
  <2>2. SameData(s, t) /\ SameState(s, t) /\ t.processedHeaders = TRUE /\ t.errors = errors1
    BY <1>2, <2>1, ZenonT(60) DEF SameData, SameState, Streams
  <2>. QED
    BY <1>2, <1>3, <2>2 DEF t
<1>4. CASE x.type # "HEADERS"
  <2>1. t = s
    BY <1>1, <1>4
  <2>. QED
    BY <1>4, <2>1 DEF SameData, SameState, t
<1>. QED
  BY <1>3, <1>4

\* From s the stream becomes t: it hears x and answers with Y.
Delivered(s, t, x, Y) ==
  /\ Turns(s, t, <<x>>, Y) /\ HearsState(s, t, x) /\ Heeds(s, t, x)
  /\ Y # <<>> => s.state = "CLOSED"
  /\ t.resetSent <=> s.resetSent \/ Y # <<>>
  /\ t.processedHeaders <=> s.processedHeaders \/ x.type = "HEADERS"
  /\ t.upstream.initialWindow = s.upstream.initialWindow
  /\ /\ Within(s, <<x>>) /\ Legal(s, FALSE, x)
     /\ ~(x.type = "HEADERS" /\ s.processedHeaders /\ ~x.end)
     => t.errors = s.errors

\* A frame that is delivered.
LEMMA DeliverTurns ==
  ASSUME NEW s \in Streams, NEW x \in Frames, s.closedWithRst => s.state = "CLOSED"
  PROVE  \E Y \in Answers : Delivered(s, EndTurn(Process(WriteUpstream(s, x), x)), x, Y)
<1>. DEFINE w == WriteUpstream(s, x)
            r == Transition(w, FALSE, x)
            h == Handle(r, x)
            t == EndTurn(h)
<1>1. Turns(s, w, <<x>>, <<>>) /\ SameState(s, w) /\ w \in Streams /\ Calm(s, w, <<x>>)
  BY WriteUpstreamTurns DEF Turns
<1>2. w.closedWithRst => w.state = "CLOSED"
  BY <1>1 DEF SameState
<1>. HIDE DEF w
<1>3. PICK Y \in Answers :
        /\ Turns(w, r, <<>>, Y) /\ HearsState(w, r, x) /\ Heeds(w, r, x)
        /\ Y # <<>> => w.state = "CLOSED"
        /\ r.resetSent <=> w.resetSent \/ Y # <<>>
        /\ r.processedHeaders = w.processedHeaders
        /\ r.upstream.initialWindow = w.upstream.initialWindow
        /\ Legal(w, FALSE, x) => r.errors = w.errors
  BY <1>1, <1>2, TransitionHeard
<1>4. r \in Streams
  BY <1>3 DEF Turns
<1>. HIDE DEF r
<1>5. /\ Turns(r, h, <<>>, <<>>) /\ SameState(r, h) /\ h \in Streams /\ h.upstream = r.upstream
      /\ h.processedHeaders <=> r.processedHeaders \/ x.type = "HEADERS"
      /\ ~(x.type = "HEADERS" /\ r.processedHeaders /\ ~x.end) => h.errors = r.errors
  BY <1>4, HandleSameData, SameDataTurns DEF SameData
<1>. HIDE DEF h
<1>6. /\ Turns(h, t, <<>>, <<>>) /\ SameState(h, t) /\ Calm(h, t, <<>>)
      /\ t.errors = h.errors
  BY <1>5, EndTurnTurns DEF Still
<1>. HIDE DEF t
<1>7. Turns(s, t, <<x>>, Y)
  <2>1. Turns(s, r, <<x>> \o <<>>, <<>> \o Y)
    BY <1>1, <1>3, TurnsGoOn
  <2>2. <<x>> \o <<>> = <<x>> /\ <<>> \o Y = Y
    BY OneFrame, ResetFrame, JoinEmpty
  <2>3. Turns(s, r, <<x>>, Y)
    BY <2>1, <2>2, Zenon
  <2>4. Turns(s, h, <<x>>, Y)
    BY <1>5, <2>3, TurnsRest
  <2>. QED
    BY <1>6, <2>4, TurnsRest
<1>8. HearsState(s, t, x) /\ Heeds(s, t, x)
  BY <1>1, <1>3, <1>5, <1>6 DEF HearsState, Heeds, SameState, Done, Shut
<1>9. (Y # <<>> => s.state = "CLOSED") /\ (t.resetSent <=> s.resetSent \/ Y # <<>>)
  BY <1>1, <1>3, <1>5, <1>6 DEF SameState
<1>10. Process(w, x) = h
  BY DEF Process, h, r
<1>11. /\ t.processedHeaders <=> s.processedHeaders \/ x.type = "HEADERS"
       /\ t.upstream.initialWindow = s.upstream.initialWindow
  BY <1>1, <1>3, <1>5, <1>6, Zenon DEF Calm
<1>12. ASSUME Within(s, <<x>>), Legal(s, FALSE, x),
              ~(x.type = "HEADERS" /\ s.processedHeaders /\ ~x.end)
       PROVE  t.errors = s.errors
  <2>1. Legal(w, FALSE, x)
    BY <1>1, <1>12 DEF Legal, LegalWhenClosed, SameState
  <2>. QED
    BY <1>1, <1>3, <1>5, <1>6, <1>12, <2>1, Zenon DEF Calm
<1>13. Delivered(s, t, x, Y)
  BY <1>7, <1>8, <1>9, <1>11, <1>12 DEF Delivered
<1>. QED
  BY <1>10, <1>13 DEF t, w

\* What was said stays said.
LEMMA SpokenSame ==
  ASSUME NEW s, NEW t, NEW u, NEW type, NEW end, Spoken(s, t, type, end), SameState(t, u)
  PROVE  Spoken(s, u, type, end)
BY DEF Spoken, SameState

\* A frame of the user.
LEMMA PushUpstreamTurns ==
  ASSUME NEW s \in Streams, NEW x \in Frames, x.inc = 0, UserSays(x.type, x.end),
         s.closedWithRst => s.state = "CLOSED"
  PROVE  LET t == PushUpstream(s, x)
         IN  /\ SaysState(s, t) /\ Spoken(s, t, x.type, x.end) /\ t.user = s.user
             /\ \E y \in Frames :
                  /\ Turns(s, t, <<>>, <<y>>)
                  /\ y.data = x.data /\ y.end = x.end /\ y.type = x.type
<1>. DEFINE after == Transition(s, TRUE, x)
            y == [x EXCEPT !.count = CountChange(s, after)]
            g == Push(after.upstream, y)
            t == [after EXCEPT !.upstream = g]
<1>1. SameData(s, after) /\ SaysState(s, after) /\ Spoken(s, after, x.type, x.end)
  BY TransitionSaid, TransitionSpoken
<1>2. PushUpstream(s, x) = t
  BY DEF PushUpstream
<1>. HIDE DEF after
<1>3. CountChange(s, after) \in Int
  BY DEF CountChange, activeState
<1>4. /\ y \in Frames /\ y.data = x.data /\ y.end = x.end /\ y.type = x.type /\ y.inc = 0
  BY <1>3 DEF Frames
<1>. HIDE DEF y
<1>5. after \in Streams /\ after.upstream \in Flows
  BY <1>1, StreamTypes DEF SameData
<1>6. FlowMoves(after.upstream, g, <<y>>, 0) /\ g \in Flows
  BY <1>4, <1>5, PushMoves DEF FlowMoves
<1>. HIDE DEF g
<1>7. /\ t \in Streams /\ t.upstream = g /\ Still(after, t)
      /\ t.input = after.input /\ t.busy = after.busy
  BY <1>5, <1>6, StreamOfFlow
<1>. HIDE DEF t
<1>8. Increments(<<y>>) = 0
  BY <1>4, OneFrame
<1>9. Turns(after, t, <<>>, <<y>>)
  BY <1>5, <1>6, <1>7, <1>8, TurnsUpstream DEF Still
<1>10. Turns(s, t, <<>>, <<y>>)
  BY <1>1, <1>9, SameDataTurns, TurnsStart
<1>11. SaysState(s, t) /\ t.user = s.user
  <2>1. t.upstream.initialWindow = after.upstream.initialWindow
    BY <1>6, <1>7 DEF FlowMoves
  <2>. QED
    BY <1>1, <1>7, <2>1 DEF SaysState, Still, SameState, Done, Shut, SameData
<1>12. Spoken(s, t, x.type, x.end)
  BY <1>1, <1>7, SpokenSame DEF Still
<1>. QED
  BY <1>2, <1>4, <1>10, <1>11, <1>12

\* What holds of a turn also holds at its end.
LEMMA SaidToTheEnd ==
  ASSUME NEW s, NEW r \in Streams, NEW X, NEW Y, Turns(s, r, X, Y)
  PROVE  LET t == EndTurn(r)
         IN  /\ Turns(s, t, X, Y) /\ Still(r, t) /\ Calm(r, t, <<>>)
             /\ t.upstream.initialWindow = r.upstream.initialWindow
BY EndTurnTurns, TurnsRest DEF Calm

\* The user's headers: one HEADERS frame is said.
LEMMA HeadersTurns ==
  ASSUME NEW s \in Streams, s.closedWithRst => s.state = "CLOSED"
  PROVE  LET t == EndTurn(Headers(s))
         IN  /\ SaysState(s, t) /\ Spoken(s, t, "HEADERS", FALSE) /\ t.user = s.user
             /\ \E y \in Opening :
                  /\ Turns(s, t, <<>>, <<y>>) /\ y.data = <<>> /\ ~y.end
<1>. DEFINE x == F("HEADERS")
            r == PushUpstream(s, x)
            t == EndTurn(r)
<1>1. x \in Frames
  BY PlainFrame DEF FrameTypes
<1>2. /\ x.inc = 0 /\ x.data = <<>> /\ x.end = FALSE /\ x.type = "HEADERS"
      /\ UserSays(x.type, x.end)
  BY DEF F, UserSays
<1>. HIDE DEF x
<1>3. PICK y \in Frames :
        /\ Turns(s, r, <<>>, <<y>>)
        /\ y.data = x.data /\ y.end = x.end /\ y.type = x.type
  BY <1>1, <1>2, PushUpstreamTurns
<1>4. /\ SaysState(s, r) /\ r \in Streams /\ r.user = s.user
      /\ Spoken(s, r, x.type, x.end)
  BY <1>1, <1>2, <1>3, PushUpstreamTurns DEF Turns
<1>. HIDE DEF r
<1>5. /\ Turns(s, t, <<>>, <<y>>) /\ Still(r, t)
      /\ t.upstream.initialWindow = r.upstream.initialWindow
  BY <1>3, <1>4, SaidToTheEnd
<1>. HIDE DEF t
<1>6. SaysState(s, t) /\ t.user = s.user
  BY <1>4, <1>5 DEF SaysState, Still, SameState, Done, Shut
<1>8. Spoken(s, t, "HEADERS", FALSE)
  BY <1>2, <1>4, <1>5, SpokenSame DEF Still
<1>7. y \in Opening /\ y.data = <<>> /\ ~y.end
  BY <1>2, <1>3 DEF Opening
<1>. QED
  BY <1>5, <1>6, <1>7, <1>8 DEF t, r, x, Headers

\* A chunk of the user: one DATA frame with its bytes is said.
LEMMA WriteTurns ==
  ASSUME NEW s \in Streams, NEW d \in Seq(Octet), s.closedWithRst => s.state = "CLOSED"
  PROVE  LET t == EndTurn(Write(s, d))
         IN  /\ SaysState(s, t) /\ Spoken(s, t, "DATA", FALSE) /\ t.user = s.user
             /\ \E y \in Frames :
                  /\ Turns(s, t, <<>>, <<y>>) /\ y.data = d /\ ~y.end /\ y.type = "DATA"
<1>. DEFINE x == Data(d)
            r == PushUpstream(s, x)
            w == Waiting(r)
            t == EndTurn(w)
<1>1. x \in Frames /\ x.data = d /\ x.type = "DATA" /\ x.end = FALSE
  BY DataFrame
<1>2. x.inc = 0 /\ UserSays(x.type, x.end)
  BY <1>1 DEF Frames, UserSays
<1>. HIDE DEF x
<1>3. PICK y \in Frames :
        /\ Turns(s, r, <<>>, <<y>>)
        /\ y.data = x.data /\ y.end = x.end /\ y.type = x.type
  BY <1>1, <1>2, PushUpstreamTurns
<1>4. /\ SaysState(s, r) /\ r \in Streams /\ r.user = s.user
      /\ Spoken(s, r, x.type, x.end)
  BY <1>1, <1>2, <1>3, PushUpstreamTurns DEF Turns
<1>. HIDE DEF r
<1>5. /\ SameData(r, w) /\ SameState(r, w)
      /\ w.processedHeaders = r.processedHeaders /\ w.errors = r.errors
  BY <1>4, ZenonT(60) DEF SameData, SameState, Waiting, Streams
<1>. HIDE DEF w
<1>6. Turns(s, w, <<>>, <<y>>) /\ w \in Streams
  BY <1>3, <1>5, SameDataTurns, TurnsRest DEF SameData
<1>7. /\ Turns(s, t, <<>>, <<y>>) /\ Still(w, t)
      /\ t.upstream.initialWindow = w.upstream.initialWindow
  BY <1>6, SaidToTheEnd
<1>. HIDE DEF t
<1>8. SaysState(s, t) /\ t.user = s.user
  <2>1. t.upstream.initialWindow = r.upstream.initialWindow
    BY <1>5, <1>7 DEF SameData
  <2>. QED
    BY <1>4, <1>5, <1>7, <2>1 DEF SaysState, Still, SameState, Done, Shut, SameData
<1>9. Spoken(s, t, "DATA", FALSE)
  BY <1>1, <1>4, <1>5, <1>7, SpokenSame DEF Still
<1>. QED
  BY <1>1, <1>3, <1>7, <1>8, <1>9 DEF t, w, r, x, Write

\* reset(): one RST_STREAM is said.
LEMMA ResetTurns ==
  ASSUME NEW s \in Streams, ~s.resetSent, s.closedWithRst => s.state = "CLOSED"
  PROVE  LET t == EndTurn(Reset(s))
         IN  /\ t.user = s.user /\ t.resetSent /\ Spoken(s, t, "RST_STREAM", FALSE)
             /\ (Done(t) => Done(s)) /\ (Shut(t) => Shut(s))
             /\ s.closedWithRst => t.closedWithRst
             /\ t.state = "IDLE" => s.state = "IDLE"
             /\ t.processedHeaders = s.processedHeaders /\ t.errors = s.errors
             /\ t.upstream.initialWindow = s.upstream.initialWindow
             /\ \E y \in Resets :
                  /\ Turns(s, t, <<>>, <<y>>) /\ y.data = <<>> /\ ~y.end
<1>. DEFINE x == F("RST_STREAM")
            z == [s EXCEPT !.resetSent = TRUE]
            r == PushUpstream(z, x)
            t == EndTurn(r)
<1>1. /\ x \in Frames /\ x.inc = 0 /\ x.data = <<>> /\ x.end = FALSE /\ x.type = "RST_STREAM"
      /\ UserSays(x.type, x.end)
  BY ResetFrame DEF F, UserSays
<1>. HIDE DEF x
<1>2. /\ SameData(s, z) /\ z \in Streams /\ z.resetSent /\ z.state = s.state
      /\ z.closedWithRst = s.closedWithRst /\ z.thrown = s.thrown
      /\ z.closedByUs = s.closedByUs /\ z.processedHeaders = s.processedHeaders
      /\ z.errors = s.errors
  BY DEF SameData, Streams
<1>3. Reset(s) = r
  BY DEF Reset, r, z, x
<1>. HIDE DEF z
<1>4. PICK y \in Frames :
        /\ Turns(z, r, <<>>, <<y>>)
        /\ y.data = x.data /\ y.end = x.end /\ y.type = x.type
  BY <1>1, <1>2, PushUpstreamTurns, ZenonT(60)
<1>5. /\ SaysState(z, r) /\ r \in Streams /\ r.user = z.user
      /\ Spoken(z, r, x.type, x.end)
  BY <1>1, <1>2, <1>4, PushUpstreamTurns DEF Turns
<1>. HIDE DEF r
<1>6. Turns(s, r, <<>>, <<y>>)
  BY <1>2, <1>4, SameDataTurns, TurnsStart
<1>7. /\ Turns(s, t, <<>>, <<y>>) /\ Still(r, t)
      /\ t.upstream.initialWindow = r.upstream.initialWindow
  BY <1>5, <1>6, SaidToTheEnd
<1>. HIDE DEF t
<1>8. /\ t.user = s.user /\ t.resetSent /\ (Done(t) => Done(s)) /\ (Shut(t) => Shut(s))
      /\ s.closedWithRst => t.closedWithRst
      /\ t.state = "IDLE" => s.state = "IDLE"
      /\ t.processedHeaders = s.processedHeaders /\ t.errors = s.errors
      /\ t.upstream.initialWindow = s.upstream.initialWindow
  BY <1>2, <1>5, <1>7 DEF SaysState, Still, SameState, Done, Shut, SameData
<1>9. y \in Resets /\ y.data = <<>> /\ ~y.end
  BY <1>1, <1>4 DEF Resets
<1>10. Spoken(s, t, "RST_STREAM", FALSE)
  <2>1. Spoken(z, t, "RST_STREAM", FALSE)
    BY <1>1, <1>5, <1>7, SpokenSame DEF Still
  <2>. QED
    BY <1>2, <2>1 DEF Spoken
<1>. QED
  BY <1>3, <1>7, <1>8, <1>9, <1>10 DEF t

-----------------------------------------------------------------------------
(* The end of the user, what the user reads, and the flow.                 *)

\* Instead of a frame of its own the end gets the mark on the last one.
EndMarked(s, t) ==
  /\ s \in Streams /\ t \in Streams /\ Heard(s, t, <<>>)
  /\ \E M : Marked(Content(s.upstream), M) /\ Alike(Content(t.upstream), M)
  /\ Given(t) = Given(s) /\ Held(t) = Held(s)
  /\ Orderly(s.upstream, t.upstream, <<>>)

\* A stream whose last frame was marked, up to the end of the turn.
LEMMA MarkedTurn ==
  ASSUME NEW s \in Streams, LastQueued(s.upstream) # <<>>,
         Last(LastQueued(s.upstream)).type \in {"DATA", "HEADERS"}, NEW t,
         Turns([s EXCEPT !.upstream = MarkLast(@)], t, <<>>, <<>>)
  PROVE  EndMarked(s, t)
<1>. DEFINE f == s.upstream
            g == MarkLast(f)
            z == [s EXCEPT !.upstream = g]
            M == Content(g)
<1>1. f \in Flows /\ Content(f) \in Seq(Frames) /\ s.input \in Seq(Frames) /\ s.busy \in Pending
  BY StreamTypes
<1>2. /\ g \in Flows /\ Marked(Content(f), M) /\ Credit(g) = Credit(f)
      /\ g.received = f.received /\ g.initialWindow = f.initialWindow
      /\ Orderly(f, g, <<>>)
  BY <1>1, MarkLastMoves
<1>3. Turns(z, t, <<>>, <<>>)
  OBVIOUS
<1>. HIDE DEF g
<1>4. /\ z \in Streams /\ z.upstream = g /\ Still(s, z)
      /\ z.input = s.input /\ z.busy = s.busy
  BY <1>2, StreamOfFlow
<1>. HIDE DEF z
<1>5. Heard(s, z, <<>>)
  BY <1>4, HeardNothing DEF Still
<1>6. t \in Streams /\ Heard(z, t, <<>>)
  BY <1>3 DEF Turns
<1>7. Heard(s, t, <<>>)
  <2>1. Heard(s, t, <<>> \o <<>>)
    BY <1>4, <1>5, <1>6, HeardGoesOn, EmptyList
  <2>2. <<>> \o <<>> = <<>>
    BY JoinEmpty, EmptyList
  <2>. QED
    BY <2>1, <2>2, Zenon
<1>8. Alike(Content(t.upstream), M)
  <2>1. M \in Seq(Frames)
    BY <1>2 DEF Marked
  <2>2. M \o <<>> = M
    BY <2>1, JoinEmpty
  <2>3. Alike(Content(t.upstream), M \o <<>>)
    BY <1>3, <1>4, Zenon DEF Turns
  <2>. QED
    BY <2>2, <2>3, Zenon
<1>9. Given(z) = Given(s)
  BY <1>2, <1>4 DEF Given
<1>10. Held(z) = Held(s)
  <2>1. Increments(Content(g)) = Increments(Content(f))
    BY <1>2 DEF Marked
  <2>. QED
    BY <1>2, <1>4, <2>1 DEF Held
<1>11. Given(t) = Given(z) /\ Held(t) = Held(z)
  <2>1. Given(t) = Given(z) + 0 /\ Held(t) = Held(z) + 0
    BY <1>3, EmptyList, EmptySeq DEF Turns
  <2>2. Given(z) \in Int /\ Held(z) \in Int
    BY <1>4, StreamNumbers
  <2>. QED
    BY <2>1, <2>2
<1>12. Orderly(f, t.upstream, <<>>)
  <2>1. Orderly(g, t.upstream, <<>>)
    BY <1>3, <1>4 DEF Turns
  <2>2. Orderly(f, t.upstream, <<>> \o <<>>)
    BY <1>2, <2>1, OrderlyChain, EmptyList
  <2>3. <<>> \o <<>> = <<>>
    BY JoinEmpty, EmptyList
  <2>. QED
    BY <2>2, <2>3, Zenon
<1>. QED
  BY <1>2, <1>6, <1>7, <1>8, <1>9, <1>10, <1>11, <1>12 DEF EndMarked

\* The end of the user is a mark on the last frame that waits, or an empty DATA
\* frame of its own.
LEMMA FinishTurns ==
  ASSUME NEW s \in Streams, s.closedWithRst => s.state = "CLOSED"
  PROVE  LET t == EndTurn(Finishing(s))
         IN  /\ SaysState(s, t) /\ Spoken(s, t, "DATA", TRUE) /\ t.user = s.user
             /\ \/ EndMarked(s, t)
                \/ \E y \in Ended : Turns(s, t, <<>>, <<y>>) /\ y.data = <<>> /\ y.type = "DATA"
<1>. DEFINE x == [Data(<<>>) EXCEPT !.end = TRUE]
            q == LastQueued(s.upstream)
            z == [s EXCEPT !.upstream = MarkLast(@)]
            t == EndTurn(Finishing(s))
<1>1. /\ x \in Frames /\ x.inc = 0 /\ x.data = <<>> /\ x.type = "DATA" /\ x.end = TRUE
      /\ UserSays(x.type, x.end)
  <2>. DEFINE d == <<>>
              y == Data(d)
  <2>1. y \in Frames /\ y.data = d /\ y.type = "DATA"
    BY NoOctets, DataFrame
  <2>2. d = <<>>
    OBVIOUS
  <2>3. x = [y EXCEPT !.end = TRUE]
    OBVIOUS
  <2>. HIDE DEF d, y, x
  <2>. QED
    BY <2>1, <2>2, <2>3 DEF Frames, UserSays
<1>. HIDE DEF x
<1>2. CASE q # <<>> /\ Last(q).type \in {"DATA", "HEADERS"}
  <2>. DEFINE r == Transition(z, TRUE, x)
  <2>1. Finishing(s) = r
    BY <1>2 DEF Finishing, x
  <2>2. /\ z \in Streams /\ SameState(s, z) /\ z.user = s.user
        /\ z.processedHeaders = s.processedHeaders /\ z.errors = s.errors
        /\ z.upstream.initialWindow = s.upstream.initialWindow
    <3>. DEFINE g == MarkLast(s.upstream)
    <3>1. g \in Flows /\ g.initialWindow = s.upstream.initialWindow
      BY <1>2, StreamTypes, MarkLastMoves
    <3>2. z = [s EXCEPT !.upstream = g]
      OBVIOUS
    <3>. HIDE DEF g, z
    <3>. QED
      BY <3>1, <3>2, StreamOfFlow DEF Still
  <2>3. z.closedWithRst => z.state = "CLOSED"
    BY <2>2 DEF SameState
  <2>4. /\ LastQueued(s.upstream) # <<>>
        /\ Last(LastQueued(s.upstream)).type \in {"DATA", "HEADERS"}
    BY <1>2
  <2>. HIDE DEF z
  <2>5. SameData(z, r) /\ SaysState(z, r) /\ Spoken(z, r, "DATA", TRUE)
    BY <1>1, <2>2, <2>3, TransitionSaid, TransitionSpoken
  <2>. HIDE DEF r
  <2>6. /\ Turns(z, EndTurn(r), <<>>, <<>>) /\ Still(r, EndTurn(r))
        /\ EndTurn(r).upstream.initialWindow = r.upstream.initialWindow
    BY <2>5, SameDataTurns, SaidToTheEnd DEF SameData
  <2>7. EndMarked(s, EndTurn(r))
    BY <2>4, <2>6, MarkedTurn DEF z
  <2>8. SaysState(s, EndTurn(r)) /\ EndTurn(r).user = s.user
    BY <2>2, <2>5, <2>6 DEF SaysState, Still, SameState, Done, Shut, SameData
  <2>9. Spoken(s, EndTurn(r), "DATA", TRUE)
    <3>1. Spoken(z, EndTurn(r), "DATA", TRUE)
      BY <2>5, <2>6, SpokenSame DEF Still
    <3>. QED
      BY <2>2, <3>1 DEF Spoken, SameState
  <2>. QED
    BY <2>1, <2>7, <2>8, <2>9
<1>3. CASE ~(q # <<>> /\ Last(q).type \in {"DATA", "HEADERS"})
  <2>. DEFINE r == PushUpstream(s, x)
  <2>1. Finishing(s) = r
    BY <1>3, Zenon DEF Finishing, x
  <2>2. PICK y \in Frames :
          /\ Turns(s, r, <<>>, <<y>>)
          /\ y.data = x.data /\ y.end = x.end /\ y.type = x.type
    BY <1>1, PushUpstreamTurns
  <2>3. /\ SaysState(s, r) /\ r \in Streams /\ r.user = s.user
        /\ Spoken(s, r, x.type, x.end)
    BY <1>1, <2>2, PushUpstreamTurns DEF Turns
  <2>. HIDE DEF r
  <2>4. /\ Turns(s, EndTurn(r), <<>>, <<y>>) /\ Still(r, EndTurn(r))
        /\ EndTurn(r).upstream.initialWindow = r.upstream.initialWindow
    BY <2>2, <2>3, SaidToTheEnd
  <2>5. SaysState(s, EndTurn(r)) /\ EndTurn(r).user = s.user
    BY <2>3, <2>4 DEF SaysState, Still, SameState, Done, Shut
  <2>6. y \in Ended /\ y.data = <<>> /\ y.type = "DATA"
    BY <1>1, <2>2 DEF Ended
  <2>7. Spoken(s, EndTurn(r), "DATA", TRUE)
    BY <1>1, <2>3, <2>4, SpokenSame DEF Still
  <2>. QED
    BY <2>1, <2>4, <2>5, <2>6, <2>7
<1>. QED
  BY <1>2, <1>3

\* The user reads what it has, r, and leaves z.
LEMMA UserReadTurns ==
  ASSUME NEW s \in Streams
  PROVE  LET r == Readied(s)
             z == [r EXCEPT !.user = <<>>]
             t == EndTurn(UserRead(s))
         IN  /\ Turns(s, r, <<>>, <<>>) /\ SameState(s, r)
             /\ SameState(r, z) /\ z \in Streams /\ z.user = <<>> /\ z.input = r.input
             /\ z.ended = r.ended /\ z.upstream = r.upstream /\ z.busy = r.busy
             /\ Turns(z, t, <<>>, <<>>) /\ SameState(z, t) /\ Calm(s, t, <<>>)
<1>. DEFINE r == Readied(s)
            z == [r EXCEPT !.user = <<>>]
            v == Readied(z)
            t == EndTurn(v)
<1>1. Turns(s, r, <<>>, <<>>) /\ SameState(s, r) /\ r \in Streams /\ Calm(s, r, <<>>)
  BY ReadiedTurns DEF Turns
<1>2. UserRead(s) = v
  BY DEF UserRead
<1>. HIDE DEF r
<1>3. /\ SameState(r, z) /\ z \in Streams /\ z.user = <<>> /\ z.input = r.input
      /\ z.ended = r.ended /\ z.upstream = r.upstream /\ z.busy = r.busy
      /\ z.processedHeaders = r.processedHeaders /\ z.errors = r.errors
  BY <1>1, NoOctets DEF Streams, SameState
<1>. HIDE DEF z
<1>4. Turns(z, v, <<>>, <<>>) /\ SameState(z, v) /\ v \in Streams /\ Calm(z, v, <<>>)
  BY <1>3, ReadiedTurns DEF Turns
<1>. HIDE DEF v
<1>5. /\ Turns(z, t, <<>>, <<>>) /\ SameState(z, t)
      /\ t.processedHeaders = v.processedHeaders /\ t.errors = v.errors
      /\ t.upstream.initialWindow = v.upstream.initialWindow
  BY <1>4, SaidToTheEnd DEF Still, SameState
<1>. HIDE DEF t
<1>6. /\ t.processedHeaders = s.processedHeaders
      /\ t.upstream.initialWindow = s.upstream.initialWindow
  BY <1>1, <1>3, <1>4, <1>5, Zenon DEF Calm
<1>7. ASSUME Within(s, <<>>) PROVE t.errors = s.errors
  <2>1. Given(z) = Given(r)
    BY <1>3 DEF Given
  <2>2. Given(r) = Given(s) + 0
    BY <1>1, EmptyList DEF Turns
  <2>3. Given(s) \in Int
    BY StreamNumbers
  <2>4. Given(z) = Given(s) /\ z.upstream.initialWindow = s.upstream.initialWindow
    BY <1>1, <1>3, <2>1, <2>2, <2>3 DEF Calm
  <2>5. Within(z, <<>>)
    BY <1>7, <2>4, Zenon DEF Within
  <2>6. v.errors = z.errors
    BY <1>4, <2>5, Zenon DEF Calm
  <2>7. r.errors = s.errors
    BY <1>1, <1>7, Zenon DEF Calm
  <2>. QED
    BY <1>3, <1>5, <2>6, <2>7
<1>8. Calm(s, t, <<>>)
  BY <1>6, <1>7, Zenon DEF Calm
<1>. QED
  BY <1>1, <1>2, <1>3, <1>5, <1>8 DEF t, z, r

\* Neither bytes nor a mark.
Harmless(Y) ==
  /\ Y \in Seq(Frames) /\ Bytes(Y) = <<>> /\ ~Late(Y) /\ ~Early(Y)
  /\ \A S \in Marks : ~Some(Y, S)
  /\ SameTalk(Y, <<>>)

\* The timer gives the received bytes back, in one WINDOW_UPDATE.
LEMMA RestoreTurns ==
  ASSUME NEW s \in Streams
  PROVE  LET t == EndTurn([s EXCEPT !.upstream = RestoreWindow(@)])
         IN  /\ SameState(s, t) /\ t.user = s.user
             /\ t.processedHeaders = s.processedHeaders /\ t.errors = s.errors
             /\ t.upstream.initialWindow = s.upstream.initialWindow
             /\ \E Y : /\ Harmless(Y) /\ Turns(s, t, <<>>, Y)
                       /\ s.upstream.received = 0 => Y = <<>>
<1>. DEFINE f == s.upstream
            g == RestoreWindow(f)
            r == [s EXCEPT !.upstream = g]
            y == WindowUpdate(f.received)
            t == EndTurn(r)
<1>1. f \in Flows /\ Content(f) \in Seq(Frames) /\ s.input \in Seq(Frames) /\ s.busy \in Pending
  BY StreamTypes
<1>2. /\ g \in Flows /\ Credit(g) = Credit(f) /\ g.initialWindow = f.initialWindow
      /\ \/ /\ Alike(Content(g), Content(f)) /\ g.received = f.received
            /\ Orderly(f, g, <<>>)
         \/ /\ Alike(Content(g), Content(f) \o <<y>>)
            /\ y \in Frames /\ g.received = 0 /\ f.received # 0
            /\ Orderly(f, g, <<y>>)
  BY <1>1, RestoreWindowMoves
<1>3. /\ y.inc = f.received /\ y.data = <<>> /\ ~y.end /\ y.type = "WINDOW_UPDATE"
  BY DEF WindowUpdate, F
<1>. HIDE DEF g, y
<1>4. /\ r \in Streams /\ r.upstream = g /\ Still(s, r) /\ r.input = s.input /\ r.busy = s.busy
  BY <1>2, StreamOfFlow
<1>. HIDE DEF r
<1>5. Heard(s, r, <<>>)
  BY <1>4, HeardNothing DEF Still
<1>6. /\ Given(s) \in Int /\ Held(s) \in Int /\ Increments(<<>>) = 0 /\ Len(Bytes(<<>>)) = 0
      /\ <<>> \in Seq(Frames)
  BY StreamNumbers, EmptyList, EmptySeq
<1>7. Given(r) = Given(s) + Increments(<<>>)
  <2>1. Given(r) = Given(s)
    BY <1>2, <1>4 DEF Given
  <2>. QED
    BY <1>6, <2>1
<1>8. /\ f.received \in Nat /\ Increments(Content(f)) \in Int /\ Len(Bytes(s.input)) \in Nat
      /\ Len(FlattenSeq(s.busy)) \in Nat
  BY <1>1, FlowNumbers, IncrementsType, BytesType, LenProperties, PendingBytes
<1>9. PICK Y : /\ Y \in {<<>>, <<y>>} /\ Harmless(Y)
               /\ Alike(Content(g), Content(f) \o Y)
               /\ Held(r) = Held(s) /\ Orderly(f, g, Y)
               /\ f.received = 0 => Y = <<>>
  <2>1. CASE /\ Alike(Content(g), Content(f)) /\ g.received = f.received
             /\ Orderly(f, g, <<>>)
    <3>1. Alike(Content(g), Content(f) \o <<>>)
      BY <1>1, <2>1, JoinEmpty
    <3>2. Held(r) = Held(s)
      BY <1>4, <2>1 DEF Held, Alike
    <3>3. Harmless(<<>>)
      <4>1. SameTalk(<<>>, <<>>)
        BY DEF SameTalk
      <4>. QED
        BY <4>1, EmptyList DEF Harmless
    <3>. QED
      BY <2>1, <3>1, <3>2, <3>3
  <2>2. CASE /\ Alike(Content(g), Content(f) \o <<y>>) /\ y \in Frames /\ g.received = 0
             /\ f.received # 0 /\ Orderly(f, g, <<y>>)
    <3>1. <<y>> \in Seq(Frames) /\ Increments(<<y>>) = f.received
      BY <1>3, <2>2, OneFrame
    <3>2. Harmless(<<y>>)
      <4>1. \A S \in Marks : y \notin S
        BY <1>3 DEF Marks, Ended, Resets, Ending, Opening
      <4>2. y \notin Ending
        BY <4>1 DEF Marks
      <4>. QED
        <5>1. SameTalk(<<y>>, <<>>)
          BY <1>3, <2>2, TalkOfOne DEF Talk
        <5>. QED
          BY <1>3, <2>2, <4>1, <4>2, <5>1, OneFrame DEF Harmless
    <3>3. Increments(Content(g)) = Increments(Content(f)) + f.received
      <4>1. Increments(Content(g)) = Increments(Content(f) \o <<y>>)
        BY <2>2 DEF Alike
      <4>2. Increments(Content(f) \o <<y>>) = Increments(Content(f)) + Increments(<<y>>)
        BY <1>1, <3>1, IncrementsJoin
      <4>. QED
        BY <3>1, <4>1, <4>2
    <3>4. Held(r) = Len(Bytes(s.input)) + Len(FlattenSeq(s.busy)) + 0 + Increments(Content(g))
      BY <1>4, <2>2 DEF Held
    <3>5. Held(r) = Held(s)
      BY <1>8, <3>3, <3>4 DEF Held
    <3>. QED
      BY <2>2, <3>2, <3>5
  <2>. QED
    BY <1>2, <2>1, <2>2
<1>10. Turns(s, r, <<>>, Y)
  <2>1. Held(r) = Held(s) + Len(Bytes(<<>>))
    BY <1>6, <1>9
  <2>. QED
    BY <1>4, <1>5, <1>6, <1>7, <1>9, <2>1 DEF Turns, Harmless
<1>11. /\ Turns(s, t, <<>>, Y) /\ Still(r, t)
       /\ t.upstream.initialWindow = r.upstream.initialWindow
  BY <1>4, <1>10, SaidToTheEnd
<1>12. /\ SameState(s, t) /\ t.user = s.user
       /\ t.processedHeaders = s.processedHeaders /\ t.errors = s.errors
       /\ t.upstream.initialWindow = s.upstream.initialWindow
  BY <1>2, <1>4, <1>11 DEF Still, SameState
<1>. QED
  BY <1>9, <1>11, <1>12 DEF t, r, g

\* A new initial window moves the window with it: the account stays.
LEMMA SettingsTurns ==
  ASSUME NEW s \in Streams, NEW size \in Int
  PROVE  LET t == EndTurn(Send([s EXCEPT !.upstream = SetInitialWindow(@, size)]))
         IN  /\ SameState(s, t) /\ t.user = s.user /\ Turns(s, t, <<>>, <<>>)
             /\ t.processedHeaders = s.processedHeaders /\ t.errors = s.errors
             /\ t.upstream.initialWindow = size
<1>. DEFINE f == s.upstream
            g == SetInitialWindow(f, size)
            r == [s EXCEPT !.upstream = g]
            v == Send(r)
            t == EndTurn(v)
<1>1. f \in Flows /\ Content(f) \in Seq(Frames) /\ s.input \in Seq(Frames)
  BY StreamTypes
<1>2. /\ g \in Flows /\ Alike(Content(g), Content(f))
      /\ Credit(g) - g.initialWindow = Credit(f) - f.initialWindow
      /\ g.received = f.received /\ g.initialWindow = size /\ Orderly(f, g, <<>>)
  BY <1>1, SetInitialWindowMoves
<1>. HIDE DEF g
<1>3. /\ r \in Streams /\ r.upstream = g /\ Still(s, r) /\ r.input = s.input /\ r.busy = s.busy
  BY <1>2, StreamOfFlow
<1>. HIDE DEF r
<1>4. Heard(s, r, <<>>)
  BY <1>3, HeardNothing DEF Still
<1>5. /\ Given(s) \in Int /\ Held(s) \in Int /\ Increments(<<>>) = 0 /\ Len(Bytes(<<>>)) = 0
      /\ <<>> \in Seq(Frames)
  BY StreamNumbers, EmptyList, EmptySeq
<1>6. Given(r) = Given(s) + Increments(<<>>)
  <2>1. Increments(s.input) \in Int
    BY <1>1, IncrementsType
  <2>2. Given(r) = Credit(g) + Increments(s.input) - g.initialWindow
    BY <1>3 DEF Given
  <2>3. Given(s) = Credit(f) + Increments(s.input) - f.initialWindow
    BY DEF Given
  <2>4. /\ Credit(g) \in Int /\ g.initialWindow \in Int /\ Credit(f) \in Int
        /\ f.initialWindow \in Int
    BY <1>1, <1>2, FlowNumbers
  <2>5. Credit(g) - g.initialWindow = Credit(f) - f.initialWindow
    BY <1>2
  <2>. QED
    BY <1>5, <2>1, <2>2, <2>3, <2>4, <2>5, SMTT(40)
<1>7. Held(r) = Held(s) + Len(Bytes(<<>>))
  <2>1. Held(r) = Held(s)
    BY <1>2, <1>3 DEF Held, Alike
  <2>. QED
    BY <1>5, <2>1
<1>8. Alike(Content(g), Content(f) \o <<>>)
  BY <1>1, <1>2, JoinEmpty
<1>9. Turns(s, r, <<>>, <<>>)
  BY <1>2, <1>3, <1>4, <1>5, <1>6, <1>7, <1>8 DEF Turns
<1>10. /\ Turns(s, v, <<>>, <<>>) /\ Still(r, v) /\ v \in Streams
       /\ v.upstream.initialWindow = r.upstream.initialWindow
  <2>1. /\ Turns(r, v, <<>>, <<>>) /\ Still(r, v)
        /\ v.upstream.initialWindow = r.upstream.initialWindow
    BY <1>3, SendTurns DEF Calm
  <2>. HIDE DEF v
  <2>2. v \in Streams
    BY <2>1 DEF Turns
  <2>. QED
    BY <1>9, <2>1, <2>2, TurnsRest
<1>. HIDE DEF v
<1>11. /\ Turns(s, t, <<>>, <<>>) /\ Still(v, t)
       /\ t.upstream.initialWindow = v.upstream.initialWindow
  BY <1>10, SaidToTheEnd
<1>12. /\ SameState(s, t) /\ t.user = s.user
       /\ t.processedHeaders = s.processedHeaders /\ t.errors = s.errors
       /\ t.upstream.initialWindow = size
  BY <1>2, <1>3, <1>10, <1>11 DEF Still, SameState
<1>. QED
  BY <1>11, <1>12 DEF t, v, r, g

\* The connection takes the frame x of the stream.
Forwarded(s, t, x) ==
  /\ s \in Streams /\ t \in Streams /\ x \in Frames /\ Heard(s, t, <<>>)
  /\ Alike(<<x>> \o Content(t.upstream), Content(s.upstream))
  /\ Given(t) + Len(x.data) = Given(s)
  /\ Held(t) + x.inc = Held(s)
  /\ Leads(s.upstream.buffer) => x \in Opening
  /\ Content(s.upstream) # <<>>

\* What the connection takes leaves the stream, and nothing else does.
LEMMA TakenForwards ==
  ASSUME NEW s \in Streams, NEW f \in Flows, NEW g \in Flows, NEW x \in Frames,
         FlowMoves(s.upstream, f, <<>>, 0),
         Alike(<<x>> \o Content(g), Content(f)), Credit(g) + Len(x.data) = Credit(f),
         g.received = f.received, g.initialWindow = f.initialWindow,
         Leads(f.buffer) => x \in Opening, Content(f) # <<>>,
         NEW t, Turns([s EXCEPT !.upstream = g], t, <<>>, <<>>)
  PROVE  Forwarded(s, t, x)
<1>. DEFINE u == s.upstream
            z == [s EXCEPT !.upstream = g]
<1>1. /\ u \in Flows /\ Content(u) \in Seq(Frames) /\ s.input \in Seq(Frames)
      /\ s.busy \in Pending /\ Content(g) \in Seq(Frames)
  BY StreamTypes, FlowTypes
<1>2. /\ Alike(Content(f), Content(u) \o <<>>) /\ Credit(f) = Credit(u) + 0
      /\ f.received = u.received /\ f.initialWindow = u.initialWindow
      /\ Orderly(u, f, <<>>)
  BY DEF FlowMoves
<1>3. Turns(z, t, <<>>, <<>>)
  OBVIOUS
<1>4. /\ z \in Streams /\ z.upstream = g /\ Still(s, z)
      /\ z.input = s.input /\ z.busy = s.busy
  BY StreamOfFlow
<1>. HIDE DEF z
<1>5. Heard(s, t, <<>>)
  <2>1. Heard(s, z, <<>>)
    BY <1>4, HeardNothing DEF Still
  <2>2. t \in Streams /\ Heard(z, t, <<>>)
    BY <1>3 DEF Turns
  <2>3. Heard(s, t, <<>> \o <<>>)
    BY <1>4, <2>1, <2>2, HeardGoesOn, EmptyList
  <2>4. <<>> \o <<>> = <<>>
    BY JoinEmpty, EmptyList
  <2>. QED
    BY <2>3, <2>4, Zenon
<1>6. <<x>> \in Seq(Frames) /\ Bytes(<<x>>) = x.data /\ Increments(<<x>>) = x.inc
  BY OneFrame
<1>7. Alike(Content(f), Content(u))
  <2>1. Content(u) \o <<>> = Content(u)
    BY <1>1, JoinEmpty
  <2>. QED
    BY <1>2, <2>1, Zenon
<1>8. Alike(<<x>> \o Content(t.upstream), Content(u))
  <2>1. Content(g) \o <<>> = Content(g)
    BY <1>1, JoinEmpty
  <2>2. Alike(Content(t.upstream), Content(g) \o <<>>)
    BY <1>3, <1>4, Zenon DEF Turns
  <2>3. Alike(Content(t.upstream), Content(g))
    BY <2>1, <2>2, Zenon
  <2>4. Alike(<<x>> \o Content(t.upstream), <<x>> \o Content(g))
    BY <1>6, <2>3, AlikeSelf, AlikeJoin
  <2>5. Alike(<<x>> \o Content(t.upstream), Content(f))
    BY <2>4, AlikeChain
  <2>. QED
    BY <1>7, <2>5, AlikeChain
<1>9. Given(t) + Len(x.data) = Given(s)
  <2>1. Given(z) = Credit(g) + Increments(s.input) - g.initialWindow
    BY <1>4 DEF Given
  <2>2. Given(s) = Credit(u) + Increments(s.input) - u.initialWindow
    BY DEF Given
  <2>3. Given(t) = Given(z) + 0
    BY <1>3, EmptyList DEF Turns
  <2>4. /\ Credit(g) \in Int /\ Credit(u) \in Int /\ u.initialWindow \in Int
        /\ Increments(s.input) \in Int /\ Len(x.data) \in Int
    BY <1>1, FlowNumbers, IncrementsType, LenProperties, SMTT(40) DEF Frames
  <2>5. Credit(g) + Len(x.data) = Credit(u) + 0 /\ g.initialWindow = u.initialWindow
    BY <1>2
  <2>. HIDE DEF u
  <2>. QED
    BY <2>1, <2>2, <2>3, <2>4, <2>5
<1>10. Held(t) + x.inc = Held(s)
  <2>1. Held(z) = Len(Bytes(s.input)) + Len(FlattenSeq(s.busy)) + g.received
                  + Increments(Content(g))
    BY <1>4 DEF Held
  <2>2. Held(s) = Len(Bytes(s.input)) + Len(FlattenSeq(s.busy)) + u.received
                  + Increments(Content(u))
    BY DEF Held
  <2>3. Held(t) = Held(z) + 0
    BY <1>3, EmptyList, EmptySeq DEF Turns
  <2>4. Increments(Content(u)) = x.inc + Increments(Content(g))
    <3>1. Increments(<<x>> \o Content(g)) = Increments(<<x>>) + Increments(Content(g))
      BY <1>1, <1>6, IncrementsJoin
    <3>2. Increments(<<x>> \o Content(g)) = Increments(Content(u))
      BY <1>7 DEF Alike
    <3>. QED
      BY <1>6, <3>1, <3>2
  <2>5. /\ u.received \in Int /\ Increments(Content(g)) \in Int /\ Len(Bytes(s.input)) \in Int
        /\ Len(FlattenSeq(s.busy)) \in Int /\ x.inc \in Int
    BY <1>1, FlowNumbers, IncrementsType, BytesType, LenProperties, PendingBytes,
       SMTT(40) DEF Frames
  <2>6. g.received = u.received
    BY <1>2
  <2>. HIDE DEF u
  <2>. QED
    BY <2>1, <2>2, <2>3, <2>4, <2>5, <2>6
<1>11. t \in Streams
  BY <1>3 DEF Turns
<1>12. (Leads(u.buffer) => x \in Opening) /\ Content(u) # <<>>
  BY <1>2 DEF Orderly
<1>. QED
  BY <1>5, <1>8, <1>9, <1>10, <1>11, <1>12 DEF Forwarded

\* The connection takes the first frame, or the first part of it.
LEMMA ForwardTurns ==
  ASSUME NEW s \in Streams, NEW limit \in Nat \ {0}
  PROVE  LET f == Polled(s.upstream)
             found == f.buffer # <<>>
             x == TakeFrame(f, limit).frame
             t == EndTurn(Send([s EXCEPT !.upstream = IF found THEN Taken(f, limit) ELSE f]))
         IN  /\ SameState(s, t) /\ t.user = s.user
             /\ t.processedHeaders = s.processedHeaders /\ t.errors = s.errors
             /\ t.upstream.initialWindow = s.upstream.initialWindow
             /\ ~found => Turns(s, t, <<>>, <<>>)
             /\ found => Forwarded(s, t, x)
<1>. DEFINE u == s.upstream
            f == Polled(u)
            found == f.buffer # <<>>
            x == TakeFrame(f, limit).frame
            g == IF found THEN Taken(f, limit) ELSE f
            r == [s EXCEPT !.upstream = g]
            v == Send(r)
            t == EndTurn(v)
<1>1. FlowMoves(u, f, <<>>, 0) /\ f \in Flows
  BY StreamTypes, PolledMoves DEF FlowMoves
<1>. HIDE DEF f
<1>2. found => /\ x \in Frames /\ g \in Flows
               /\ Alike(<<x>> \o Content(g), Content(f))
               /\ Credit(g) + Len(x.data) = Credit(f)
               /\ g.received = f.received /\ g.initialWindow = f.initialWindow
               /\ (Leads(f.buffer) => x \in Opening) /\ Content(f) # <<>>
  <2>1. SUFFICES ASSUME found
                 PROVE  LET h == Taken(f, limit)
                        IN  /\ x \in Frames /\ h \in Flows
                            /\ Alike(<<x>> \o Content(h), Content(f))
                            /\ Credit(h) + Len(x.data) = Credit(f)
                            /\ h.received = f.received /\ h.initialWindow = f.initialWindow
                            /\ (Leads(f.buffer) => x \in Opening) /\ Content(f) # <<>>
    OBVIOUS
  <2>. QED
    BY <1>1, <2>1, TakenMoves
<1>3. g \in Flows /\ (~found => g = f)
  BY <1>1, <1>2
<1>9. g.initialWindow = u.initialWindow
  BY <1>1, <1>2, <1>3 DEF FlowMoves
<1>. HIDE DEF found, x, g
<1>4. /\ r \in Streams /\ r.upstream = g /\ Still(s, r) /\ r.input = s.input /\ r.busy = s.busy
  BY <1>3, StreamOfFlow
<1>5. /\ Turns(r, t, <<>>, <<>>) /\ Still(r, t)
      /\ t.upstream.initialWindow = r.upstream.initialWindow
  <2>. HIDE DEF r
  <2>1. /\ Turns(r, v, <<>>, <<>>) /\ Still(r, v)
        /\ v.upstream.initialWindow = r.upstream.initialWindow
    BY <1>4, SendTurns DEF Calm
  <2>. HIDE DEF v
  <2>2. v \in Streams
    BY <2>1 DEF Turns
  <2>3. /\ Turns(r, t, <<>>, <<>>) /\ Still(v, t)
        /\ t.upstream.initialWindow = v.upstream.initialWindow
    BY <2>1, <2>2, SaidToTheEnd
  <2>. HIDE DEF t
  <2>. QED
    BY <2>1, <2>3 DEF Still, SameState
<1>. HIDE DEF t
<1>6. /\ SameState(s, t) /\ t.user = s.user
      /\ t.processedHeaders = s.processedHeaders /\ t.errors = s.errors
      /\ t.upstream.initialWindow = s.upstream.initialWindow
  <2>. HIDE DEF r
  <2>. QED
    BY <1>4, <1>5, <1>9 DEF Still, SameState
<1>7. found => Forwarded(s, t, x)
  BY <1>1, <1>2, <1>5, TakenForwards
<1>8. ~found => Turns(s, t, <<>>, <<>>)
  <2>1. SUFFICES ASSUME ~found PROVE Turns(s, t, <<>>, <<>>)
    OBVIOUS
  <2>. HIDE DEF r
  <2>2. FlowMoves(s.upstream, r.upstream, <<>>, 0)
    BY <1>1, <1>3, <1>4, <2>1
  <2>3. Turns(s, r, <<>>, <<>>)
    BY <1>4, <2>2, TurnsUpstream, EmptyList DEF Still
  <2>. QED
    BY <1>5, <2>3, TurnsRest
<1>. QED
  BY <1>6, <1>7, <1>8 DEF t, v, r, g, found, x, f
=============================================================================
