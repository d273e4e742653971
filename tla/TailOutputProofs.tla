--------------------------- MODULE TailOutputProofs ---------------------------
(***************************************************************************)
(* The tail, the records made from it and what a caller is shown of them,  *)
(* for any budget, any number of bytes and writes of any size.             *)
(*                                                                         *)
(* The module's operators fold over sequences. As the provers cannot       *)
(* instantiate a theorem about folds in general, what a step of a fold     *)
(* does to the values of a set is given to the lemmas of the first part as *)
(* a function (Folding); each fold then has a lemma of its own that says   *)
(* what its values after so many elements are.                             *)
(***************************************************************************)
EXTENDS TailOutput, WellFoundedInduction, FiniteSetTheorems, SequenceTheorems, TLAPS

\* A set of natural numbers that is not empty has a least member.
LEMMA Smallest ==
  ASSUME NEW T, T \subseteq Nat, T # {}
  PROVE  \E x \in T : \A y \in T : x <= y
<1> DEFINE R == OpToRel(<, Nat)
<1>1. \E x \in T : \A y \in T : ~(<<y, x>> \in R)
  BY WFMin, NatLessThanWellFounded
<1>2. \A x, y \in T : <<y, x>> \in R <=> y < x
  BY DEF OpToRel
<1> HIDE DEF R
<1>3. PICK x \in T : \A y \in T : ~(<<y, x>> \in R)
  BY <1>1
<1>4. \A y \in T : ~(y < x)
  BY <1>2, <1>3
<1>5. \A y \in T : x <= y
  BY <1>4
<1> QED
  BY <1>5

\* The greatest of some positions.
LEMMA GreatestOf ==
  ASSUME NEW n \in Int, NEW T, T \subseteq 1..n, T # {}
  PROVE  Max(T) \in T /\ \A y \in T : y <= Max(T)
<1> DEFINE U == {n - x : x \in T}
<1>1. U \subseteq Nat
  OBVIOUS
<1>1a. U # {}
  OBVIOUS
<1>2. PICK u \in U : \A v \in U : u <= v
  BY <1>1, <1>1a, Smallest
<1>3. PICK x \in T : u = n - x
  OBVIOUS
<1>4. \A y \in T : x >= y
  BY <1>2, <1>3
<1>5. Max(T) \in T /\ \A y \in T : Max(T) >= y
  BY <1>4 DEF Max
<1> QED
  BY <1>5

-----------------------------------------------------------------------------
(* Folds. F[i] is what the i-th element does to the value so far. *)

Folding(F, base, n, it) ==
  it = [s \in SUBSET (1..n) |-> IF s = {} THEN base ELSE F[Max(s)][it[s \ {Max(s)}]]]

Closed(F, base, n, B) == base \in B /\ \A i \in 1..n, a \in B : F[i][a] \in B

\* The values of a fold, one by one.
Steps(F, base, n, g) == g[0] = base /\ \A i \in 1..n : g[i] = F[i][g[i - 1]]

\* Without its greatest member a set of positions is a set of earlier ones.
LEMMA Earlier ==
  ASSUME NEW n \in Nat, NEW s \in SUBSET (1..n), s # {}
  PROVE  Max(s) \in 1..n /\ s \ {Max(s)} \in SUBSET (1..(Max(s) - 1))
<1>1. s \subseteq 1..n /\ n \in Int
  OBVIOUS
<1>2. PICK m : m = Max(s)
  OBVIOUS
<1>3. m \in s /\ \A y \in s : y <= m
  BY <1>1, <1>2, GreatestOf
<1>4. m \in 1..n /\ \A y \in s : y \in 1..n
  BY <1>1, <1>3
<1>5. ASSUME NEW y \in s, y # m PROVE y \in 1..(m - 1)
  BY <1>3, <1>4, <1>5
<1>6. s \ {m} \in SUBSET (1..(m - 1))
  BY <1>5
<1> QED
  BY <1>2, <1>4, <1>6

\* A fold is defined.
LEMMA FoldExists ==
  ASSUME NEW n \in Nat, NEW F, NEW base
  PROVE  \E it : Folding(F, base, n, it)
<1> DEFINE Bad == {m \in Nat : ~\E it : Folding(F, base, m, it)}
<1>1. 0 \notin Bad
  <2> DEFINE it == [s \in SUBSET (1..0) |-> base]
  <2>1. \A s \in SUBSET (1..0) : s = {}
    OBVIOUS
  <2>2. it = [s \in SUBSET (1..0) |-> IF s = {} THEN base ELSE F[Max(s)][it[s \ {Max(s)}]]]
    BY <2>1
  <2> HIDE DEF it
  <2>3. Folding(F, base, 0, it)
    BY <2>2 DEF Folding
  <2> QED
    BY <2>3
<1>2. ASSUME NEW m \in Nat \ {0}, m - 1 \notin Bad PROVE m \notin Bad
  <2>1. m - 1 \in Nat
    OBVIOUS
  <2>2. PICK it : Folding(F, base, m - 1, it)
    BY <1>2, <2>1
  <2> DEFINE h == [s \in SUBSET (1..m) |-> IF s = {} THEN base ELSE F[Max(s)][it[s \ {Max(s)}]]]
  <2>3a. \A s \in SUBSET (1..(m - 1)) : s \in SUBSET (1..m)
    <3>1. 1..(m - 1) \subseteq 1..m
      OBVIOUS
    <3> QED
      BY <3>1
  <2>3b. it = [s \in SUBSET (1..(m - 1)) |-> IF s = {} THEN base ELSE F[Max(s)][it[s \ {Max(s)}]]]
    BY <2>2 DEF Folding
  <2>3. \A s \in SUBSET (1..(m - 1)) : s \in SUBSET (1..m) /\ h[s] = it[s]
    BY <2>3a, <2>3b
  <2>4. ASSUME NEW s \in SUBSET (1..m), s # {} PROVE s \ {Max(s)} \in SUBSET (1..(m - 1))
    BY <2>4, Earlier
  <2>5. \A s \in SUBSET (1..m) : s # {} => it[s \ {Max(s)}] = h[s \ {Max(s)}]
    BY <2>3, <2>4
  <2>6. h = [s \in SUBSET (1..m) |-> IF s = {} THEN base ELSE F[Max(s)][h[s \ {Max(s)}]]]
    BY <2>5
  <2> HIDE DEF h
  <2>7. Folding(F, base, m, h)
    BY <2>6 DEF Folding
  <2> QED
    BY <2>7
<1>3. Bad = {}
  <2> SUFFICES ASSUME Bad # {} PROVE FALSE
    OBVIOUS
  <2>1. PICK m \in Bad : \A k \in Bad : m <= k
    BY Smallest
  <2>2. m \in Nat \ {0} /\ m - 1 \notin Bad
    BY <1>1, <2>1
  <2> QED
    BY <1>2, <2>1, <2>2
<1> QED
  BY <1>3

\* A fold of steps that stay in a set stays there, whatever the positions.
LEMMA FoldStays ==
  ASSUME NEW n \in Nat, NEW F, NEW base, NEW it, Folding(F, base, n, it), NEW B, Closed(F, base, n, B)
  PROVE  \A s \in SUBSET (1..n) : it[s] \in B
<1> DEFINE Bad == {m \in Nat : m <= n /\ \E s \in SUBSET (1..m) : it[s] \notin B}
<1>1. Bad = {}
  <2> SUFFICES ASSUME Bad # {} PROVE FALSE
    OBVIOUS
  <2>1. PICK m \in Bad : \A k \in Bad : m <= k
    BY Smallest
  <2>2. PICK s \in SUBSET (1..m) : it[s] \notin B
    BY <2>1
  <2>3. s \in SUBSET (1..n) /\ m \in Nat /\ m <= n
    BY <2>1
  <2>4. s # {}
    BY <2>2, <2>3 DEF Folding, Closed
  <2>5. Max(s) \in 1..m /\ s \ {Max(s)} \in SUBSET (1..(Max(s) - 1))
    BY <2>3, <2>4, Earlier
  <2>6. Max(s) - 1 \notin Bad
    BY <2>1, <2>3, <2>5
  <2>7. it[s \ {Max(s)}] \in B
    BY <2>3, <2>5, <2>6
  <2>8. it[s] = F[Max(s)][it[s \ {Max(s)}]]
    BY <2>3, <2>4 DEF Folding
  <2>9. Max(s) \in 1..n
    BY <2>3, <2>5
  <2> QED
    BY <2>2, <2>7, <2>8, <2>9 DEF Closed
<1> QED
  BY <1>1

\* The values of a fold over the positions so far are its values one by one.
LEMMA FoldSteps ==
  ASSUME NEW n \in Nat, NEW F, NEW base, NEW it, Folding(F, base, n, it)
  PROVE  Steps(F, base, n, [i \in 0..n |-> it[1..i]])
<1> DEFINE g == [i \in 0..n |-> it[1..i]]
<1>1. g[0] = base
  <2>1. 1..0 = {} /\ 1..0 \in SUBSET (1..n)
    OBVIOUS
  <2>2. g[0] = it[1..0]
    OBVIOUS
  <2> QED
    BY <2>1, <2>2 DEF Folding
<1>2. ASSUME NEW i \in 1..n PROVE g[i] = F[i][g[i - 1]]
  <2> DEFINE s == 1..i
  <2>1. s \in SUBSET (1..n) /\ s # {} /\ s \subseteq 1..i /\ i \in Int /\ i \in s
    OBVIOUS
  <2>2. Max(s) \in s /\ \A y \in s : y <= Max(s)
    <3> HIDE DEF s
    <3> QED
      BY <2>1, GreatestOf
  <2>3. Max(s) = i
    BY <2>1, <2>2
  <2>4. s \ {i} = 1..(i - 1)
    OBVIOUS
  <2>5. it[s] = F[Max(s)][it[s \ {Max(s)}]]
    <3> HIDE DEF s
    <3> QED
      BY <2>1 DEF Folding
  <2>6. g[i] = it[s] /\ g[i - 1] = it[1..(i - 1)]
    OBVIOUS
  <2> HIDE DEF s, g
  <2> QED
    BY <2>3, <2>4, <2>5, <2>6
<1> QED
  BY <1>1, <1>2 DEF Steps

\* What holds before the first element and is kept by each holds after all.
LEMMA StepsKeep ==
  ASSUME NEW n \in Nat, NEW A, NEW g, g[0] \in A[0],
         \A i \in 1..n : g[i - 1] \in A[i - 1] => g[i] \in A[i]
  PROVE  \A i \in 0..n : g[i] \in A[i]
<1> DEFINE Bad == {i \in Nat : i \in 0..n /\ g[i] \notin A[i]}
<1>1. Bad = {}
  <2> SUFFICES ASSUME Bad # {} PROVE FALSE
    OBVIOUS
  <2>1. PICK i \in Bad : \A k \in Bad : i <= k
    BY Smallest
  <2>2. i \in 1..n /\ i - 1 \notin Bad
    BY <2>1
  <2> QED
    BY <2>1, <2>2
<1> QED
  BY <1>1

\* A fold whose steps stay in a set is defined, and has its values there.
LEMMA FoldIn ==
  ASSUME NEW n \in Nat, NEW F, NEW base, NEW B, Closed(F, base, n, B)
  PROVE  \E it : Folding(F, base, n, it) /\ \A s \in SUBSET (1..n) : it[s] \in B
<1>1. PICK it : Folding(F, base, n, it)
  BY FoldExists
<1>2. \A s \in SUBSET (1..n) : it[s] \in B
  BY <1>1, FoldStays
<1> QED
  BY <1>1, <1>2

\* The values of such a fold, one by one.
LEMMA FoldIs ==
  ASSUME NEW n \in Nat, NEW F, NEW base, NEW it, Folding(F, base, n, it), NEW B, Closed(F, base, n, B)
  PROVE  \E g : Steps(F, base, n, g) /\ g[n] = it[1..n] /\ \A i \in 0..n : g[i] \in B
<1> DEFINE g == [i \in 0..n |-> it[1..i]]
<1>1. Steps(F, base, n, g)
  BY FoldSteps
<1>2. \A s \in SUBSET (1..n) : it[s] \in B
  BY FoldStays
<1>3. \A i \in 0..n : 1..i \in SUBSET (1..n)
  OBVIOUS
<1>4. \A i \in 0..n : g[i] \in B
  BY <1>2, <1>3
<1>5. g[n] = it[1..n]
  OBVIOUS
<1> HIDE DEF g
<1> QED
  BY <1>1, <1>4, <1>5

\* A sequence of chunks, and the data of the chunks so far.
Chunked(cs, n, X) ==
  n \in Nat /\ DOMAIN cs = 1..n /\ \A i \in 1..n : cs[i].data \in Seq(X)

Concats(cs, n, g) == g[0] = <<>> /\ \A i \in 1..n : g[i] = g[i - 1] \o cs[i].data

\* The fold that Bytes is made of, as a function of the number of chunks so far.
LEMMA BytesFold ==
  ASSUME NEW cs, NEW n, NEW X, Chunked(cs, n, X)
  PROVE  \E g : Concats(cs, n, g) /\ Bytes(cs) = g[n] /\ \A i \in 0..n : g[i] \in Seq(X)
<1> DEFINE B == Seq(X)
           Form(it) == it = [s \in SUBSET (1..n) |->
                              IF s = {} THEN <<>> ELSE it[s \ {Max(s)}] \o cs[Max(s)].data]
           c == CHOOSE it : Form(it)
           F(D) == [i \in 1..n |-> [a \in D |-> a \o cs[i].data]]
<1>0. n \in Nat /\ DOMAIN cs = 1..n /\ \A i \in 1..n : cs[i].data \in Seq(X)
  BY DEF Chunked
<1>1. Bytes(cs) = c[1..n]
  BY <1>0 DEF Bytes, FoldLeft, MapThenFoldSet
<1>2. \A s \in SUBSET (1..n) : s # {} => Max(s) \in 1..n /\ s \ {Max(s)} \in SUBSET (1..n)
  BY <1>0, Earlier
<1>3. ASSUME NEW D, B \subseteq D PROVE Closed(F(D), <<>>, n, B)
  BY <1>0, <1>3 DEF Closed
<1>4. Form(c)
  <2>1. PICK it : Folding(F(B), <<>>, n, it) /\ \A s \in SUBSET (1..n) : it[s] \in B
    <3> HIDE DEF B, F
    <3> QED
      BY <1>0, <1>3, FoldIn
  <2>2. Form(it)
    BY <1>2, <2>1 DEF Folding
  <2> HIDE DEF Form
  <2> QED
    BY <2>2
<1> DEFINE D == B \cup {c[s] : s \in SUBSET (1..n)}
<1>5. Folding(F(D), <<>>, n, c)
  <2> HIDE DEF c, B
  <2> QED
    BY <1>2, <1>4 DEF Folding
<1>6. PICK g : Steps(F(D), <<>>, n, g) /\ g[n] = c[1..n] /\ \A i \in 0..n : g[i] \in B
  <2>1. Closed(F(D), <<>>, n, B)
    BY <1>3
  <2> HIDE DEF c, F, B, D
  <2> QED
    BY <1>0, <1>5, <2>1, FoldIs
<1>7. \A i \in 1..n : g[i] = g[i - 1] \o cs[i].data
  <2>1. \A i \in 1..n : i - 1 \in 0..n
    BY <1>0
  <2>2. \A i \in 1..n : g[i - 1] \in D
    BY <1>6, <2>1
  <2> HIDE DEF D
  <2> QED
    BY <1>6, <2>2 DEF Steps
<1>8. g[0] = <<>>
  BY <1>6 DEF Steps
<1> HIDE DEF c, B
<1> QED
  BY <1>1, <1>6, <1>7, <1>8 DEF Concats, B

SameData(cs, ds, n) == \A i \in 1..n : cs[i].data = ds[i].data

\* Two folds over the same data have the same values.
LEMMA ConcatsAgree ==
  ASSUME NEW n \in Nat, NEW cs, NEW ds, NEW g, NEW h, Concats(cs, n, g), Concats(ds, n, h),
         SameData(cs, ds, n)
  PROVE  g[n] = h[n]
<1> DEFINE A == [i \in 0..n |-> {h[i]}]
<1>0. \A i \in 0..n : A[i] = {h[i]}
  OBVIOUS
<1>0a. 0 \in 0..n /\ \A i \in 1..n : i \in 0..n /\ i - 1 \in 0..n
  OBVIOUS
<1> HIDE DEF A
<1>1. g[0] \in A[0]
  BY <1>0, <1>0a DEF Concats
<1>2. ASSUME NEW i \in 1..n, g[i - 1] \in A[i - 1] PROVE g[i] \in A[i]
  <2>1. g[i - 1] = h[i - 1]
    BY <1>0, <1>0a, <1>2
  <2>2. g[i] = g[i - 1] \o cs[i].data /\ h[i] = h[i - 1] \o ds[i].data
    BY DEF Concats
  <2>2a. cs[i].data = ds[i].data
    BY DEF SameData
  <2>3. g[i] = h[i]
    BY <2>1, <2>2, <2>2a
  <2> QED
    BY <1>0, <1>0a, <2>3
<1>3. \A i \in 0..n : g[i] \in A[i]
  BY <1>1, <1>2, StepsKeep
<1>4. n \in 0..n
  OBVIOUS
<1> QED
  BY <1>0, <1>3, <1>4

\* The l chunks of cs are the m of as and then the n of bs.
Joined(cs, l, as, m, bs, n) ==
  m \in Nat /\ n \in Nat /\ l = m + n
  /\ (\A i \in 1..m : cs[i].data = as[i].data) /\ (\A i \in 1..n : cs[m + i].data = bs[i].data)

\* The bytes of chunks one after the other are the bytes of each, one after the other.
LEMMA BytesConcat ==
  ASSUME NEW X, NEW l, NEW m, NEW n, NEW as, NEW bs, NEW cs,
         Chunked(as, m, X), Chunked(bs, n, X), Chunked(cs, l, X), Joined(cs, l, as, m, bs, n)
  PROVE  Bytes(cs) = Bytes(as) \o Bytes(bs)
<1>0. m \in Nat /\ n \in Nat /\ l = m + n
  BY DEF Joined
<1>1. PICK g : Concats(cs, m + n, g) /\ Bytes(cs) = g[m + n] /\ \A i \in 0..(m + n) : g[i] \in Seq(X)
  BY <1>0, BytesFold
<1>2. PICK h : Concats(as, m, h) /\ Bytes(as) = h[m] /\ \A i \in 0..m : h[i] \in Seq(X)
  BY BytesFold
<1>3. PICK k : Concats(bs, n, k) /\ Bytes(bs) = k[n] /\ \A i \in 0..n : k[i] \in Seq(X)
  BY BytesFold
<1>4. g[m] = h[m]
  <2>1. Concats(cs, m, g)
    <3>1. \A i \in 1..m : i \in 1..(m + n)
      BY <1>0
    <3> QED
      BY <1>1, <3>1 DEF Concats
  <2>1a. SameData(cs, as, m)
    BY DEF Joined, SameData
  <2> QED
    BY <1>0, <1>2, <2>1, <2>1a, ConcatsAgree
<1> DEFINE f == [i \in 0..n |-> g[m + i]]
           A == [i \in 0..n |-> {h[m] \o k[i]}]
<1>5. \A i \in 0..n : f[i] = g[m + i] /\ A[i] = {h[m] \o k[i]}
  OBVIOUS
<1>6. 0 \in 0..n /\ n \in 0..n /\ m \in 0..m /\ m + 0 = m /\ \A i \in 1..n : i \in 0..n /\ i - 1 \in 0..n
  BY <1>0
<1> HIDE DEF f, A
<1>7. f[0] \in A[0]
  <2>1. k[0] = <<>>
    BY <1>3 DEF Concats
  <2>2. h[m] \in Seq(X)
    BY <1>2, <1>6
  <2>3. h[m] \o <<>> = h[m]
    BY <2>2, ConcatEmptySeq
  <2>4. f[0] = g[m]
    BY <1>5, <1>6
  <2>5. A[0] = {h[m] \o k[0]}
    BY <1>5, <1>6
  <2> QED
    BY <1>4, <2>1, <2>3, <2>4, <2>5
<1>8. ASSUME NEW i \in 1..n, f[i - 1] \in A[i - 1] PROVE f[i] \in A[i]
  <2>1. g[m + (i - 1)] = h[m] \o k[i - 1]
    BY <1>5, <1>6, <1>8
  <2>2. g[m + i] = g[m + (i - 1)] \o bs[i].data
    <3>1. m + i \in 1..(m + n) /\ (m + i) - 1 = m + (i - 1)
      BY <1>0
    <3>2. g[m + i] = g[(m + i) - 1] \o cs[m + i].data
      BY <1>1, <3>1 DEF Concats
    <3>3. cs[m + i].data = bs[i].data
      BY DEF Joined
    <3> QED
      BY <3>1, <3>2, <3>3
  <2>3. k[i] = k[i - 1] \o bs[i].data
    BY <1>3 DEF Concats
  <2>4. h[m] \in Seq(X) /\ k[i - 1] \in Seq(X) /\ bs[i].data \in Seq(X)
    BY <1>2, <1>3, <1>6 DEF Chunked
  <2>5. (h[m] \o k[i - 1]) \o bs[i].data = h[m] \o (k[i - 1] \o bs[i].data)
    <3>1. PICK a, b, c : a = h[m] /\ b = k[i - 1] /\ c = bs[i].data
      OBVIOUS
    <3>2. a \in Seq(X) /\ b \in Seq(X) /\ c \in Seq(X)
      BY <2>4, <3>1
    <3>3. (a \o b) \o c = a \o (b \o c)
      BY <3>2, ConcatAssociative
    <3> QED
      BY <3>1, <3>3
  <2>6. g[m + i] = h[m] \o k[i]
    BY <2>1, <2>2, <2>3, <2>5
  <2> QED
    BY <1>5, <1>6, <2>6
<1>9. \A i \in 0..n : f[i] \in A[i]
  BY <1>0, <1>7, <1>8, StepsKeep
<1>10. g[m + n] = h[m] \o k[n]
  BY <1>5, <1>6, <1>9
<1> QED
  BY <1>0, <1>1, <1>2, <1>3, <1>10

\* No chunks, no bytes.
LEMMA BytesEmpty ==
  ASSUME NEW cs, DOMAIN cs = {}
  PROVE  Bytes(cs) = <<>>
<1>1. Chunked(cs, 0, {})
  BY DEF Chunked
<1>2. PICK g : Concats(cs, 0, g) /\ Bytes(cs) = g[0]
  BY <1>1, BytesFold
<1> QED
  BY <1>2 DEF Concats

\* Bytes is a sequence of the bytes of the chunks.
LEMMA BytesType ==
  ASSUME NEW cs, NEW n, NEW X, Chunked(cs, n, X)
  PROVE  Bytes(cs) \in Seq(X)
<1>1. n \in 0..n
  BY DEF Chunked
<1> QED
  BY <1>1, BytesFold

\* The bytes of one chunk are its data.
LEMMA BytesOne ==
  ASSUME NEW X, NEW cs, Chunked(cs, 1, X)
  PROVE  Bytes(cs) = cs[1].data
<1>1. PICK g : Concats(cs, 1, g) /\ Bytes(cs) = g[1]
  BY BytesFold
<1>2. 1 \in 1..1 /\ 1 - 1 = 0
  OBVIOUS
<1>3. g[1] = g[1 - 1] \o cs[1].data /\ g[0] = <<>>
  BY <1>1, <1>2 DEF Concats
<1>4. cs[1].data \in Seq(X)
  BY <1>2 DEF Chunked
<1>5. <<>> \o cs[1].data = cs[1].data
  BY <1>4, ConcatEmptySeq
<1> QED
  BY <1>1, <1>2, <1>3, <1>5

-----------------------------------------------------------------------------
(* Eviction. *)

RawByte == [at : Nat, kind : Kinds]
Chunk == [stream : Streams, data : Seq(RawByte)]

\* What is left of the chunks when the first k are gone.
Rest(cs, k) == SubSeq(cs, k + 1, Len(cs))

\* The bytes after the first a, up to b.
LEMMA Slice ==
  ASSUME NEW Y, NEW d, d \in Seq(Y), NEW a, NEW b, a \in Nat, b \in Nat, a <= b, b <= Len(d)
  PROVE  /\ SubSeq(d, a + 1, b) \in Seq(Y) /\ Len(SubSeq(d, a + 1, b)) = b - a
         /\ \A j \in 1..(b - a) : SubSeq(d, a + 1, b)[j] = d[a + j]
<1>1. \A j \in (a + 1)..b : d[j] \in Y
  <2>1. Len(d) \in Nat /\ \A j \in 1..Len(d) : d[j] \in Y
    OBVIOUS
  <2> QED
    BY <2>1
<1>2. a + 1 \in Int /\ b \in Int
  OBVIOUS
<1>3. PICK h : h = SubSeq(d, a + 1, b)
  OBVIOUS
<1>4. /\ h \in Seq(Y) /\ Len(h) = IF a + 1 <= b THEN b - (a + 1) + 1 ELSE 0
      /\ \A j \in 1..(b - (a + 1) + 1) : h[j] = d[(a + 1) + j - 1]
  BY <1>1, <1>2, <1>3, SubSeqProperties
<1>5. b - (a + 1) + 1 = b - a
  OBVIOUS
<1>6. Len(h) = b - a
  <2>1. Len(h) = IF a + 1 <= b THEN b - (a + 1) + 1 ELSE 0
    BY <1>4
  <2> QED
    BY <2>1
<1>7. ASSUME NEW j \in 1..(b - a) PROVE h[j] = d[a + j]
  <2>1. j \in 1..(b - (a + 1) + 1) /\ (a + 1) + j - 1 = a + j
    OBVIOUS
  <2>2. h[j] = d[(a + 1) + j - 1]
    BY <1>4, <2>1
  <2> QED
    BY <2>1, <2>2
<1>8. h \in Seq(Y)
  BY <1>4
<1> QED
  BY <1>3, <1>6, <1>7, <1>8

\* The chunks of the tail are chunks of raw bytes.
LEMMA ChunkedSeq ==
  ASSUME NEW cs, cs \in Seq(Chunk)
  PROVE  /\ Len(cs) \in Nat /\ Chunked(cs, Len(cs), RawByte) /\ Bytes(cs) \in Seq(RawByte)
         /\ \A i \in 1..Len(cs) : cs[i] \in Chunk /\ cs[i].data \in Seq(RawByte)
<1>1. Len(cs) \in Nat /\ DOMAIN cs = 1..Len(cs) /\ \A i \in 1..Len(cs) : cs[i] \in Chunk
  OBVIOUS
<1>2. \A i \in 1..Len(cs) : cs[i].data \in Seq(RawByte)
  BY <1>1 DEF Chunk
<1>3. Chunked(cs, Len(cs), RawByte)
  BY <1>1, <1>2 DEF Chunked
<1> QED
  BY <1>1, <1>2, <1>3, BytesType

\* What is left after k chunks have gone.
LEMMA RestIs ==
  ASSUME NEW cs, cs \in Seq(Chunk), NEW k \in 0..Len(cs)
  PROVE  /\ Rest(cs, k) \in Seq(Chunk) /\ Len(Rest(cs, k)) = Len(cs) - k
         /\ \A i \in 1..(Len(cs) - k) : Rest(cs, k)[i] = cs[k + i]
<1>1. Len(cs) \in Nat /\ k \in Nat /\ k <= Len(cs) /\ \A i \in 1..Len(cs) : cs[i] \in Chunk
  OBVIOUS
<1>2. \A i \in (k + 1)..Len(cs) : cs[i] \in Chunk
  BY <1>1
<1>3. k + 1 \in Int /\ Len(cs) \in Int
  BY <1>1
<1> HIDE DEF Chunk
<1>4. /\ Rest(cs, k) \in Seq(Chunk)
      /\ Len(Rest(cs, k)) = IF k + 1 <= Len(cs) THEN Len(cs) - (k + 1) + 1 ELSE 0
      /\ \A i \in 1..(Len(cs) - (k + 1) + 1) : Rest(cs, k)[i] = cs[(k + 1) + i - 1]
  BY <1>2, <1>3, SubSeqProperties DEF Rest
<1> QED
  BY <1>1, <1>4

\* The bytes without the first k chunks are the next chunk's and those without k + 1.
LEMMA RestBytes ==
  ASSUME NEW cs, cs \in Seq(Chunk), NEW k \in 0..(Len(cs) - 1)
  PROVE  Bytes(Rest(cs, k)) = cs[k + 1].data \o Bytes(Rest(cs, k + 1))
<1> DEFINE r == Rest(cs, k)
           q == Rest(cs, k + 1)
           one == <<cs[k + 1]>>
           n == Len(cs) - (k + 1)
<1>1. Len(cs) \in Nat /\ k \in 0..Len(cs) /\ k + 1 \in 0..Len(cs) /\ k + 1 \in 1..Len(cs) /\ n \in Nat
      /\ Len(cs) - k = 1 + n /\ k \in Nat
  OBVIOUS
<1>2. r \in Seq(Chunk) /\ Len(r) = 1 + n /\ \A i \in 1..(1 + n) : r[i] = cs[k + i]
  <2>1. /\ Rest(cs, k) \in Seq(Chunk) /\ Len(Rest(cs, k)) = Len(cs) - k
        /\ \A i \in 1..(Len(cs) - k) : Rest(cs, k)[i] = cs[k + i]
    BY <1>1, RestIs
  <2> QED
    BY <1>1, <2>1
<1>3. q \in Seq(Chunk) /\ Len(q) = n /\ \A i \in 1..n : q[i] = cs[(k + 1) + i]
  <2>1. k + 1 \in 0..Len(cs)
    BY <1>1
  <2>2. /\ Rest(cs, k + 1) \in Seq(Chunk) /\ Len(Rest(cs, k + 1)) = Len(cs) - (k + 1)
        /\ \A i \in 1..(Len(cs) - (k + 1)) : Rest(cs, k + 1)[i] = cs[(k + 1) + i]
    BY <2>1, RestIs
  <2> QED
    BY <2>2
<1>4. cs[k + 1].data \in Seq(RawByte)
  BY <1>1, ChunkedSeq
<1>5. Chunked(one, 1, RawByte) /\ one[1] = cs[k + 1]
  BY <1>4 DEF Chunked
<1> HIDE DEF r, q, one, n
<1>6. Chunked(r, 1 + n, RawByte) /\ Chunked(q, n, RawByte)
  BY <1>2, <1>3, ChunkedSeq
<1>7. Joined(r, 1 + n, one, 1, q, n)
  <2>1. \A i \in 1..1 : r[i].data = one[i].data
    BY <1>1, <1>2, <1>5
  <2>2. ASSUME NEW i \in 1..n PROVE r[1 + i].data = q[i].data
    <3>1. 1 + i \in 1..(1 + n) /\ k + (1 + i) = (k + 1) + i
      BY <1>1
    <3> QED
      BY <1>2, <1>3, <3>1
  <2> QED
    BY <1>1, <2>1, <2>2 DEF Joined
<1>8. Bytes(r) = Bytes(one) \o Bytes(q)
  <2>1. PICK l : l = 1 + n
    OBVIOUS
  <2>2. Chunked(r, l, RawByte) /\ Joined(r, l, one, 1, q, n)
    BY <1>6, <1>7, <2>1
  <2> QED
    BY <1>5, <1>6, <2>2, BytesConcat
<1>9. Bytes(one) = cs[k + 1].data
  BY <1>5, BytesOne
<1> QED
  BY <1>8, <1>9 DEF r, q

\* Nothing goes, or everything does.
LEMMA RestNone ==
  ASSUME NEW cs, cs \in Seq(Chunk)
  PROVE  Rest(cs, 0) = cs /\ Bytes(Rest(cs, Len(cs))) = <<>>
<1>1. Rest(cs, 0) = cs
  BY SubSeqFull DEF Rest
<1>2. Len(cs) \in 0..Len(cs) /\ Len(cs) - Len(cs) = 0
  OBVIOUS
<1>3. Rest(cs, Len(cs)) \in Seq(Chunk) /\ Len(Rest(cs, Len(cs))) = 0
  BY <1>2, RestIs
<1>4. DOMAIN Rest(cs, Len(cs)) = {}
  BY <1>3
<1> QED
  BY <1>1, <1>4, BytesEmpty

Left(cs, k) == Len(Bytes(Rest(cs, k)))
Stops(cs, k) == Left(cs, k) <= Budget \/ Left(cs, k) - Budget < Len(cs[k + 1].data)

\* k chunks go as a whole.
Dropped(cs, k) == k \in 0..Len(cs) /\ Stops(cs, k) /\ \A i \in 0..(k - 1) : ~Stops(cs, i)

\* A cut of b at or after limit, where no rune is divided.
Cut(b, limit, cut) ==
  /\ cut \in limit..Len(b)
  /\ cut = Len(b) \/ b[cut + 1].kind # "c"
  /\ \A i \in limit..(cut - 1) : b[i + 1].kind = "c"

\* The cut of evictLocked is the first one at or after the limit that divides no rune.
LEMMA HeadRuneCutIs ==
  ASSUME NEW b, NEW limit, limit \in Nat, Len(b) \in Nat, limit <= Len(b)
  PROVE  Cut(b, limit, HeadRuneCut(b, limit))
<1> DEFINE P(c) == c = Len(b) \/ b[c + 1].kind # "c"
           T == {c \in Nat : limit <= c /\ c <= Len(b) /\ P(c)}
<1>1. Len(b) \in T /\ T \subseteq Nat
  OBVIOUS
<1>2. PICK cut \in T : \A y \in T : cut <= y
  <2> HIDE DEF T
  <2>1. T # {}
    BY <1>1
  <2> QED
    BY <1>1, <2>1, Smallest
<1>3. cut \in limit..Len(b) /\ P(cut)
  BY <1>2
<1>4. ASSUME NEW i \in limit..(cut - 1) PROVE b[i + 1].kind = "c"
  <2>1. i \in Nat /\ limit <= i /\ i <= Len(b) /\ i < cut /\ cut \in Nat
    BY <1>3
  <2>2. i \notin T
    <3> HIDE DEF T
    <3> QED
      BY <1>2, <2>1
  <2> QED
    BY <2>1, <2>2
<1>5. Cut(b, limit, cut)
  BY <1>3, <1>4 DEF Cut
<1> HIDE DEF T, P
<1>6. \E c \in limit..Len(b) : Cut(b, limit, c)
  BY <1>3, <1>5
<1>7. HeadRuneCut(b, limit) = CHOOSE c \in limit..Len(b) :
                                /\ c = Len(b) \/ b[c + 1].kind # "c"
                                /\ \A i \in limit..(c - 1) : b[i + 1].kind = "c"
  BY DEF HeadRuneCut
<1> QED
  BY <1>6, <1>7 DEF Cut

\* What evictLocked leaves: all from a chunk on, or that without the head of its first.
Shortened(cs, kept, k, cut) ==
  LET rest == Rest(cs, k)
  IN /\ k < Len(cs) /\ Cut(cs[k + 1].data, Left(cs, k) - Budget, cut)
     /\ kept = [rest EXCEPT ![1].data = SubSeq(rest[1].data, cut + 1, Len(rest[1].data))]

\* The bytes that are left can be counted.
LEMMA LeftType ==
  ASSUME NEW cs, cs \in Seq(Chunk), NEW k \in 0..Len(cs)
  PROVE  Bytes(Rest(cs, k)) \in Seq(RawByte) /\ Left(cs, k) \in Nat
<1>1. Rest(cs, k) \in Seq(Chunk)
  BY RestIs
<1>2. Bytes(Rest(cs, k)) \in Seq(RawByte)
  BY <1>1, ChunkedSeq
<1> QED
  BY <1>2, LenProperties DEF Left

\* evictLocked drops chunks until it may stop, and then cuts the head of the next if it has to.
LEMMA EvictIs ==
  ASSUME NEW cs, cs \in Seq(Chunk)
  PROVE  \E k : /\ Dropped(cs, k)
                /\ \/ Left(cs, k) <= Budget /\ Evict(cs) = Rest(cs, k)
                   \/ Left(cs, k) > Budget /\ \E cut : Shortened(cs, Evict(cs), k, cut)
<1>0. Len(cs) \in Nat /\ Len(cs) \in 0..Len(cs) /\ Budget \in Nat \ {0}
  BY TailAssumption
<1>1. Stops(cs, Len(cs))
  <2>1. Bytes(Rest(cs, Len(cs))) = <<>>
    BY RestNone
  <2>2. Left(cs, Len(cs)) = 0
    BY <2>1 DEF Left
  <2> QED
    BY <1>0, <2>2 DEF Stops
<1> DEFINE T == {k \in Nat : k <= Len(cs) /\ Stops(cs, k)}
           k0 == CHOOSE k \in 0..Len(cs) : Stops(cs, k) /\ \A i \in 0..(k - 1) : ~Stops(cs, i)
           rest == Rest(cs, k0)
           b == rest[1].data
           cut == HeadRuneCut(b, Left(cs, k0) - Budget)
<1>2. PICK k \in T : \A y \in T : k <= y
  <2>1. Len(cs) \in T /\ T \subseteq Nat
    BY <1>0, <1>1
  <2> HIDE DEF T
  <2>2. T # {}
    BY <2>1
  <2> QED
    BY <2>1, <2>2, Smallest
<1>3. k \in 0..Len(cs) /\ Stops(cs, k)
  BY <1>0, <1>2
<1>4. ASSUME NEW i \in 0..(k - 1) PROVE ~Stops(cs, i)
  <2>1. i \in Nat /\ i <= Len(cs) /\ i < k
    BY <1>0, <1>3
  <2>2. i \notin T
    <3> HIDE DEF T
    <3> QED
      BY <1>2, <1>3, <2>1
  <2> QED
    BY <2>1, <2>2
<1> HIDE DEF T
<1>5. Dropped(cs, k0)
  <2>1. \E c \in 0..Len(cs) : Stops(cs, c) /\ \A i \in 0..(c - 1) : ~Stops(cs, i)
    BY <1>3, <1>4
  <2> QED
    BY <2>1 DEF Dropped
<1>6. Evict(cs) = IF Left(cs, k0) <= Budget THEN rest
                  ELSE [rest EXCEPT ![1].data = SubSeq(b, cut + 1, Len(b))]
  BY DEF Evict, Stops, Left, Rest, SizeOf
<1> HIDE DEF k0
<1>7. k0 \in 0..Len(cs) /\ Left(cs, k0) \in Nat
  BY <1>5, LeftType DEF Dropped
<1>8. CASE Left(cs, k0) <= Budget
  <2>1. Evict(cs) = Rest(cs, k0)
    BY <1>6, <1>8
  <2> QED
    BY <1>5, <1>8, <2>1
<1>9. CASE Left(cs, k0) > Budget
  <2>1. Evict(cs) = [rest EXCEPT ![1].data = SubSeq(b, cut + 1, Len(b))]
    BY <1>0, <1>6, <1>7, <1>9
  <2>2. k0 < Len(cs)
    <3>1. Stops(cs, Len(cs)) /\ Left(cs, Len(cs)) = 0
      BY <1>1, RestNone DEF Left
    <3> QED
      BY <1>0, <1>7, <1>9, <3>1
  <2>3. rest[1] = cs[k0 + 1]
    <3>1. \A i \in 1..(Len(cs) - k0) : rest[i] = cs[k0 + i]
      BY <1>7, RestIs
    <3>2. 1 \in 1..(Len(cs) - k0)
      BY <1>0, <1>7, <2>2
    <3> HIDE DEF rest
    <3> QED
      BY <3>1, <3>2
  <2>4. b \in Seq(RawByte)
    <3>1. k0 + 1 \in 1..Len(cs)
      BY <1>0, <1>7, <2>2
    <3>2. cs[k0 + 1].data \in Seq(RawByte)
      BY <3>1, ChunkedSeq
    <3> QED
      BY <2>3, <3>2
  <2>5. Len(b) \in Nat
    <3> HIDE DEF b
    <3> QED
      BY <2>4
  <2>6. Left(cs, k0) - Budget < Len(b)
    BY <1>0, <1>5, <1>7, <1>9, <2>3 DEF Dropped, Stops
  <2>7. Cut(b, Left(cs, k0) - Budget, cut)
    <3>1. Left(cs, k0) - Budget \in Nat /\ Left(cs, k0) - Budget <= Len(b)
      BY <1>0, <1>7, <1>9, <2>5, <2>6
    <3> HIDE DEF b
    <3> QED
      BY <2>5, <3>1, HeadRuneCutIs
  <2>8. Cut(cs[k0 + 1].data, Left(cs, k0) - Budget, cut)
    BY <2>3, <2>7
  <2> HIDE DEF cut
  <2>9. Shortened(cs, Evict(cs), k0, cut)
    BY <2>1, <2>2, <2>8 DEF Shortened
  <2> QED
    BY <1>5, <1>9, <2>9
<1> QED
  BY <1>0, <1>7, <1>8, <1>9

\* The bytes without the first chunks are the last bytes.
LEMMA BytesSplit ==
  ASSUME NEW cs, cs \in Seq(Chunk), NEW k \in 0..Len(cs)
  PROVE  \E lead \in Seq(RawByte) : Bytes(cs) = lead \o Bytes(Rest(cs, k))
<1> DEFINE n == Len(cs)
           S == Seq(RawByte)
           Ends == {r \in S : \E lead \in S : Bytes(cs) = lead \o r}
           g == [i \in 0..n |-> Bytes(Rest(cs, i))]
           A == [i \in 0..n |-> Ends]
<1>1. n \in Nat /\ 0 \in 0..n /\ \A i \in 1..n : i \in 0..n /\ i - 1 \in 0..n /\ i - 1 \in 0..(n - 1)
  OBVIOUS
<1>2. \A i \in 0..n : g[i] = Bytes(Rest(cs, i)) /\ A[i] = Ends
  OBVIOUS
<1>3. \A i \in 0..n : Bytes(Rest(cs, i)) \in S
  BY LeftType
<1> HIDE DEF g, A, n
<1>4. g[0] \in A[0]
  <2>1. g[0] = Bytes(cs)
    BY <1>1, <1>2, RestNone
  <2>2. Bytes(cs) \in S /\ <<>> \in S
    BY ChunkedSeq
  <2>3. Bytes(cs) = <<>> \o Bytes(cs)
    BY <2>2, ConcatEmptySeq
  <2> HIDE DEF S
  <2>4. Bytes(cs) \in Ends
    BY <2>2, <2>3
  <2> HIDE DEF Ends
  <2> QED
    BY <1>1, <1>2, <2>1, <2>4
<1>5. ASSUME NEW i \in 1..n, g[i - 1] \in A[i - 1] PROVE g[i] \in A[i]
  <2>1. g[i - 1] = Bytes(Rest(cs, i - 1)) /\ A[i - 1] = Ends /\ g[i] = Bytes(Rest(cs, i)) /\ A[i] = Ends
    BY <1>1, <1>2
  <2>2. PICK lead \in S : Bytes(cs) = lead \o Bytes(Rest(cs, i - 1))
    BY <1>5, <2>1
  <2>3. PICK d : d = cs[i].data
    OBVIOUS
  <2>4. Bytes(Rest(cs, i - 1)) = d \o Bytes(Rest(cs, i))
    <3>1. i - 1 \in 0..(Len(cs) - 1) /\ (i - 1) + 1 = i
      BY <1>1 DEF n
    <3>2. Bytes(Rest(cs, i - 1)) = cs[(i - 1) + 1].data \o Bytes(Rest(cs, (i - 1) + 1))
      BY <3>1, RestBytes
    <3> QED
      BY <2>3, <3>1, <3>2
  <2>5. d \in S
    <3>1. i \in 1..Len(cs)
      BY DEF n
    <3> QED
      BY <2>3, <3>1, ChunkedSeq
  <2>6. PICK r : r = Bytes(Rest(cs, i))
    OBVIOUS
  <2>7. r \in S
    BY <1>1, <1>3, <2>6
  <2>8. lead \o (d \o r) = (lead \o d) \o r /\ lead \o d \in S
    <3>1. lead \in Seq(RawByte) /\ d \in Seq(RawByte) /\ r \in Seq(RawByte)
      BY <2>2, <2>5, <2>7
    <3>2. lead \o (d \o r) = (lead \o d) \o r
      BY <3>1, ConcatAssociative
    <3>3. lead \o d \in Seq(RawByte)
      BY <3>1, ConcatProperties
    <3> QED
      BY <3>2, <3>3
  <2>9. Bytes(cs) = (lead \o d) \o r
    BY <2>2, <2>4, <2>6, <2>8
  <2> HIDE DEF S
  <2>10. r \in Ends
    BY <2>7, <2>8, <2>9
  <2> QED
    BY <2>1, <2>6, <2>10
<1>6. \A i \in 0..n : g[i] \in A[i]
  BY <1>1, <1>4, <1>5, StepsKeep
<1>7. k \in 0..n
  BY DEF n
<1>8. Bytes(Rest(cs, k)) \in Ends
  BY <1>2, <1>6, <1>7
<1> QED
  BY <1>8

\* Whole chunks go only as long as the rest is not below the budget.
LEMMA LeftOver ==
  ASSUME NEW cs, cs \in Seq(Chunk), NEW k, Dropped(cs, k), k > 0
  PROVE  Left(cs, k) >= Budget
<1>1. k \in 1..Len(cs) /\ Len(cs) \in Nat /\ k - 1 \in 0..(Len(cs) - 1) /\ (k - 1) + 1 = k
      /\ k - 1 \in 0..(k - 1) /\ k - 1 \in 0..Len(cs) /\ k \in 0..Len(cs)
  BY DEF Dropped
<1>2. ~Stops(cs, k - 1)
  BY <1>1 DEF Dropped
<1>3. PICK d : d = cs[k].data
  OBVIOUS
<1>4. d \in Seq(RawByte) /\ Bytes(Rest(cs, k)) \in Seq(RawByte)
  BY <1>1, <1>3, ChunkedSeq, LeftType
<1>5. Left(cs, k - 1) = Len(d) + Left(cs, k)
  <2>1. Bytes(Rest(cs, k - 1)) = cs[(k - 1) + 1].data \o Bytes(Rest(cs, (k - 1) + 1))
    BY <1>1, RestBytes
  <2>2. Bytes(Rest(cs, k - 1)) = d \o Bytes(Rest(cs, k))
    BY <1>1, <1>3, <2>1
  <2> QED
    BY <1>4, <2>2, ConcatProperties DEF Left
<1>6. Left(cs, k - 1) \in Nat /\ Left(cs, k) \in Nat /\ Len(d) \in Nat /\ Budget \in Nat
  BY <1>1, <1>4, LeftType, LenProperties, TailAssumption
<1>7. ~(Left(cs, k - 1) - Budget < Len(d))
  <2>1. cs[(k - 1) + 1].data = d
    BY <1>1, <1>3
  <2> QED
    BY <1>2, <2>1 DEF Stops
<1> QED
  BY <1>5, <1>6, <1>7

\* The kept chunks: the last ones, the first of which may have lost its head.
KeptFrom(cs, kept, k) ==
  /\ k \in 0..Len(cs) /\ kept \in Seq(Chunk) /\ Len(kept) = Len(cs) - k
  /\ \A i \in 1..Len(kept) :
       /\ kept[i].stream = cs[k + i].stream
       /\ i > 1 => kept[i] = cs[k + i]
       /\ \A j \in 1..Len(kept[i].data) : \E m \in 1..Len(cs[k + i].data) : kept[i].data[j] = cs[k + i].data[m]

\* Nothing but the first chunk is empty.
Filled(cs) == \A i \in 2..Len(cs) : cs[i].data # <<>>

\* lead is what is evicted of the bytes, and kept what is left.
Gone(all, kept, lead) ==
  /\ lead \in Seq(RawByte) /\ kept \in Seq(RawByte) /\ all = lead \o kept
  /\ Len(kept) <= Budget
  /\ Len(all) <= Budget => lead = <<>>
  /\ \A i \in 1..Len(lead) : i + Budget > Len(all) => lead[i].kind = "c"

Evicted(cs, kept, lead) == Gone(Bytes(cs), Bytes(kept), lead)

\* Eviction of whole chunks.
LEMMA EvictChunks ==
  ASSUME NEW cs, cs \in Seq(Chunk), NEW k, Dropped(cs, k), Left(cs, k) <= Budget, Filled(cs)
  PROVE  KeptFrom(cs, Rest(cs, k), k) /\ \E lead : Evicted(cs, Rest(cs, k), lead)
<1>1. k \in 0..Len(cs) /\ Len(cs) \in Nat /\ Budget \in Nat /\ k \in Nat /\ k <= Len(cs)
  BY TailAssumption DEF Dropped
<1>2. PICK r : r = Rest(cs, k)
  OBVIOUS
<1>3. r \in Seq(Chunk) /\ Len(r) = Len(cs) - k /\ \A i \in 1..(Len(cs) - k) : r[i] = cs[k + i]
  BY <1>1, <1>2, RestIs
<1>4. KeptFrom(cs, r, k)
  BY <1>1, <1>3 DEF KeptFrom
<1>5. PICK lead : lead \in Seq(RawByte) /\ Bytes(cs) = lead \o Bytes(r)
  BY <1>1, <1>2, BytesSplit
<1>6. Bytes(r) \in Seq(RawByte) /\ Bytes(cs) \in Seq(RawByte)
  BY <1>3, ChunkedSeq
<1>7. Len(lead) \in Nat /\ Len(Bytes(r)) \in Nat /\ Len(Bytes(cs)) = Len(lead) + Len(Bytes(r)) /\ Left(cs, k) = Len(Bytes(r))
  BY <1>2, <1>5, <1>6, ConcatProperties, LenProperties DEF Left
<1>8. k = 0 => Len(lead) = 0
  <2>1. SUFFICES ASSUME k = 0 PROVE Len(lead) = 0
    OBVIOUS
  <2>2. r = cs
    BY <1>2, <2>1, RestNone
  <2> QED
    BY <1>7, <2>2
<1>9. k > 0 => Len(Bytes(r)) >= Budget
  BY <1>7, LeftOver
<1>10. Len(Bytes(cs)) <= Budget => k = 0
  <2>1. SUFFICES ASSUME Len(Bytes(cs)) <= Budget, k > 0 PROVE FALSE
    BY <1>1
  <2>2. 0 \in 0..(k - 1)
    BY <1>1, <2>1
  <2>3. ~Stops(cs, 0)
    BY <2>2 DEF Dropped
  <2>4. Left(cs, 0) = Len(Bytes(cs))
    BY RestNone DEF Left
  <2> QED
    BY <2>1, <2>3, <2>4 DEF Stops
<1>11. Len(lead) = 0 => lead = <<>>
  BY <1>5, EmptySeq
<1>12. Evicted(cs, r, lead)
  <2>1. Len(Bytes(r)) <= Budget
    BY <1>7
  <2>2. Len(Bytes(cs)) <= Budget => lead = <<>>
    BY <1>8, <1>10, <1>11
  <2>3. ASSUME NEW i \in 1..Len(lead), i + Budget > Len(Bytes(cs)) PROVE lead[i].kind = "c"
    BY <1>1, <1>7, <1>8, <1>9, <2>3
  <2> QED
    BY <1>5, <1>6, <2>1, <2>2, <2>3 DEF Evicted, Gone
<1> QED
  BY <1>2, <1>4, <1>12

\* Eviction that cuts a chunk: what is left, and its bytes.
LEMMA CutIs ==
  ASSUME NEW cs, cs \in Seq(Chunk), NEW kept, NEW k, NEW cut, Shortened(cs, kept, k, cut),
         Dropped(cs, k), Left(cs, k) > Budget
  PROVE  /\ KeptFrom(cs, kept, k)
         /\ Bytes(kept) = SubSeq(cs[k + 1].data, cut + 1, Len(cs[k + 1].data)) \o Bytes(Rest(cs, k + 1))
<1>1. k \in 0..(Len(cs) - 1) /\ k \in 0..Len(cs) /\ k + 1 \in 0..Len(cs) /\ k + 1 \in 1..Len(cs) /\ Len(cs) \in Nat
      /\ k \in Nat /\ Budget \in Nat
  BY TailAssumption DEF Dropped, Shortened
<1>2. PICK d, r, q, n : d = cs[k + 1].data /\ r = Rest(cs, k) /\ q = Rest(cs, k + 1) /\ n = Len(cs) - (k + 1)
  OBVIOUS
<1>3. r \in Seq(Chunk) /\ Len(r) = Len(cs) - k /\ \A i \in 1..(Len(cs) - k) : r[i] = cs[k + i]
  BY <1>1, <1>2, RestIs
<1>4. q \in Seq(Chunk) /\ Len(q) = Len(cs) - (k + 1) /\ \A i \in 1..(Len(cs) - (k + 1)) : q[i] = cs[(k + 1) + i]
  BY <1>1, <1>2, RestIs
<1>5. d \in Seq(RawByte) /\ Len(d) \in Nat /\ DOMAIN d = 1..Len(d)
  BY <1>1, <1>2, ChunkedSeq, LenProperties
<1>6. cut \in (Left(cs, k) - Budget)..Len(d) /\ Left(cs, k) \in Nat /\ cut \in Nat
  BY <1>1, <1>2, <1>5, LeftType DEF Shortened, Cut
<1>7. PICK h : h = SubSeq(d, cut + 1, Len(d))
  OBVIOUS
<1>8. h \in Seq(RawByte) /\ Len(h) = Len(d) - cut /\ \A j \in 1..Len(h) : h[j] = d[cut + j]
  <2>1. cut \in Nat /\ Len(d) \in Nat /\ cut <= Len(d) /\ Len(d) <= Len(d) /\ d \in Seq(RawByte)
    BY <1>5, <1>6
  <2>2. /\ SubSeq(d, cut + 1, Len(d)) \in Seq(RawByte) /\ Len(SubSeq(d, cut + 1, Len(d))) = Len(d) - cut
        /\ \A j \in 1..(Len(d) - cut) : SubSeq(d, cut + 1, Len(d))[j] = d[cut + j]
    BY <2>1, Slice
  <2>3. h \in Seq(RawByte) /\ Len(h) = Len(d) - cut /\ \A j \in 1..(Len(d) - cut) : h[j] = d[cut + j]
    BY <1>7, <2>2
  <2> QED
    BY <2>3
<1>9. r[1] = cs[k + 1] /\ 1 \in 1..Len(r) /\ r[1].data = d
  BY <1>1, <1>2, <1>3
<1>10. kept = [r EXCEPT ![1].data = h]
  BY <1>2, <1>7, <1>9 DEF Shortened
<1>11. kept[1].stream = cs[k + 1].stream /\ kept[1].data = h /\ kept[1] \in Chunk
  <2>1. kept[1] = [r[1] EXCEPT !.data = h]
    BY <1>3, <1>9, <1>10
  <2>2. r[1] \in Chunk
    BY <1>3, <1>9
  <2> QED
    BY <1>8, <1>9, <2>1, <2>2 DEF Chunk
<1>12. Len(kept) = Len(cs) - k /\ \A i \in 2..Len(kept) : kept[i] = cs[k + i]
  BY <1>1, <1>3, <1>10
<1>13. kept \in Seq(Chunk)
  <2>1. [r[1] EXCEPT !.data = h] \in Chunk
    <3>1. r[1] \in Chunk
      BY <1>3, <1>9
    <3> QED
      BY <1>8, <3>1 DEF Chunk
  <2>2. kept = [r EXCEPT ![1] = [r[1] EXCEPT !.data = h]]
    BY <1>10
  <2> HIDE DEF Chunk
  <2> QED
    BY <1>3, <1>9, <2>1, <2>2, ExceptSeq
<1>14. KeptFrom(cs, kept, k)
  <2>1. ASSUME NEW i \in 1..Len(kept)
        PROVE /\ kept[i].stream = cs[k + i].stream
              /\ i > 1 => kept[i] = cs[k + i]
              /\ \A j \in 1..Len(kept[i].data) : \E m \in 1..Len(cs[k + i].data) : kept[i].data[j] = cs[k + i].data[m]
    <3>1. CASE i = 1
      <4>1. \A j \in 1..Len(h) : cut + j \in 1..Len(d)
        BY <1>5, <1>6, <1>8
      <4>2. \A j \in 1..Len(h) : \E m \in 1..Len(d) : h[j] = d[m]
        BY <1>8, <4>1
      <4> QED
        BY <1>2, <1>11, <3>1, <4>2
    <3>2. CASE i > 1
      BY <1>12, <3>2
    <3> QED
      BY <1>12, <3>1, <3>2
  <2> QED
    BY <1>1, <1>12, <1>13, <2>1 DEF KeptFrom
<1>15. Bytes(kept) = h \o Bytes(q)
  <2>1. PICK one, l : one = <<kept[1]>> /\ l = 1 + n
    OBVIOUS
  <2>2. Chunked(one, 1, RawByte) /\ one[1].data = h
    BY <1>8, <1>11, <2>1 DEF Chunked
  <2>3. l = Len(kept) /\ n = Len(q) /\ n \in Nat
    BY <1>1, <1>2, <1>4, <1>12, <2>1
  <2>4. Chunked(kept, l, RawByte) /\ Chunked(q, n, RawByte)
    BY <1>4, <1>13, <2>3, ChunkedSeq
  <2>5. Joined(kept, l, one, 1, q, n)
    <3>1. \A i \in 1..1 : kept[i].data = one[i].data
      BY <1>11, <2>2
    <3>2. ASSUME NEW i \in 1..n PROVE kept[1 + i].data = q[i].data
      <4>1. 1 + i \in 2..Len(kept) /\ k + (1 + i) = (k + 1) + i /\ i \in 1..(Len(cs) - (k + 1))
        BY <1>1, <1>2, <1>12
      <4> QED
        BY <1>4, <1>12, <4>1
    <3> QED
      BY <2>1, <2>3, <3>1, <3>2 DEF Joined
  <2>6. Bytes(kept) = Bytes(one) \o Bytes(q)
    BY <2>2, <2>4, <2>5, BytesConcat
  <2>7. Bytes(one) = h
    BY <2>2, BytesOne
  <2> QED
    BY <2>6, <2>7
<1> QED
  BY <1>2, <1>7, <1>14, <1>15

\* Where the head of a chunk is cut, what goes is a head of the bytes.
LEMMA EvictHead ==
  ASSUME NEW cs, cs \in Seq(Chunk), NEW kept, NEW k, NEW cut, Shortened(cs, kept, k, cut),
         Dropped(cs, k), Left(cs, k) > Budget, Filled(cs)
  PROVE  \E lead : Evicted(cs, kept, lead)
<1>1. k \in 0..(Len(cs) - 1) /\ k \in 0..Len(cs) /\ k + 1 \in 0..Len(cs) /\ k + 1 \in 1..Len(cs) /\ Len(cs) \in Nat
      /\ k \in Nat /\ Budget \in Nat
  BY TailAssumption DEF Dropped, Shortened
<1>2. PICK d, q, h, r : /\ d = cs[k + 1].data /\ q = Bytes(Rest(cs, k + 1)) /\ h = SubSeq(d, cut + 1, Len(d))
                        /\ r = SubSeq(d, 1, cut)
  OBVIOUS
<1>3. KeptFrom(cs, kept, k) /\ Bytes(kept) = h \o q
  BY <1>2, CutIs
<1>4. d \in Seq(RawByte) /\ Len(d) \in Nat /\ DOMAIN d = 1..Len(d) /\ q \in Seq(RawByte) /\ Len(q) \in Nat
  BY <1>1, <1>2, ChunkedSeq, LenProperties, LeftType
<1>5. PICK limit : limit = Left(cs, k) - Budget
  OBVIOUS
<1>6. Cut(d, limit, cut) /\ limit \in Nat /\ limit > 0 /\ Left(cs, k) \in Nat
  BY <1>1, <1>2, <1>5, LeftType DEF Shortened
<1>7. cut \in Nat /\ limit <= cut /\ cut <= Len(d)
  <2>1. cut \in limit..Len(d)
    BY <1>6 DEF Cut
  <2>2. limit \in Nat /\ Len(d) \in Nat
    BY <1>4, <1>6
  <2> QED
    BY <2>1, <2>2
<1>8. d = r \o h /\ r \in Seq(RawByte) /\ h \in Seq(RawByte) /\ Len(r) = cut /\ Len(h) = Len(d) - cut
      /\ \A j \in 1..cut : r[j] = d[j]
  <2>1. 1 \in 1..(Len(d) + 1) /\ cut \in (1 - 1)..Len(d) /\ Len(d) \in cut..Len(d)
    BY <1>4, <1>7
  <2>2. SubSeq(d, 1, cut) \o SubSeq(d, cut + 1, Len(d)) = SubSeq(d, 1, Len(d))
    BY <1>4, <2>1, ConcatAdjacentSubSeq
  <2>3. SubSeq(d, 1, Len(d)) = d
    BY <1>4, SubSeqFull
  <2>4. 0 \in Nat /\ 0 <= cut /\ cut <= Len(d) /\ Len(d) <= Len(d) /\ 0 + 1 = 1 /\ cut - 0 = cut
    BY <1>4, <1>7
  <2>5. /\ SubSeq(d, 0 + 1, cut) \in Seq(RawByte) /\ Len(SubSeq(d, 0 + 1, cut)) = cut - 0
        /\ \A j \in 1..(cut - 0) : SubSeq(d, 0 + 1, cut)[j] = d[0 + j]
    BY <1>4, <1>7, <2>4, Slice
  <2>6. r \in Seq(RawByte) /\ Len(r) = cut /\ \A j \in 1..cut : r[j] = d[0 + j]
    BY <1>2, <2>4, <2>5
  <2>7. h \in Seq(RawByte) /\ Len(h) = Len(d) - cut
    BY <1>2, <1>4, <1>7, <2>4, Slice
  <2>8. \A j \in 1..cut : 0 + j = j
    OBVIOUS
  <2>9. \A j \in 1..cut : r[j] = d[j]
    BY <2>6, <2>8
  <2>10. d = r \o h
    BY <1>2, <2>2, <2>3
  <2> QED
    BY <2>6, <2>7, <2>9, <2>10
<1>9. Left(cs, k) = Len(d) + Len(q)
  <2>1. Bytes(Rest(cs, k)) = d \o q
    BY <1>1, <1>2, RestBytes
  <2> QED
    BY <1>4, <2>1, ConcatProperties DEF Left
<1>10. PICK before : before \in Seq(RawByte) /\ Bytes(cs) = before \o (d \o q)
  <2>1. PICK before : before \in Seq(RawByte) /\ Bytes(cs) = before \o Bytes(Rest(cs, k))
    BY <1>1, BytesSplit
  <2>2. Bytes(Rest(cs, k)) = d \o q
    BY <1>1, <1>2, RestBytes
  <2> QED
    BY <2>1, <2>2
<1>11. PICK lead, kb : lead = before \o r /\ kb = h \o q
  OBVIOUS
<1>12. lead \in Seq(RawByte) /\ kb \in Seq(RawByte) /\ Len(lead) = Len(before) + cut /\ Len(before) \in Nat
       /\ Len(kb) = Len(d) - cut + Len(q)
       /\ \A j \in 1..(Len(before) + cut) : lead[j] = IF j <= Len(before) THEN before[j] ELSE r[j - Len(before)]
  BY <1>4, <1>8, <1>10, <1>11, ConcatProperties, LenProperties
<1>13. Bytes(cs) = lead \o kb
  <2>1. d \o q = r \o (h \o q)
    <3>1. q \in Seq(RawByte) /\ r \in Seq(RawByte) /\ h \in Seq(RawByte) /\ d = r \o h
      BY <1>4, <1>8
    <3>2. (r \o h) \o q = r \o (h \o q)
      BY <3>1, ConcatAssociative
    <3> QED
      BY <3>1, <3>2
  <2>2. before \o (r \o kb) = (before \o r) \o kb
    <3>1. before \in Seq(RawByte) /\ r \in Seq(RawByte) /\ kb \in Seq(RawByte)
      BY <1>8, <1>10, <1>12
    <3> QED
      BY <3>1, ConcatAssociative
  <2> QED
    BY <1>10, <1>11, <2>1, <2>2
<1>14. Len(Bytes(cs)) = Len(before) + Len(d) + Len(q)
  <2>1. Len(Bytes(cs)) = Len(lead) + Len(kb)
    BY <1>12, <1>13, ConcatProperties
  <2> QED
    BY <1>4, <1>7, <1>12, <2>1
<1>15a. /\ Len(d) \in Nat /\ Len(q) \in Nat /\ Len(before) \in Nat /\ cut \in Nat /\ limit \in Nat /\ Budget \in Nat
        /\ Left(cs, k) \in Nat /\ limit <= cut /\ cut <= Len(d) /\ limit > 0 /\ limit = Left(cs, k) - Budget
        /\ Left(cs, k) = Len(d) + Len(q)
        /\ Len(kb) = Len(d) - cut + Len(q) /\ Len(lead) = Len(before) + cut
        /\ Len(Bytes(cs)) = Len(before) + Len(d) + Len(q)
  BY <1>1, <1>4, <1>5, <1>6, <1>7, <1>9, <1>12, <1>14
<1>15. Evicted(cs, kept, lead)
  <2>1. Len(kb) <= Budget
    BY <1>15a
  <2>2. ~(Len(Bytes(cs)) <= Budget)
    BY <1>15a
  <2>3. ASSUME NEW i \in 1..Len(lead), i + Budget > Len(Bytes(cs)) PROVE lead[i].kind = "c"
    <3>1. i - Len(before) > limit /\ i <= Len(before) + cut /\ i \in Nat
      BY <1>15a, <2>3
    <3>2. PICK j : j = i - Len(before)
      OBVIOUS
    <3>3. j \in 1..cut /\ j > limit /\ ~(i <= Len(before)) /\ i \in 1..(Len(before) + cut)
      BY <1>15a, <3>1, <3>2
    <3>4. lead[i] = r[j] /\ r[j] = d[j]
      BY <1>8, <1>12, <3>2, <3>3
    <3>5. j - 1 \in limit..(cut - 1) /\ (j - 1) + 1 = j
      BY <1>6, <1>7, <3>3
    <3>6. d[(j - 1) + 1].kind = "c"
      BY <1>6, <3>5 DEF Cut
    <3> QED
      BY <3>4, <3>5, <3>6
  <2> QED
    BY <1>3, <1>11, <1>12, <1>13, <2>1, <2>2, <2>3 DEF Evicted, Gone
<1> QED
  BY <1>15

\* What one eviction does.
LEMMA Eviction ==
  ASSUME NEW cs, cs \in Seq(Chunk), Filled(cs)
  PROVE  \E k, lead : KeptFrom(cs, Evict(cs), k) /\ Evicted(cs, Evict(cs), lead)
<1>1. PICK k : /\ Dropped(cs, k)
               /\ \/ Left(cs, k) <= Budget /\ Evict(cs) = Rest(cs, k)
                  \/ Left(cs, k) > Budget /\ \E cut : Shortened(cs, Evict(cs), k, cut)
  BY EvictIs
<1>2. CASE Left(cs, k) <= Budget /\ Evict(cs) = Rest(cs, k)
  BY <1>1, <1>2, EvictChunks
<1>3. CASE Left(cs, k) > Budget /\ \E cut : Shortened(cs, Evict(cs), k, cut)
  <2>1. PICK cut : Shortened(cs, Evict(cs), k, cut)
    BY <1>3
  <2>2. KeptFrom(cs, Evict(cs), k)
    BY <1>1, <1>3, <2>1, CutIs
  <2>3. PICK lead : Evicted(cs, Evict(cs), lead)
    BY <1>1, <1>3, <2>1, EvictHead
  <2> QED
    BY <2>2, <2>3
<1> QED
  BY <1>1, <1>2, <1>3

-----------------------------------------------------------------------------
(* The tail and what was printed. *)

Printed == [stream : Streams, kind : Kinds]

\* Byte b of stream s was printed.
Sourced(arr, b, s) ==
  b.at \in 1..Len(arr) /\ arr[b.at].stream = s /\ arr[b.at].kind = b.kind

\* Every chunk holds bytes of its stream, and all but the first hold one at least.
ChunksAre(arr, cs) ==
  /\ cs \in Seq(Chunk) /\ Filled(cs)
  /\ \A i \in 1..Len(cs) : \A j \in 1..Len(cs[i].data) : Sourced(arr, cs[i].data[j], cs[i].stream)

\* r is what is left of arr.
TailIs(arr, r) ==
  LET n == Len(arr)
      lost == n - Len(r)
  IN /\ Len(r) <= n
     /\ \A i \in 1..Len(r) : r[i] = [at |-> lost + i, kind |-> arr[lost + i].kind]
     /\ \A j \in 1..lost : j + Budget > n => arr[j].kind = "c"

\* A write of m bytes: what was printed and the bytes of the chunk.
Written(arr, after, bytes, s, m) ==
  /\ m \in Nat \ {0} /\ arr \in Seq(Printed) /\ after \in Seq(Printed) /\ Len(after) = Len(arr) + m
  /\ \A i \in 1..Len(arr) : after[i] = arr[i]
  /\ bytes \in Seq(RawByte) /\ Len(bytes) = m
  /\ \A i \in 1..m : /\ bytes[i] = [at |-> Len(arr) + i, kind |-> after[Len(arr) + i].kind]
                     /\ after[Len(arr) + i].stream = s

Longer(r, all, bytes) == r \in Seq(RawByte) /\ all = r \o bytes

\* One write, one eviction.
LEMMA TailGrows ==
  ASSUME NEW arr, NEW r, NEW after, NEW bytes, NEW s, NEW m, NEW all, NEW kept, NEW lead,
         Written(arr, after, bytes, s, m), TailIs(arr, r), Longer(r, all, bytes),
         Gone(all, kept, lead)
  PROVE  TailIs(after, kept) /\ Len(after) - Len(kept) = (Len(arr) - Len(r)) + Len(lead)
<1> DEFINE n == Len(arr)
           lost == n - Len(r)
           L == Len(lead)
<1>1. m \in Nat /\ m > 0 /\ Len(after) = n + m /\ n \in Nat /\ Len(bytes) = m /\ bytes \in Seq(RawByte)
  BY DEF Written
<1>2a. kept \in Seq(RawByte) /\ lead \in Seq(RawByte) /\ all = lead \o kept
  BY DEF Gone
<1>2b. r \in Seq(RawByte) /\ all = r \o bytes
  BY DEF Longer
<1>2. Len(r) \in Nat /\ L \in Nat /\ Len(kept) \in Nat /\ Budget \in Nat
  BY <1>2a, <1>2b, LenProperties, TailAssumption
<1>3. Len(r) <= n
  BY DEF TailIs
<1>4. /\ all \in Seq(RawByte) /\ Len(all) = Len(r) + m
      /\ \A i \in 1..(Len(r) + m) : all[i] = IF i <= Len(r) THEN r[i] ELSE bytes[i - Len(r)]
  BY <1>1, <1>2b, ConcatProperties
<1>5. /\ Len(all) = L + Len(kept)
      /\ \A i \in 1..(L + Len(kept)) : all[i] = IF i <= L THEN lead[i] ELSE kept[i - L]
  BY <1>2a, ConcatProperties
<1>5a. /\ m \in Nat /\ m > 0 /\ n \in Nat /\ Len(r) \in Nat /\ L \in Nat /\ Len(kept) \in Nat /\ Budget \in Nat
       /\ Len(r) <= n /\ Len(all) = Len(r) + m /\ Len(all) = L + Len(kept) /\ lost = n - Len(r)
  BY <1>1, <1>2, <1>3, <1>4, <1>5
<1> HIDE DEF n, lost, L
<1>6. /\ lost \in Nat /\ lost <= n /\ L + Len(kept) = Len(r) + m /\ (n + m) - Len(kept) = lost + L /\ Len(kept) <= n + m
      /\ lost + Len(r) = n
  <2>1. PICK a, b : a = Len(r) /\ b = Len(kept)
    OBVIOUS
  <2>2. a \in Nat /\ b \in Nat /\ a <= n /\ L + b = a + m /\ lost = n - a /\ n \in Nat /\ m \in Nat /\ L \in Nat
    BY <1>5a, <2>1
  <2>3. lost \in Nat /\ lost <= n /\ lost + a = n
    BY <2>2
  <2>4. (n + m) - b = lost + L /\ b <= n + m
    BY <2>2
  <2> QED
    BY <2>1, <2>2, <2>3, <2>4
<1>7. ASSUME NEW i \in 1..(Len(r) + m) PROVE all[i] = [at |-> lost + i, kind |-> after[lost + i].kind]
  <2>1. CASE i <= Len(r)
    <3>1. i \in 1..Len(r) /\ lost + i \in 1..n
      BY <1>5a, <1>6, <2>1
    <3>2. r[i] = [at |-> lost + i, kind |-> arr[lost + i].kind]
      BY <3>1 DEF TailIs, lost, n
    <3>3. after[lost + i] = arr[lost + i]
      BY <3>1 DEF Written, n
    <3> QED
      BY <1>4, <2>1, <3>2, <3>3
  <2>2. CASE ~(i <= Len(r))
    <3>1. PICK j : j = i - Len(r)
      OBVIOUS
    <3>2. j \in 1..m /\ n + j = lost + i
      BY <1>5a, <1>6, <2>2, <3>1
    <3>3. bytes[j] = [at |-> n + j, kind |-> after[n + j].kind]
      BY <3>2 DEF Written, n
    <3> QED
      BY <1>4, <2>2, <3>1, <3>2, <3>3
  <2> QED
    BY <2>1, <2>2
<1>8. ASSUME NEW i \in 1..Len(kept) PROVE kept[i] = [at |-> (lost + L) + i, kind |-> after[(lost + L) + i].kind]
  <2>1. PICK j : j = L + i
    OBVIOUS
  <2>2. j \in 1..(L + Len(kept)) /\ ~(j <= L) /\ j - L = i /\ lost + j = (lost + L) + i /\ j \in 1..(Len(r) + m)
    BY <1>5a, <1>6, <2>1
  <2>3. all[j] = kept[i]
    BY <1>5, <2>2
  <2>4. all[j] = [at |-> lost + j, kind |-> after[lost + j].kind]
    BY <1>7, <2>2
  <2> QED
    BY <2>2, <2>3, <2>4
<1>9. ASSUME NEW j \in 1..(lost + L), j + Budget > n + m PROVE after[j].kind = "c"
  <2>1. CASE j <= lost
    <3>1. j \in 1..lost /\ j + Budget > n /\ j \in 1..n
      BY <1>5a, <1>6, <1>9, <2>1
    <3>2. arr[j].kind = "c"
      BY <3>1 DEF TailIs, lost, n
    <3>3. after[j] = arr[j]
      BY <3>1 DEF Written, n
    <3> QED
      BY <3>2, <3>3
  <2>2. CASE ~(j <= lost)
    <3>1. PICK i : i = j - lost
      OBVIOUS
    <3>2. i \in 1..L /\ i + Budget > Len(all) /\ lost + i = j /\ i \in 1..(Len(r) + m) /\ i \in 1..(L + Len(kept)) /\ i <= L
      <4>1. PICK c, e, t : c = Len(kept) /\ e = Len(r) /\ t = Len(all)
        OBVIOUS
      <4>2. /\ c \in Nat /\ e \in Nat /\ t = e + m /\ t = L + c /\ lost + e = n /\ n \in Nat /\ m \in Nat
            /\ L \in Nat /\ lost \in Nat /\ Budget \in Nat
        BY <1>5a, <1>6, <4>1
      <4>3. j \in Nat /\ j <= lost + L /\ j > lost /\ j + Budget > n + m
        BY <1>9, <2>2, <4>2
      <4>4. i \in Nat /\ i >= 1 /\ i <= L /\ lost + i = j
        BY <3>1, <4>2, <4>3
      <4>5. i + Budget > t
        BY <4>2, <4>3, <4>4
      <4>6. i <= e + m /\ i <= L + c
        BY <4>2, <4>4
      <4>7. i \in 1..L /\ i \in 1..(e + m) /\ i \in 1..(L + c)
        BY <4>2, <4>4, <4>6
      <4> QED
        BY <4>1, <4>4, <4>5, <4>7
    <3>3. lead[i].kind = "c"
      BY <3>2 DEF L, Gone
    <3>4. all[i] = lead[i]
      BY <1>5, <3>2
    <3>5. all[i] = [at |-> lost + i, kind |-> after[lost + i].kind]
      BY <1>7, <3>2
    <3> QED
      BY <3>2, <3>3, <3>4, <3>5
  <2> QED
    BY <2>1, <2>2
<1>11. Len(after) - Len(kept) = lost + L /\ Len(after) = n + m
  BY <1>1, <1>6
<1>12. TailIs(after, kept)
  BY <1>6, <1>8, <1>9, <1>11 DEF TailIs
<1> QED
  BY <1>11, <1>12 DEF lost, L, n

\* A chunk more at the end.
LEMMA AppendIs ==
  ASSUME NEW cs, cs \in Seq(Chunk), NEW c, c \in Chunk, NEW all, all = Append(cs, c)
  PROVE  /\ all \in Seq(Chunk) /\ Len(all) = Len(cs) + 1 /\ all[Len(cs) + 1] = c
         /\ \A i \in 1..Len(cs) : all[i] = cs[i]
         /\ Bytes(all) = Bytes(cs) \o c.data
<1> HIDE DEF Chunk
<1>1. /\ all \in Seq(Chunk) /\ Len(all) = Len(cs) + 1 /\ all[Len(cs) + 1] = c
      /\ \A i \in 1..Len(cs) : all[i] = cs[i]
  BY AppendProperties
<1>2. PICK n, l, one : n = Len(cs) /\ l = Len(all) /\ one = <<c>>
  OBVIOUS
<1>3. c.data \in Seq(RawByte)
  BY DEF Chunk
<1>4. Chunked(cs, n, RawByte) /\ Chunked(all, l, RawByte) /\ n \in Nat
  BY <1>1, <1>2, ChunkedSeq
<1>5. Chunked(one, 1, RawByte) /\ one[1] = c
  BY <1>2, <1>3 DEF Chunked
<1>6. Joined(all, l, cs, n, one, 1)
  <2>1. \A i \in 1..n : all[i].data = cs[i].data
    BY <1>1, <1>2
  <2>2. \A i \in 1..1 : all[n + i].data = one[i].data
    BY <1>1, <1>2, <1>5
  <2> QED
    BY <1>1, <1>2, <1>4, <2>1, <2>2 DEF Joined
<1>7. Bytes(all) = Bytes(cs) \o Bytes(one)
  BY <1>4, <1>5, <1>6, BytesConcat
<1>8. Bytes(one) = c.data
  BY <1>5, BytesOne
<1> QED
  BY <1>1, <1>7, <1>8

\* A write adds a chunk.
Gained(cs, all, s, bytes) == all = Append(cs, [stream |-> s, data |-> bytes])

\* A write adds a chunk of its stream.
LEMMA ChunksGrow ==
  ASSUME NEW arr, NEW after, NEW bytes, NEW s, NEW m, Written(arr, after, bytes, s, m), s \in Streams,
         NEW cs, ChunksAre(arr, cs), NEW all, Gained(cs, all, s, bytes)
  PROVE  ChunksAre(after, all)
<1> DEFINE n == Len(cs)
           c == [stream |-> s, data |-> bytes]
<1>1. /\ m \in Nat /\ m > 0 /\ Len(after) = Len(arr) + m /\ Len(arr) \in Nat /\ bytes \in Seq(RawByte) /\ Len(bytes) = m
  BY DEF Written
<1>2. cs \in Seq(Chunk) /\ n \in Nat /\ Filled(cs)
  BY DEF ChunksAre
<1>3. c \in Chunk
  BY <1>1 DEF Chunk
<1>4. all \in Seq(Chunk) /\ Len(all) = n + 1 /\ all[n + 1] = c /\ \A i \in 1..n : all[i] = cs[i]
  BY <1>2, <1>3, AppendIs DEF Gained
<1>5. c.stream = s /\ c.data = bytes
  OBVIOUS
<1> HIDE DEF c, n
<1>6. bytes # <<>>
  BY <1>1
<1>10. ASSUME NEW i \in 1..n, NEW j \in 1..Len(cs[i].data)
       PROVE  Sourced(after, cs[i].data[j], cs[i].stream) /\ after[cs[i].data[j].at] = arr[cs[i].data[j].at]
  <2>1. PICK b, t : b = cs[i].data[j] /\ t = cs[i].stream
    OBVIOUS
  <2>2. Sourced(arr, b, t)
    BY <2>1 DEF ChunksAre, n
  <2>3. b.at \in 1..Len(arr) /\ arr[b.at].stream = t /\ arr[b.at].kind = b.kind
    BY <2>2 DEF Sourced
  <2>4. after[b.at] = arr[b.at]
    BY <2>3 DEF Written
  <2>5. b.at \in 1..Len(after)
    BY <1>1, <2>3
  <2> QED
    BY <2>1, <2>3, <2>4, <2>5 DEF Sourced
<1>11. ASSUME NEW j \in 1..m PROVE Sourced(after, bytes[j], s)
  <2>1. PICK a : a = Len(arr) + j
    OBVIOUS
  <2>2. bytes[j] = [at |-> a, kind |-> after[a].kind] /\ after[a].stream = s
    BY <2>1 DEF Written
  <2>3. a \in 1..Len(after)
    BY <1>1, <2>1
  <2> QED
    BY <2>2, <2>3 DEF Sourced
<1>12. \A i \in 1..Len(all) : i \in 1..n \/ i = n + 1
  BY <1>2, <1>4
<1>13. Filled(all)
  BY <1>2, <1>4, <1>5, <1>6, <1>12 DEF Filled, n
<1>14. \A i \in 1..Len(all) : \A j \in 1..Len(all[i].data) : Sourced(after, all[i].data[j], all[i].stream)
  <2>1. ASSUME NEW i \in 1..Len(all), NEW j \in 1..Len(all[i].data) PROVE Sourced(after, all[i].data[j], all[i].stream)
    <3>1. CASE i \in 1..n
      BY <1>4, <1>10, <3>1
    <3>2. CASE i = n + 1
      BY <1>1, <1>4, <1>5, <1>11, <3>2
    <3> QED
      BY <1>12, <3>1, <3>2
  <2> QED
    BY <2>1
<1> QED
  BY <1>4, <1>13, <1>14 DEF ChunksAre

\* An eviction takes chunks away.
LEMMA ChunksKept ==
  ASSUME NEW arr, NEW cs, ChunksAre(arr, cs), NEW kept, NEW k, KeptFrom(cs, kept, k)
  PROVE  ChunksAre(arr, kept)
<1>1. /\ cs \in Seq(Chunk) /\ kept \in Seq(Chunk) /\ Len(kept) = Len(cs) - k /\ k \in Nat /\ k <= Len(cs) /\ Len(cs) \in Nat
      /\ Filled(cs)
  BY DEF ChunksAre, KeptFrom
<1>2. \A i \in 1..Len(kept) : k + i \in 1..Len(cs)
  BY <1>1
<1>3. ASSUME NEW i \in 2..Len(kept) PROVE kept[i] = cs[k + i] /\ k + i \in 2..Len(cs)
  <2>1. i \in 1..Len(kept) /\ i > 1 /\ k + i \in 2..Len(cs)
    BY <1>1
  <2> QED
    BY <2>1 DEF KeptFrom
<1>4. Filled(kept)
  BY <1>1, <1>3 DEF Filled
<1>5. ASSUME NEW i \in 1..Len(kept), NEW j \in 1..Len(kept[i].data) PROVE Sourced(arr, kept[i].data[j], kept[i].stream)
  <2>1. PICK m \in 1..Len(cs[k + i].data) : kept[i].data[j] = cs[k + i].data[m]
    BY DEF KeptFrom
  <2>2. kept[i].stream = cs[k + i].stream
    BY DEF KeptFrom
  <2>3. Sourced(arr, cs[k + i].data[m], cs[k + i].stream)
    BY <1>2 DEF ChunksAre
  <2> QED
    BY <2>1, <2>2, <2>3
<1> QED
  BY <1>1, <1>4, <1>5 DEF ChunksAre

\* The tail keeps the last bytes of what was printed, in chunks of one stream each.
TailInv ==
  /\ arrived \in Seq(Printed)
  /\ ChunksAre(arrived, chunks)
  /\ TailIs(arrived, Retained)
  /\ keptBytes = Len(Retained) /\ keptBytes <= Budget
  /\ truncated \in BOOLEAN /\ (truncated <=> Len(arrived) > Len(Retained))

\* The chunk of a write.
Batch(p) == [i \in DOMAIN p |-> [at |-> Len(arrived) + i, kind |-> p[i]]]

\* The pieces of a write are what it adds to what was printed.
LEMMA BatchIs ==
  ASSUME NEW s, s \in Streams, NEW n, n \in Nat \ {0}, NEW p, p \in [1..n -> Kinds], arrived \in Seq(Printed),
         NEW q, q = [i \in DOMAIN p |-> [stream |-> s, kind |-> p[i]]]
  PROVE  Written(arrived, arrived \o q, Batch(p), s, n)
<1> DEFINE m == Len(arrived)
<1>0. m \in Nat
  OBVIOUS
<1>1. DOMAIN p = 1..n /\ \A i \in 1..n : p[i] \in Kinds
  OBVIOUS
<1>2. \A i \in 1..n : q[i] = [stream |-> s, kind |-> p[i]]
  BY <1>1
<1>3. q \in Seq(Printed) /\ Len(q) = n
  <2>1. \A i \in 1..n : [stream |-> s, kind |-> p[i]] \in Printed
    BY <1>1 DEF Printed
  <2>2. q \in [1..n -> Printed]
    <3> HIDE DEF Printed
    <3> QED
      BY <1>1, <2>1
  <2> QED
    BY <2>2
<1>4. /\ arrived \o q \in Seq(Printed) /\ Len(arrived \o q) = m + n
      /\ \A i \in 1..(m + n) : (arrived \o q)[i] = IF i <= m THEN arrived[i] ELSE q[i - m]
  BY <1>3, ConcatProperties
<1>5. PICK after : after = arrived \o q
  OBVIOUS
<1> HIDE DEF m
<1>6. \A i \in 1..m : after[i] = arrived[i]
  <2>1. \A i \in 1..m : i \in 1..(m + n) /\ i <= m
    BY <1>0
  <2> QED
    BY <1>4, <1>5, <2>1
<1>7. ASSUME NEW i \in 1..n PROVE after[m + i] = [stream |-> s, kind |-> p[i]]
  <2>1. m + i \in 1..(m + n) /\ ~(m + i <= m) /\ (m + i) - m = i
    BY <1>0
  <2>2. after[m + i] = q[i]
    BY <1>4, <1>5, <2>1
  <2> QED
    BY <1>2, <2>2
<1>8. PICK b : b = Batch(p)
  OBVIOUS
<1>9. \A i \in 1..n : b[i] = [at |-> m + i, kind |-> p[i]]
  BY <1>1, <1>8 DEF Batch, m
<1>10. b \in Seq(RawByte) /\ Len(b) = n
  <2>1. \A i \in 1..n : [at |-> m + i, kind |-> p[i]] \in RawByte
    BY <1>0, <1>1 DEF RawByte
  <2>2. b = [i \in 1..n |-> [at |-> m + i, kind |-> p[i]]]
    BY <1>1, <1>8 DEF Batch, m
  <2>3. b \in [1..n -> RawByte]
    <3> HIDE DEF RawByte
    <3> QED
      BY <2>1, <2>2
  <2> QED
    BY <2>3
<1>11. \A i \in 1..n : b[i] = [at |-> m + i, kind |-> after[m + i].kind] /\ after[m + i].stream = s
  BY <1>7, <1>9
<1>13. after \in Seq(Printed) /\ Len(after) = m + n
  BY <1>4, <1>5
<1>14. Written(arrived, after, b, s, n)
  BY <1>6, <1>10, <1>11, <1>13 DEF Written, m
<1> QED
  BY <1>5, <1>8, <1>14

\* What a write does to the tail.
LEMMA WriteIs ==
  ASSUME NEW s, s \in Streams, NEW n, n \in Nat \ {0}, NEW p, p \in [1..n -> Kinds], arrived \in Seq(Printed),
         Write(s, p)
  PROVE  /\ Written(arrived, arrived', Batch(p), s, n)
         /\ chunks' = Evict(Append(chunks, [stream |-> s, data |-> Batch(p)]))
         /\ keptBytes' = Len(Bytes(chunks'))
         /\ truncated' = (truncated \/ Len(Bytes(Append(chunks, [stream |-> s, data |-> Batch(p)]))) > Budget)
         /\ hashes' = [hashes EXCEPT ![s] = @ \o Batch(p)]
<1>1. PICK q : q = [i \in DOMAIN p |-> [stream |-> s, kind |-> p[i]]]
  OBVIOUS
<1>2. Written(arrived, arrived \o q, Batch(p), s, n)
  BY <1>1, BatchIs
<1>3. arrived' = arrived \o q
  BY <1>1 DEF Write
<1>4. PICK b : b = Batch(p)
  OBVIOUS
<1>5. /\ chunks' = Evict(Append(chunks, [stream |-> s, data |-> b]))
      /\ keptBytes' = SizeOf(Evict(Append(chunks, [stream |-> s, data |-> b])))
      /\ truncated' = (truncated \/ SizeOf(Append(chunks, [stream |-> s, data |-> b])) > Budget)
      /\ hashes' = [hashes EXCEPT ![s] = @ \o b]
  BY <1>4 DEF Write, Batch
<1> QED
  BY <1>2, <1>3, <1>4, <1>5 DEF SizeOf

\* A write keeps TailInv: it appends and then evicts.
LEMMA WriteKeepsTail ==
  ASSUME NEW s, s \in Streams, NEW n, n \in Nat \ {0}, NEW p, p \in [1..n -> Kinds], TailInv, Write(s, p)
  PROVE  TailInv'
<1>1. PICK b, all, kept : b = Batch(p) /\ all = Append(chunks, [stream |-> s, data |-> b]) /\ kept = Evict(all)
  OBVIOUS
<1>2. /\ Written(arrived, arrived', b, s, n) /\ chunks' = kept /\ keptBytes' = Len(Bytes(kept))
      /\ truncated' = (truncated \/ Len(Bytes(all)) > Budget)
  BY <1>1, WriteIs DEF TailInv
<1>3. ChunksAre(arrived', all)
  <2>1. PICK z, a, cs : z = arrived /\ a = arrived' /\ cs = chunks
    OBVIOUS
  <2>2. Written(z, a, b, s, n) /\ ChunksAre(z, cs) /\ Gained(cs, all, s, b)
    BY <1>1, <1>2, <2>1 DEF TailInv, Gained
  <2>3. ChunksAre(a, all)
    BY <2>2, ChunksGrow
  <2> QED
    BY <2>1, <2>3
<1>4. PICK k, lead : KeptFrom(all, kept, k) /\ Evicted(all, kept, lead)
  BY <1>1, <1>3, Eviction DEF ChunksAre
<1>5. ChunksAre(arrived', kept)
  BY <1>3, <1>4, ChunksKept
<1>7. Bytes(all) = Bytes(chunks) \o b /\ Bytes(chunks) \in Seq(RawByte) /\ b \in Seq(RawByte) /\ Len(b) = n
  <2>1. b \in Seq(RawByte) /\ Len(b) = n
    BY <1>2 DEF Written
  <2>2. PICK c : c = [stream |-> s, data |-> b]
    OBVIOUS
  <2>3. c \in Chunk /\ c.data = b
    BY <2>1, <2>2 DEF Chunk
  <2>4. chunks \in Seq(Chunk) /\ all = Append(chunks, c)
    BY <1>1, <2>2 DEF TailInv, ChunksAre
  <2> QED
    BY <2>1, <2>3, <2>4, AppendIs, ChunkedSeq
<1>8. TailIs(arrived', Bytes(kept)) /\ Len(arrived') - Len(Bytes(kept)) = (Len(arrived) - Len(Bytes(chunks))) + Len(lead)
  <2>1. TailIs(arrived, Bytes(chunks))
    BY DEF TailInv, Retained
  <2>2. PICK r, l, o, a, z : r = Bytes(chunks) /\ l = Bytes(all) /\ o = Bytes(kept) /\ a = arrived' /\ z = arrived
    OBVIOUS
  <2>3. Written(z, a, b, s, n) /\ TailIs(z, r) /\ Longer(r, l, b)
    BY <1>2, <1>7, <2>1, <2>2 DEF Longer
  <2>4. Gone(l, o, lead)
    BY <1>4, <2>2 DEF Evicted
  <2>5. TailIs(a, o) /\ Len(a) - Len(o) = (Len(z) - Len(r)) + Len(lead)
    BY <2>3, <2>4, TailGrows
  <2> QED
    BY <2>2, <2>5
<1>9. arrived' \in Seq(Printed)
  BY <1>2 DEF Written
<1>10. Len(Bytes(kept)) <= Budget /\ (Len(Bytes(all)) <= Budget => lead = <<>>) /\ lead \in Seq(RawByte)
       /\ Bytes(kept) \in Seq(RawByte) /\ Bytes(all) = lead \o Bytes(kept)
  BY <1>4 DEF Evicted, Gone
<1>11. truncated' \in BOOLEAN /\ (truncated' <=> Len(arrived') > Len(Bytes(kept)))
  <2>1. PICK x, y, u, v, w, t : /\ x = Len(arrived) /\ y = Len(Bytes(chunks)) /\ u = Len(arrived') /\ v = Len(Bytes(kept))
                                /\ w = Len(lead) /\ t = Len(Bytes(all))
    OBVIOUS
  <2>2. x \in Nat /\ y \in Nat /\ u \in Nat /\ v \in Nat /\ w \in Nat /\ t \in Nat /\ y <= x /\ Budget \in Nat
        /\ u - v = (x - y) + w /\ t = w + v /\ v <= Budget /\ (truncated <=> x > y) /\ truncated \in BOOLEAN
    <3>1. x \in Nat /\ y \in Nat /\ u \in Nat /\ v \in Nat /\ w \in Nat
      BY <1>7, <1>9, <1>10, <2>1, LenProperties DEF TailInv
    <3>2. t = w + v
      BY <1>10, <2>1, ConcatProperties
    <3>3. y <= x /\ (truncated <=> x > y) /\ truncated \in BOOLEAN
      BY <2>1 DEF TailInv, TailIs, Retained
    <3>4. u - v = (x - y) + w /\ v <= Budget
      BY <1>8, <1>10, <2>1
    <3> QED
      BY <3>1, <3>2, <3>3, <3>4, TailAssumption
  <2>3. t <= Budget => w = 0
    BY <1>10, <2>1
  <2>4. t > Budget <=> w > 0
    BY <2>2, <2>3
  <2>5. u > v <=> (x > y \/ w > 0)
    BY <2>2
  <2>6. truncated' = (truncated \/ t > Budget)
    BY <1>2, <2>1
  <2>7. truncated' \in BOOLEAN /\ (truncated' <=> truncated \/ t > Budget)
    BY <2>6
  <2> QED
    BY <2>1, <2>2, <2>4, <2>5, <2>7
<1> QED
  BY <1>2, <1>5, <1>8, <1>9, <1>10, <1>11 DEF TailInv, Retained

\* No other action touches the tail.
LEMMA TailSteps ==
  ASSUME TailInv, [Next]_vars
  PROVE  TailInv'
<1>1. ASSUME NEW s \in Streams, NEW n \in 1..MaxWrite, NEW p \in [1..n -> Kinds], Write(s, p) PROVE TailInv'
  <2>1. n \in Nat \ {0}
    OBVIOUS
  <2> QED
    BY <1>1, <2>1, WriteKeepsTail
<1>2. ASSUME UNCHANGED arrived, UNCHANGED tail PROVE TailInv'
  BY <1>2 DEF TailInv, tail, Retained
<1>3. ASSUME NEW s \in Streams, UpdateCombined(s) \/ UpdateSum(s) \/ UpdateRunningOutput(s) \/ EndOfStream(s) PROVE TailInv'
  BY <1>2, <1>3 DEF UpdateCombined, UpdateSum, UpdateRunningOutput, EndOfStream
<1>4. ASSUME Publish \/ Forget PROVE TailInv'
  BY <1>2, <1>4 DEF Publish, Forget
<1>5. ASSUME UNCHANGED vars PROVE TailInv'
  BY <1>2, <1>5 DEF vars
<1> QED
  BY <1>1, <1>3, <1>4, <1>5 DEF Next

\* The empty tail is the tail of nothing.
LEMMA TailInit ==
  ASSUME Init
  PROVE  TailInv
<1>1. arrived = <<>> /\ chunks = <<>> /\ keptBytes = 0 /\ truncated = FALSE
  BY DEF Init
<1>2. Retained = <<>>
  <2>1. DOMAIN chunks = {}
    BY <1>1
  <2> QED
    BY <2>1, BytesEmpty DEF Retained
<1>3. ChunksAre(arrived, chunks)
  BY <1>1 DEF ChunksAre, Filled
<1>4. TailIs(arrived, Retained)
  BY <1>1, <1>2 DEF TailIs
<1>5. arrived \in Seq(Printed) /\ Len(Retained) = 0 /\ Len(arrived) = 0
  BY <1>1, <1>2
<1>6. keptBytes = Len(Retained) /\ keptBytes <= Budget
  BY <1>1, <1>5, TailAssumption
<1>7. truncated \in BOOLEAN /\ ~truncated
  BY <1>1
<1>8. ~(Len(arrived) > Len(Retained))
  BY <1>5
<1> QED
  BY <1>3, <1>4, <1>5, <1>6, <1>7, <1>8 DEF TailInv

\* TailInv is as strong as RetainedIsTail.
LEMMA TailGives ==
  ASSUME TailInv
  PROVE  RetainedIsTail
<1>1. PICK r : r = Retained
  OBVIOUS
<1>2. r \in Seq(RawByte)
  BY <1>1, ChunkedSeq DEF TailInv, ChunksAre, Retained
<1>3. DOMAIN r = 1..Len(r) /\ Len(r) \in Nat /\ Len(arrived) \in Nat
  BY <1>2 DEF TailInv
<1>4. TailIs(arrived, r) /\ keptBytes = Len(r) /\ keptBytes <= Budget /\ (truncated <=> Len(arrived) > Len(r))
  BY <1>1 DEF TailInv
<1>5. truncated <=> Len(arrived) - Len(r) > 0
  BY <1>3, <1>4
<1> QED
  BY <1>1, <1>3, <1>4, <1>5 DEF RetainedIsTail, TailIs

-----------------------------------------------------------------------------
(* The texts that are made of the tail. *)

\* A set of bytes that holds the masks of its members.
Masking(Y) == \A b \in Y : [at |-> b.at, kind |-> "*"] \in Y

MaskStep(out, b) ==
  IF b.kind = "k2" /\ out # <<>> /\ Last(out).kind = "k1"
  THEN Append(Front(out), [at |-> Last(out).at, kind |-> "*"])
  ELSE Append(out, b)

\* The members of a sequence but the last.
LEMMA FrontIs ==
  ASSUME NEW Y, NEW out, out \in Seq(Y), out # <<>>
  PROVE  /\ Front(out) \in Seq(Y) /\ Last(out) \in Y /\ Len(out) \in Nat \ {0} /\ Last(out) = out[Len(out)]
         /\ Len(Front(out)) = Len(out) - 1 /\ \A i \in 1..(Len(out) - 1) : Front(out)[i] = out[i]
<1>1. Len(out) \in Nat \ {0}
  BY EmptySeq
<1>2. PICK f, m : f = SubSeq(out, 1, m) /\ m = Len(out) - 1
  OBVIOUS
<1>3. 0 \in Nat /\ m \in Nat /\ 0 <= m /\ m <= Len(out) /\ m - 0 = m /\ 0 + 1 = 1 /\ \A i \in 1..m : 0 + i = i
  BY <1>1, <1>2
<1>4. /\ SubSeq(out, 0 + 1, m) \in Seq(Y) /\ Len(SubSeq(out, 0 + 1, m)) = m - 0
      /\ \A i \in 1..(m - 0) : SubSeq(out, 0 + 1, m)[i] = out[0 + i]
  BY <1>3, Slice
<1>5. f \in Seq(Y) /\ Len(f) = m /\ \A i \in 1..m : f[i] = out[0 + i]
  BY <1>2, <1>3, <1>4
<1>6. Len(f) = Len(out) - 1
  BY <1>2, <1>5
<1>7. \A i \in 1..(Len(out) - 1) : f[i] = out[i]
  BY <1>2, <1>3, <1>5
<1>8. Front(out) = f /\ Last(out) = out[Len(out)]
  BY <1>2 DEF Front, Last
<1>9. out[Len(out)] \in Y
  BY <1>1
<1> QED
  BY <1>1, <1>5, <1>6, <1>7, <1>8, <1>9

\* A byte more, masked where it ends a secret, is in the same set.
LEMMA MaskStepIn ==
  ASSUME NEW Y, Masking(Y), NEW out, out \in Seq(Y), NEW b, b \in Y
  PROVE  MaskStep(out, b) \in Seq(Y)
<1>1. CASE b.kind = "k2" /\ out # <<>> /\ Last(out).kind = "k1"
  <2>1. PICK f, l : f = Front(out) /\ l = [at |-> Last(out).at, kind |-> "*"]
    OBVIOUS
  <2>2. f \in Seq(Y) /\ l \in Y
    BY <1>1, <2>1, FrontIs DEF Masking
  <2>3. Append(f, l) \in Seq(Y)
    BY <2>2
  <2> QED
    BY <1>1, <2>1, <2>3 DEF MaskStep
<1>2. CASE ~(b.kind = "k2" /\ out # <<>> /\ Last(out).kind = "k1")
  <2>1. Append(out, b) \in Seq(Y)
    OBVIOUS
  <2> QED
    BY <1>2, <2>1 DEF MaskStep
<1> QED
  BY <1>1, <1>2

\* The text with the secrets of its first bytes masked.
Masks(text, n, g) == g[0] = <<>> /\ \A i \in 1..n : g[i] = MaskStep(g[i - 1], text[i])

\* The fold that Redact is made of, as a function of the number of bytes so far.
LEMMA RedactFold ==
  ASSUME NEW Y, Masking(Y), NEW text, text \in Seq(Y), NEW n, n = Len(text)
  PROVE  \E g : Masks(text, n, g) /\ Redact(text) = g[n] /\ \A i \in 0..n : g[i] \in Seq(Y)
<1> DEFINE B == Seq(Y)
           Form(it) == it = [s \in SUBSET (1..n) |->
                              IF s = {} THEN <<>> ELSE MaskStep(it[s \ {Max(s)}], text[Max(s)])]
           c == CHOOSE it : Form(it)
           F(D) == [i \in 1..n |-> [a \in D |-> MaskStep(a, text[i])]]
<1>0. n \in Nat /\ DOMAIN text = 1..n /\ \A i \in 1..n : text[i] \in Y
  OBVIOUS
<1>1. Redact(text) = c[1..n]
  BY <1>0 DEF Redact, FoldLeft, MapThenFoldSet, MaskStep
<1>2. \A s \in SUBSET (1..n) : s # {} => Max(s) \in 1..n /\ s \ {Max(s)} \in SUBSET (1..n)
  BY <1>0, Earlier
<1>3. ASSUME NEW D, B \subseteq D PROVE Closed(F(D), <<>>, n, B)
  <2>1. <<>> \in B
    OBVIOUS
  <2>2. \A i \in 1..n, a \in B : MaskStep(a, text[i]) \in B
    BY <1>0, MaskStepIn
  <2> QED
    BY <1>3, <2>1, <2>2 DEF Closed
<1>4. Form(c)
  <2>1. PICK it : Folding(F(B), <<>>, n, it) /\ \A s \in SUBSET (1..n) : it[s] \in B
    <3> HIDE DEF B, F
    <3> QED
      BY <1>0, <1>3, FoldIn
  <2>2. Form(it)
    BY <1>2, <2>1 DEF Folding
  <2> HIDE DEF Form
  <2> QED
    BY <2>2
<1> DEFINE D == B \cup {c[s] : s \in SUBSET (1..n)}
<1>5. Folding(F(D), <<>>, n, c)
  <2> HIDE DEF c, B
  <2> QED
    BY <1>2, <1>4 DEF Folding
<1>6. PICK g : Steps(F(D), <<>>, n, g) /\ g[n] = c[1..n] /\ \A i \in 0..n : g[i] \in B
  <2>1. Closed(F(D), <<>>, n, B)
    BY <1>3
  <2> HIDE DEF c, F, B, D
  <2> QED
    BY <1>0, <1>5, <2>1, FoldIs
<1>7. \A i \in 1..n : g[i] = MaskStep(g[i - 1], text[i])
  <2>1. \A i \in 1..n : i - 1 \in 0..n
    BY <1>0
  <2>2. \A i \in 1..n : g[i - 1] \in D
    BY <1>6, <2>1
  <2> HIDE DEF D
  <2> QED
    BY <1>6, <2>2 DEF Steps
<1>8. g[0] = <<>>
  BY <1>6 DEF Steps
<1> HIDE DEF c, B
<1> QED
  BY <1>1, <1>6, <1>7, <1>8 DEF Masks, B

\* No secret is left: redacting the next byte keeps it so.
LEMMA MaskStepMasks ==
  ASSUME NEW Y, NEW out, out \in Seq(Y), NEW b, Split(out) = {}
  PROVE  Split(MaskStep(out, b)) = {} /\ MaskStep(out, b) # <<>>
<1>1. CASE b.kind = "k2" /\ out # <<>> /\ Last(out).kind = "k1"
  <2>1. PICK f, l, t : f = Front(out) /\ l = [at |-> Last(out).at, kind |-> "*"] /\ t = Append(f, l)
    OBVIOUS
  <2>2. f \in Seq(Y) /\ Len(out) \in Nat \ {0} /\ Len(f) = Len(out) - 1 /\ \A i \in 1..(Len(out) - 1) : f[i] = out[i]
    <3>1. out # <<>>
      BY <1>1
    <3>2. /\ Front(out) \in Seq(Y) /\ Len(out) \in Nat \ {0}
          /\ Len(Front(out)) = Len(out) - 1 /\ \A i \in 1..(Len(out) - 1) : Front(out)[i] = out[i]
      BY <3>1, FrontIs
    <3> QED
      BY <2>1, <3>2
  <2>3. Len(t) = Len(out) /\ t[Len(out)] = l /\ \A i \in 1..(Len(out) - 1) : t[i] = out[i]
    BY <2>1, <2>2
  <2>4. l.kind = "*"
    BY <2>1
  <2>5. ASSUME NEW i \in 1..(Len(t) - 1), t[i].kind = "k1", t[i + 1].kind = "k2" PROVE FALSE
    <3>1. i \in 1..(Len(out) - 1)
      BY <2>3
    <3>2. i + 1 # Len(out)
      BY <2>3, <2>4, <2>5
    <3>3. i + 1 \in 1..(Len(out) - 1)
      BY <2>2, <3>1, <3>2
    <3>4. out[i].kind = "k1" /\ out[i + 1].kind = "k2"
      BY <2>3, <2>5, <3>1, <3>3
    <3> QED
      BY <3>1, <3>4 DEF Split
  <2>6. MaskStep(out, b) = t
    BY <1>1, <2>1 DEF MaskStep
  <2>7. t # <<>>
    BY <2>2, <2>3
  <2> QED
    BY <2>5, <2>6, <2>7 DEF Split
<1>2. CASE ~(b.kind = "k2" /\ out # <<>> /\ Last(out).kind = "k1")
  <2>1. PICK t : t = Append(out, b)
    OBVIOUS
  <2>2. Len(out) \in Nat /\ Len(t) = Len(out) + 1 /\ t[Len(out) + 1] = b /\ \A i \in 1..Len(out) : t[i] = out[i]
    BY <2>1
  <2>3. ASSUME NEW i \in 1..(Len(t) - 1), t[i].kind = "k1", t[i + 1].kind = "k2" PROVE FALSE
    <3>1. i \in 1..Len(out)
      BY <2>2
    <3>2. CASE i = Len(out)
      <4>1. out # <<>> /\ Last(out) = out[i] /\ b.kind = "k2"
        BY <2>2, <2>3, <3>1, <3>2 DEF Last
      <4> QED
        BY <1>2, <2>2, <2>3, <3>1, <4>1
    <3>3. CASE i # Len(out)
      <4>1. i \in 1..(Len(out) - 1) /\ i + 1 \in 1..Len(out)
        BY <2>2, <3>1, <3>3
      <4>2. out[i].kind = "k1" /\ out[i + 1].kind = "k2"
        BY <2>2, <2>3, <3>1, <4>1
      <4> QED
        BY <4>1, <4>2 DEF Split
    <3> QED
      BY <3>2, <3>3
  <2>4. MaskStep(out, b) = t
    BY <1>2, <2>1 DEF MaskStep
  <2>5. t # <<>>
    BY <2>2
  <2> QED
    BY <2>3, <2>4, <2>5 DEF Split
<1> QED
  BY <1>1, <1>2

\* Redaction of a text.
LEMMA Redacted ==
  ASSUME NEW Y, Masking(Y), NEW text, text \in Seq(Y)
  PROVE  Redact(text) \in Seq(Y) /\ Split(Redact(text)) = {} /\ (Redact(text) = <<>> <=> text = <<>>)
<1>0. PICK n : n = Len(text)
  OBVIOUS
<1>0a. n \in Nat
  BY <1>0
<1>1. PICK g : Masks(text, n, g) /\ Redact(text) = g[n] /\ \A i \in 0..n : g[i] \in Seq(Y)
  BY <1>0, RedactFold
<1> DEFINE None == {t \in Seq(Y) : Split(t) = {}}
           A == [i \in 0..n |-> IF i = 0 THEN {<<>>} ELSE None \ {<<>>}]
<1>2. 0 \in 0..n /\ n \in 0..n /\ \A i \in 1..n : i \in 0..n /\ i - 1 \in 0..n /\ i # 0
  BY <1>0a
<1>3. A[0] = {<<>>} /\ \A i \in 1..n : A[i] = None \ {<<>>}
  BY <1>2
<1>4. <<>> \in None
  BY DEF Split
<1>5. \A i \in 1..n : A[i - 1] \subseteq None
  BY <1>2, <1>4
<1> HIDE DEF A
<1>6. g[0] \in A[0]
  BY <1>1, <1>3 DEF Masks
<1>7. ASSUME NEW i \in 1..n, g[i - 1] \in A[i - 1] PROVE g[i] \in A[i]
  <2>1. g[i - 1] \in Seq(Y) /\ Split(g[i - 1]) = {}
    BY <1>5, <1>7
  <2>2. g[i] = MaskStep(g[i - 1], text[i])
    BY <1>1 DEF Masks
  <2>3. g[i] \in Seq(Y)
    BY <1>1, <1>2
  <2>4. Split(g[i]) = {} /\ g[i] # <<>>
    BY <2>1, <2>2, MaskStepMasks
  <2> QED
    BY <1>3, <2>3, <2>4
<1>8. \A i \in 0..n : g[i] \in A[i]
  BY <1>0a, <1>6, <1>7, StepsKeep
<1>9. g[n] \in A[n]
  BY <1>2, <1>8
<1>10. CASE n = 0
  <2>1. text = <<>> /\ g[n] = <<>>
    BY <1>0, <1>3, <1>9, <1>10, EmptySeq
  <2> QED
    BY <1>1, <1>4, <2>1
<1>11. CASE n # 0
  <2>1. n \in 1..n /\ text # <<>>
    BY <1>0, <1>0a, <1>11
  <2>2. g[n] \in None /\ g[n] # <<>>
    BY <1>3, <1>9, <2>1
  <2> QED
    BY <1>1, <2>1, <2>2
<1> QED
  BY <1>10, <1>11

StreamStep(text, c, s) == IF c.stream = s THEN text \o c.data ELSE text

\* The text of one stream has no byte that is not a chunk's or a mask of it, and no secret.
LEMMA StreamTextIs ==
  ASSUME NEW Y, Masking(Y), NEW cs, NEW n, Chunked(cs, n, Y), NEW s
  PROVE  StreamText(cs, s) \in Seq(Y) /\ Split(StreamText(cs, s)) = {}
<1> DEFINE B == Seq(Y)
           Form(it) == it = [t \in SUBSET (1..n) |->
                              IF t = {} THEN <<>> ELSE StreamStep(it[t \ {Max(t)}], cs[Max(t)], s)]
           c == CHOOSE it : Form(it)
           F(D) == [i \in 1..n |-> [a \in D |-> StreamStep(a, cs[i], s)]]
<1>0. n \in Nat /\ DOMAIN cs = 1..n /\ \A i \in 1..n : cs[i].data \in Seq(Y)
  BY DEF Chunked
<1>1. StreamText(cs, s) = Redact(c[1..n])
  BY <1>0 DEF StreamText, FoldLeft, MapThenFoldSet, StreamStep
<1>2. \A t \in SUBSET (1..n) : t # {} => Max(t) \in 1..n /\ t \ {Max(t)} \in SUBSET (1..n)
  BY <1>0, Earlier
<1>3. ASSUME NEW D, B \subseteq D PROVE Closed(F(D), <<>>, n, B)
  <2>1. <<>> \in B
    OBVIOUS
  <2>2. \A i \in 1..n, a \in B : StreamStep(a, cs[i], s) \in B
    <3>1. \A i \in 1..n, a \in B : a \o cs[i].data \in B
      BY <1>0
    <3> QED
      BY <3>1 DEF StreamStep
  <2> QED
    BY <1>3, <2>1, <2>2 DEF Closed
<1>4. Form(c)
  <2>1. PICK it : Folding(F(B), <<>>, n, it) /\ \A t \in SUBSET (1..n) : it[t] \in B
    <3> HIDE DEF B, F
    <3> QED
      BY <1>0, <1>3, FoldIn
  <2>2. Form(it)
    BY <1>2, <2>1 DEF Folding
  <2> HIDE DEF Form
  <2> QED
    BY <2>2
<1> DEFINE D == B \cup {c[t] : t \in SUBSET (1..n)}
<1>5. Folding(F(D), <<>>, n, c)
  <2> HIDE DEF c, B
  <2> QED
    BY <1>2, <1>4 DEF Folding
<1>6. c[1..n] \in B
  <2>1. Closed(F(D), <<>>, n, B)
    BY <1>3
  <2>2. 1..n \in SUBSET (1..n)
    OBVIOUS
  <2> HIDE DEF c, F, B, D
  <2> QED
    BY <1>0, <1>5, <2>1, <2>2, FoldStays
<1> HIDE DEF c
<1> QED
  BY <1>1, <1>6, Redacted

CombineStep(acc, c) ==
  IF c.stream # acc.stream
  THEN [out |-> acc.out \o Redact(acc.run), run |-> c.data, stream |-> c.stream]
  ELSE [acc EXCEPT !.run = @ \o c.data]

NoText == [out |-> <<>>, run |-> <<>>, stream |-> "none"]

Acc(Y) == [out : Seq(Y), run : Seq(Y), stream : Streams \cup {"none"}]

\* Chunks of one stream each.
Streamed(cs, n, Y) == Chunked(cs, n, Y) /\ \A i \in 1..n : cs[i].stream \in Streams

\* The combined text of the chunks so far.
Combines(cs, n, g) == g[0] = NoText /\ \A i \in 1..n : g[i] = CombineStep(g[i - 1], cs[i])

\* A chunk more leaves an accumulator of the same bytes.
LEMMA CombineStepIn ==
  ASSUME NEW Y, Masking(Y), NEW a, a \in Acc(Y), NEW c, c.data \in Seq(Y), c.stream \in Streams
  PROVE  CombineStep(a, c) \in Acc(Y)
<1>1. PICK o, r, t, d : o = a.out /\ r = a.run /\ t = Redact(a.run) /\ d = c.data
  OBVIOUS
<1>0. PICK S : S = Seq(Y)
  OBVIOUS
<1>0a. Acc(Y) = [out : S, run : S, stream : Streams \cup {"none"}]
  BY <1>0 DEF Acc
<1>0b. a.out \in S /\ a.run \in S /\ c.data \in S
  BY <1>0, <1>0a
<1>2. o \in Seq(Y) /\ r \in Seq(Y) /\ d \in Seq(Y)
  BY <1>0, <1>0b, <1>1
<1>3. t \in Seq(Y)
  BY <1>1, <1>2, Redacted
<1>4. o \o t \in Seq(Y) /\ r \o d \in Seq(Y)
  BY <1>2, <1>3
<1>4a. o \o t \in S /\ r \o d \in S /\ d \in S
  BY <1>0, <1>2, <1>4
<1>5. CASE c.stream # a.stream
  <2>1. CombineStep(a, c) = [out |-> o \o t, run |-> d, stream |-> c.stream]
    BY <1>1, <1>5 DEF CombineStep
  <2> QED
    BY <1>0a, <1>4a, <2>1
<1>6. CASE ~(c.stream # a.stream)
  <2>1. CombineStep(a, c) = [a EXCEPT !.run = r \o d]
    BY <1>1, <1>6 DEF CombineStep
  <2> QED
    BY <1>0a, <1>4a, <2>1
<1> QED
  BY <1>5, <1>6

\* The fold that CombinedText is made of, as a function of the number of chunks so far.
LEMMA CombinedFold ==
  ASSUME NEW Y, Masking(Y), NEW cs, NEW n, Streamed(cs, n, Y)
  PROVE  \E g : /\ Combines(cs, n, g) /\ CombinedText(cs) = g[n].out \o Redact(g[n].run)
                /\ \A i \in 0..n : g[i] \in Acc(Y)
<1> DEFINE B == Acc(Y)
           Form(it) == it = [s \in SUBSET (1..n) |->
                              IF s = {} THEN NoText ELSE CombineStep(it[s \ {Max(s)}], cs[Max(s)])]
           c == CHOOSE it : Form(it)
           F(D) == [i \in 1..n |-> [a \in D |-> CombineStep(a, cs[i])]]
<1>0. n \in Nat /\ DOMAIN cs = 1..n /\ \A i \in 1..n : cs[i].data \in Seq(Y) /\ cs[i].stream \in Streams
  BY DEF Streamed, Chunked
<1>1. CombinedText(cs) = c[1..n].out \o Redact(c[1..n].run)
  BY <1>0 DEF CombinedText, FoldLeft, MapThenFoldSet, CombineStep, NoText
<1>2. \A s \in SUBSET (1..n) : s # {} => Max(s) \in 1..n /\ s \ {Max(s)} \in SUBSET (1..n)
  BY <1>0, Earlier
<1>3. ASSUME NEW D, B \subseteq D PROVE Closed(F(D), NoText, n, B)
  <2>1. NoText \in B
    <3>1. <<>> \in Seq(Y)
      OBVIOUS
    <3> QED
      BY <3>1 DEF NoText, Acc
  <2> HIDE DEF B
  <2>2. \A i \in 1..n, a \in B : CombineStep(a, cs[i]) \in B
    BY <1>0, CombineStepIn DEF B
  <2> QED
    BY <1>3, <2>1, <2>2 DEF Closed
<1>4. Form(c)
  <2>1. PICK it : Folding(F(B), NoText, n, it) /\ \A s \in SUBSET (1..n) : it[s] \in B
    <3> HIDE DEF B, F
    <3> QED
      BY <1>0, <1>3, FoldIn
  <2> HIDE DEF B
  <2>2. Form(it)
    BY <1>2, <2>1 DEF Folding
  <2> HIDE DEF Form
  <2> QED
    BY <2>2
<1> DEFINE D == B \cup {c[s] : s \in SUBSET (1..n)}
<1>5. Folding(F(D), NoText, n, c)
  <2> HIDE DEF c, B
  <2> QED
    BY <1>2, <1>4 DEF Folding
<1>6. PICK g : Steps(F(D), NoText, n, g) /\ g[n] = c[1..n] /\ \A i \in 0..n : g[i] \in B
  <2>1. Closed(F(D), NoText, n, B)
    BY <1>3
  <2> HIDE DEF c, F, B, D
  <2> QED
    BY <1>0, <1>5, <2>1, FoldIs
<1>7. \A i \in 1..n : g[i] = CombineStep(g[i - 1], cs[i])
  <2>1. \A i \in 1..n : i - 1 \in 0..n
    BY <1>0
  <2>2. \A i \in 1..n : g[i - 1] \in D
    <3> HIDE DEF B, c
    <3> QED
      BY <1>6, <2>1
  <2> HIDE DEF D
  <2> QED
    BY <1>6, <2>2 DEF Steps
<1>8. g[0] = NoText
  BY <1>6 DEF Steps
<1> HIDE DEF c, B
<1> QED
  BY <1>1, <1>6, <1>7, <1>8 DEF Combines, B

SplitStep(acc, b) ==
  IF b.kind = "n"
  THEN [lines |-> IF acc.line = <<>> THEN acc.lines ELSE Append(acc.lines, acc.line), line |-> <<>>]
  ELSE [lines |-> acc.lines, line |-> Append(acc.line, b)]

\* The lines of a text have its bytes.
LEMMA LinesIn ==
  ASSUME NEW Y, NEW text, text \in Seq(Y)
  PROVE  NormalizeLines(text) \in Seq(Seq(Y))
<1> DEFINE n == Len(text)
           S == Seq(Y)
           L == Seq(S)
           B == [lines : L, line : S]
           none == [lines |-> <<>>, line |-> <<>>]
           Form(it) == it = [s \in SUBSET (1..n) |->
                              IF s = {} THEN none ELSE SplitStep(it[s \ {Max(s)}], text[Max(s)])]
           c == CHOOSE it : Form(it)
           F(D) == [i \in 1..n |-> [a \in D |-> SplitStep(a, text[i])]]
<1>0. n \in Nat /\ DOMAIN text = 1..n /\ \A i \in 1..n : text[i] \in Y
  OBVIOUS
<1> HIDE DEF n
<1>1. NormalizeLines(text) = IF c[1..n].line = <<>> THEN c[1..n].lines ELSE Append(c[1..n].lines, c[1..n].line)
  BY <1>0 DEF NormalizeLines, FoldLeft, MapThenFoldSet, SplitStep
<1>2. \A s \in SUBSET (1..n) : s # {} => Max(s) \in 1..n /\ s \ {Max(s)} \in SUBSET (1..n)
  BY <1>0, Earlier
<1>3. none \in B
  <2>1. <<>> \in S /\ <<>> \in L
    OBVIOUS
  <2> HIDE DEF S, L
  <2> QED
    BY <2>1
<1>4. ASSUME NEW i \in 1..n, NEW a \in B PROVE SplitStep(a, text[i]) \in B
  <2>1. PICK ls, l, b : ls = a.lines /\ l = a.line /\ b = text[i]
    OBVIOUS
  <2>2. ls \in L /\ l \in S /\ b \in Y
    BY <1>0, <2>1
  <2>3. Append(l, b) \in S /\ <<>> \in S
    BY <2>2
  <2>4. Append(ls, l) \in L
    <3> HIDE DEF S
    <3> QED
      BY <2>2
  <2>5. (IF l = <<>> THEN ls ELSE Append(ls, l)) \in L
    BY <2>2, <2>4
  <2> HIDE DEF S, L
  <2>6. CASE b.kind = "n"
    <3>1. SplitStep(a, text[i]) = [lines |-> IF l = <<>> THEN ls ELSE Append(ls, l), line |-> <<>>]
      BY <2>1, <2>6 DEF SplitStep
    <3> QED
      BY <2>3, <2>5, <3>1
  <2>7. CASE ~(b.kind = "n")
    <3>1. SplitStep(a, text[i]) = [lines |-> ls, line |-> Append(l, b)]
      BY <2>1, <2>7 DEF SplitStep
    <3> QED
      BY <2>2, <2>3, <3>1
  <2> QED
    BY <2>6, <2>7
<1> HIDE DEF B, none
<1>5. ASSUME NEW D, B \subseteq D PROVE Closed(F(D), none, n, B)
  BY <1>3, <1>4, <1>5 DEF Closed
<1>6. Form(c)
  <2>1. PICK it : Folding(F(B), none, n, it) /\ \A s \in SUBSET (1..n) : it[s] \in B
    <3> HIDE DEF F
    <3> QED
      BY <1>0, <1>5, FoldIn
  <2>2. Form(it)
    BY <1>2, <2>1 DEF Folding
  <2> HIDE DEF Form
  <2> QED
    BY <2>2
<1> DEFINE D == B \cup {c[s] : s \in SUBSET (1..n)}
<1>7. Folding(F(D), none, n, c)
  <2> HIDE DEF c
  <2> QED
    BY <1>2, <1>6 DEF Folding
<1>8. c[1..n] \in B
  <2>1. Closed(F(D), none, n, B)
    BY <1>5
  <2>2. 1..n \in SUBSET (1..n)
    OBVIOUS
  <2> HIDE DEF c, F, D
  <2> QED
    BY <1>0, <1>7, <2>1, <2>2, FoldStays
<1>9. PICK e, ls, l : e = c[1..n] /\ ls = e.lines /\ l = e.line
  OBVIOUS
<1> HIDE DEF c
<1>10. NormalizeLines(text) = IF l = <<>> THEN ls ELSE Append(ls, l)
  BY <1>1, <1>9
<1>11. ls \in L /\ l \in S
  BY <1>8, <1>9 DEF B
<1>12. Append(ls, l) \in L
  <2> HIDE DEF S
  <2> QED
    BY <1>11
<1> QED
  BY <1>10, <1>11, <1>12

\* The bytes that were printed, or masks of them; those of one stream; those that are covered.
Known(arr) == [at : 1..Len(arr), kind : Kinds \cup {"*"}]
Of(arr, s) == {b \in Known(arr) : arr[b.at].stream = s}

\* A secret in the text is put together of bytes of different streams.
Crossing(arr, t) == \A i \in Split(t) : arr[t[i].at].stream # arr[t[i + 1].at].stream

\* The bytes that were printed, all or of one stream, come with their masks.
LEMMA KnownIs ==
  ASSUME NEW arr, NEW s
  PROVE  Masking(Known(arr)) /\ Masking(Of(arr, s)) /\ Of(arr, s) \subseteq Known(arr)
<1>1. Masking(Known(arr))
  BY DEF Masking, Known
<1>2. ASSUME NEW b \in Of(arr, s) PROVE [at |-> b.at, kind |-> "*"] \in Of(arr, s)
  <2>1. PICK c : c = [at |-> b.at, kind |-> "*"]
    OBVIOUS
  <2>2. c \in Known(arr)
    BY <2>1 DEF Known, Of
  <2>3. c.at = b.at /\ arr[b.at].stream = s
    BY <2>1 DEF Of
  <2> QED
    BY <2>1, <2>2, <2>3 DEF Of
<1> QED
  BY <1>1, <1>2 DEF Masking, Of

\* The chunks hold bytes that were printed.
LEMMA ChunksKnown ==
  ASSUME NEW arr, NEW cs, ChunksAre(arr, cs)
  PROVE  /\ Streamed(cs, Len(cs), Known(arr)) /\ Len(cs) \in Nat
         /\ \A i \in 1..Len(cs) : cs[i].data \in Seq(Of(arr, cs[i].stream))
<1>1. cs \in Seq(Chunk) /\ Len(cs) \in Nat /\ DOMAIN cs = 1..Len(cs)
  BY DEF ChunksAre
<1>2. ASSUME NEW i \in 1..Len(cs)
      PROVE  cs[i].data \in Seq(Of(arr, cs[i].stream)) /\ cs[i].data \in Seq(Known(arr)) /\ cs[i].stream \in Streams
  <2>1. PICK d, s : d = cs[i].data /\ s = cs[i].stream
    OBVIOUS
  <2>2. d \in Seq(RawByte)
    BY <1>1, <2>1, ChunkedSeq
  <2>3. ASSUME NEW j \in 1..Len(d) PROVE d[j] \in Of(arr, s)
    <3>1. Sourced(arr, d[j], s)
      BY <2>1 DEF ChunksAre
    <3>2. d[j] \in RawByte
      BY <2>2
    <3>3. d[j] \in Known(arr)
      BY <3>1, <3>2 DEF Sourced, RawByte, Known
    <3> QED
      BY <3>1, <3>3 DEF Of, Sourced
  <2>4. Len(d) \in Nat /\ d = [j \in 1..Len(d) |-> d[j]]
    BY <2>2
  <2>5. d \in Seq(Of(arr, s))
    BY <2>3, <2>4
  <2>6. Of(arr, s) \subseteq Known(arr)
    BY KnownIs
  <2>7. d \in Seq(Known(arr))
    BY <2>5, <2>6, SeqMonotonic
  <2>8. s \in Streams
    <3>1. cs[i] \in Chunk
      BY <1>1, ChunkedSeq
    <3> QED
      BY <2>1, <3>1 DEF Chunk
  <2> QED
    BY <2>1, <2>5, <2>7, <2>8
<1> QED
  BY <1>1, <1>2 DEF Streamed, Chunked

\* What combinedText has while it goes through the chunks.
Runs(arr) ==
  {a \in Acc(Known(arr)) :
     /\ a.run \in Seq(Of(arr, a.stream))
     /\ Crossing(arr, a.out)
     /\ a.out # <<>> => arr[Last(a.out).at].stream # a.stream
     /\ a.run = <<>> => a.out = <<>>}

JoinedText(a) == a.out \o Redact(a.run)

\* A run of one stream is redacted and put to the others.
LEMMA RunJoins ==
  ASSUME NEW arr, NEW a, a \in Runs(arr), NEW t, t = JoinedText(a)
  PROVE  /\ t \in Seq(Known(arr)) /\ Crossing(arr, t)
         /\ t # <<>> => arr[Last(t).at].stream = a.stream
         /\ a.run # <<>> => t # <<>>
<1>1. PICK o, r, q, s : o = a.out /\ r = a.run /\ q = Redact(r) /\ s = a.stream
  OBVIOUS
<1>2. PICK Y, Z : Y = Known(arr) /\ Z = Of(arr, s)
  OBVIOUS
<1>3. o \in Seq(Y)
  BY <1>1, <1>2 DEF Runs, Acc
<1>4. /\ r \in Seq(Z) /\ Crossing(arr, o) /\ (o # <<>> => arr[Last(o).at].stream # s)
      /\ (r = <<>> => o = <<>>)
  BY <1>1, <1>2 DEF Runs
<1>5. Masking(Z) /\ Z \subseteq Y
  BY <1>2, KnownIs
<1>6. q \in Seq(Z) /\ Split(q) = {} /\ (q = <<>> <=> r = <<>>)
  BY <1>1, <1>4, <1>5, Redacted
<1>7. q \in Seq(Y)
  BY <1>5, <1>6, SeqMonotonic
<1>8. PICK l, m : l = Len(o) /\ m = Len(q)
  OBVIOUS
<1>9. /\ t \in Seq(Y) /\ Len(t) = l + m /\ l \in Nat /\ m \in Nat
      /\ \A i \in 1..(l + m) : t[i] = IF i <= l THEN o[i] ELSE q[i - l]
  <2>1. t = o \o q
    BY <1>1 DEF JoinedText
  <2> QED
    BY <1>3, <1>7, <1>8, <2>1, ConcatProperties, LenProperties
<1>9a. l \in Nat /\ m \in Nat
  BY <1>9
<1>9b. \A i \in 1..(l + m) : t[i] = IF i <= l THEN o[i] ELSE q[i - l]
  BY <1>9
<1>9c. t # <<>> <=> l + m > 0
  <2>1. t \in Seq(Y) /\ Len(t) = l + m
    BY <1>9
  <2>2. t # <<>> => Len(t) \in Nat \ {0}
    BY <2>1, EmptySeq
  <2>3. t = <<>> => Len(t) = 0
    BY EmptySeq
  <2> QED
    BY <1>9a, <2>1, <2>2, <2>3
<1>10. \A i \in 1..m : arr[q[i].at].stream = s
  <2>1. \A i \in 1..m : q[i] \in Z
    BY <1>6, <1>8
  <2> QED
    BY <1>2, <2>1 DEF Of
<1>11. o # <<>> => l > 0 /\ Last(o) = o[l] /\ l \in 1..l
  <2>1. ASSUME o # <<>> PROVE l \in Nat \ {0} /\ Last(o) = o[l]
    BY <1>3, <1>8, <2>1, FrontIs
  <2> QED
    BY <2>1
<1>12. ASSUME NEW i \in Split(t) PROVE arr[t[i].at].stream # arr[t[i + 1].at].stream
  <2>1. i \in 1..(l + m) /\ i + 1 \in 1..(l + m) /\ i \in Nat /\ t[i].kind = "k1" /\ t[i + 1].kind = "k2"
    <3>1. i \in 1..(Len(t) - 1) /\ t[i].kind = "k1" /\ t[i + 1].kind = "k2"
      BY DEF Split
    <3> QED
      BY <1>9, <3>1
  <2>2. CASE i + 1 <= l
    <3>0. i \in 1..(l - 1) /\ i <= l
      BY <1>9a, <2>1, <2>2
    <3>1. t[i] = o[i] /\ t[i + 1] = o[i + 1] /\ i \in 1..(l - 1)
      BY <1>9b, <2>1, <2>2, <3>0
    <3>2. i \in Split(o)
      BY <1>8, <2>1, <3>1 DEF Split
    <3> QED
      BY <1>4, <3>1, <3>2 DEF Crossing
  <2>3. CASE i = l
    <3>0. i <= l /\ ~(i + 1 <= l) /\ (i + 1) - l = 1 /\ 1 \in 1..m /\ l > 0
      BY <1>9a, <2>1, <2>3
    <3>1. t[i] = o[l] /\ t[i + 1] = q[(i + 1) - l] /\ (i + 1) - l = 1 /\ 1 \in 1..m /\ l > 0
      BY <1>9b, <2>1, <2>3, <3>0
    <3>2. o # <<>>
      BY <1>8, <3>1, <1>3, EmptySeq
    <3>3. arr[o[l].at].stream # s
      BY <1>4, <1>11, <3>2
    <3>4. arr[q[1].at].stream = s
      BY <1>10, <3>1
    <3> QED
      BY <3>1, <3>3, <3>4
  <2>4. CASE i > l
    <3>1. PICK j : j = i - l
      OBVIOUS
    <3>2. ~(i <= l) /\ ~(i + 1 <= l) /\ (i + 1) - l = j + 1 /\ j \in 1..(m - 1)
      BY <1>9a, <2>1, <2>4, <3>1
    <3>3. t[i] = q[j] /\ t[i + 1] = q[j + 1]
      BY <1>9b, <2>1, <3>1, <3>2
    <3>4. j \in Split(q)
      BY <1>8, <2>1, <3>2, <3>3 DEF Split
    <3> QED
      BY <1>6, <3>4
  <2>5. i + 1 <= l \/ i = l \/ i > l
    BY <1>9a, <2>1
  <2> QED
    BY <2>2, <2>3, <2>4, <2>5
<1>13. ASSUME t # <<>> PROVE arr[Last(t).at].stream = s
  <2>1. r # <<>>
    <3>1. SUFFICES ASSUME r = <<>> PROVE FALSE
      OBVIOUS
    <3>2. l = 0 /\ m = 0
      BY <1>4, <1>6, <1>8, <3>1
    <3> QED
      BY <1>9c, <1>13, <3>2
  <2>2. m \in Nat \ {0}
    BY <1>6, <1>8, <2>1, EmptySeq
  <2>3. l + m \in 1..(l + m) /\ ~(l + m <= l) /\ (l + m) - l = m /\ m \in 1..m
    BY <1>9, <2>2
  <2>4. t[l + m] = q[m]
    BY <1>9, <2>3
  <2>5. Last(t) = t[l + m]
    BY <1>9 DEF Last
  <2> QED
    BY <1>10, <2>3, <2>4, <2>5
<1>14. ASSUME r # <<>> PROVE t # <<>>
  <2>1. m \in Nat \ {0}
    BY <1>6, <1>8, <1>14, EmptySeq
  <2> QED
    BY <1>9a, <1>9c, <2>1
<1>15. Crossing(arr, t)
  BY <1>12 DEF Crossing
<1> QED
  BY <1>1, <1>2, <1>9, <1>13, <1>14, <1>15

\* combinedText goes from one chunk to the next: only a change of stream divides a secret.
LEMMA RunsGoOn ==
  ASSUME NEW arr, NEW a, a \in Runs(arr), NEW c, c.stream \in Streams, c.data \in Seq(Of(arr, c.stream)),
         c.data # <<>> \/ a = NoText
  PROVE  CombineStep(a, c) \in Runs(arr)
<1>1. PICK o, r, t, s, d, z : /\ o = a.out /\ r = a.run /\ t = a.out \o Redact(a.run) /\ s = a.stream
                              /\ d = c.data /\ z = c.stream
  OBVIOUS
<1>2. /\ t \in Seq(Known(arr)) /\ Crossing(arr, t) /\ (t # <<>> => arr[Last(t).at].stream = s)
      /\ (r # <<>> => t # <<>>)
  <2>1. t = JoinedText(a)
    BY <1>1 DEF JoinedText
  <2>2. /\ t \in Seq(Known(arr)) /\ Crossing(arr, t)
        /\ t # <<>> => arr[Last(t).at].stream = a.stream
        /\ a.run # <<>> => t # <<>>
    BY <2>1, RunJoins
  <2> QED
    BY <1>1, <2>2
<1>3. Of(arr, z) \subseteq Known(arr) /\ Masking(Known(arr))
  BY KnownIs
<1>4. d \in Seq(Of(arr, z)) /\ z \in Streams
  BY <1>1
<1>5. d \in Seq(Known(arr))
  BY <1>3, <1>4, SeqMonotonic
<1>6. a \in Acc(Known(arr))
  BY DEF Runs
<1>7. PICK n : n = CombineStep(a, c)
  OBVIOUS
<1>8. n \in Acc(Known(arr))
  BY <1>1, <1>3, <1>4, <1>5, <1>6, <1>7, CombineStepIn
<1>9. CASE z # s
  <2>1. n.out = t /\ n.run = d /\ n.stream = z
    BY <1>1, <1>7, <1>9 DEF CombineStep
  <2>2. d = <<>> => t = <<>>
    <3>1. ASSUME a = NoText PROVE t = <<>>
      <4>1. o = <<>> /\ r = <<>>
        BY <1>1, <3>1 DEF NoText
      <4>2. Redact(r) = <<>>
        <5>1. r \in Seq(Known(arr))
          BY <4>1
        <5> QED
          BY <1>3, <4>1, <5>1, Redacted
      <4>3. t = <<>> \o <<>>
        BY <1>1, <4>1, <4>2
      <4> QED
        BY <4>3
    <3> QED
      BY <1>1, <3>1
  <2>3. t # <<>> => arr[Last(t).at].stream # z
    BY <1>2, <1>9
  <2> QED
    BY <1>2, <1>4, <1>7, <1>8, <2>1, <2>2, <2>3 DEF Runs
<1>10. CASE z = s
  <2>1. n = [a EXCEPT !.run = r \o d]
    BY <1>1, <1>7, <1>10 DEF CombineStep
  <2>2. n.out = o /\ n.run = r \o d /\ n.stream = s
    <3>1. a = [out |-> o, run |-> r, stream |-> s]
      BY <1>1, <1>6 DEF Acc
    <3> QED
      BY <2>1, <3>1
  <2>3. r \in Seq(Of(arr, s)) /\ d \in Seq(Of(arr, s))
    BY <1>1, <1>4, <1>10 DEF Runs
  <2>4. r \o d \in Seq(Of(arr, s))
    BY <2>3
  <2>5. d # <<>>
    <3>1. "none" \notin Streams
      BY DEF Streams
    <3> QED
      BY <1>1, <1>4, <1>10, <3>1 DEF NoText
  <2>6. r \o d # <<>>
    <3>1. Len(r \o d) = Len(r) + Len(d) /\ Len(r) \in Nat /\ Len(d) \in Nat \ {0}
      BY <2>3, <2>5, ConcatProperties, EmptySeq, LenProperties
    <3> QED
      BY <3>1
  <2>7. Crossing(arr, o) /\ (o # <<>> => arr[Last(o).at].stream # s)
    BY <1>1 DEF Runs
  <2> QED
    BY <1>7, <1>8, <2>2, <2>4, <2>6, <2>7 DEF Runs
<1> QED
  BY <1>7, <1>9, <1>10

\* The combined text of the chunks.
LEMMA CombinedCrossing ==
  ASSUME NEW arr, NEW cs, ChunksAre(arr, cs)
  PROVE  CombinedText(cs) \in Seq(Known(arr)) /\ Crossing(arr, CombinedText(cs))
<1>1. PICK n, Y : n = Len(cs) /\ Y = Known(arr)
  OBVIOUS
<1>2. Streamed(cs, n, Y) /\ n \in Nat /\ \A i \in 1..n : cs[i].data \in Seq(Of(arr, cs[i].stream))
  BY <1>1, ChunksKnown
<1>3. Masking(Y)
  BY <1>1, KnownIs
<1>4. PICK g : /\ Combines(cs, n, g) /\ CombinedText(cs) = g[n].out \o Redact(g[n].run)
               /\ \A i \in 0..n : g[i] \in Acc(Y)
  BY <1>2, <1>3, CombinedFold
<1> DEFINE A == [i \in 0..n |-> IF i = 0 THEN {NoText} ELSE Runs(arr)]
<1>5. 0 \in 0..n /\ n \in 0..n /\ \A i \in 1..n : i \in 0..n /\ i - 1 \in 0..n /\ i # 0
  BY <1>2
<1>6. A[0] = {NoText} /\ \A i \in 1..n : A[i] = Runs(arr) /\ (i # 1 => A[i - 1] = Runs(arr)) /\ (i = 1 => A[i - 1] = {NoText})
  BY <1>5
<1>7. NoText \in Runs(arr)
  <2>1. <<>> \in Seq(Y) /\ <<>> \in Seq(Of(arr, "none"))
    OBVIOUS
  <2>2. NoText \in Acc(Y) /\ NoText.run = <<>> /\ NoText.out = <<>> /\ NoText.stream = "none"
    BY <2>1 DEF NoText, Acc
  <2>3. Crossing(arr, <<>>)
    BY DEF Crossing, Split
  <2> QED
    BY <1>1, <2>1, <2>2, <2>3 DEF Runs
<1> HIDE DEF A
<1>8. g[0] \in A[0]
  BY <1>4, <1>6 DEF Combines
<1>9. ASSUME NEW i \in 1..n, g[i - 1] \in A[i - 1] PROVE g[i] \in A[i]
  <2>1. g[i - 1] \in Runs(arr) /\ (i = 1 => g[i - 1] = NoText)
    BY <1>6, <1>7, <1>9
  <2>2. g[i] = CombineStep(g[i - 1], cs[i])
    BY <1>4 DEF Combines
  <2>3. cs[i].stream \in Streams /\ cs[i].data \in Seq(Of(arr, cs[i].stream))
    BY <1>2 DEF Streamed
  <2>4. i # 1 => cs[i].data # <<>>
    <3>1. i # 1 => i \in 2..Len(cs)
      BY <1>1, <1>2
    <3> QED
      BY <3>1 DEF ChunksAre, Filled
  <2>5. g[i] \in Runs(arr)
    <3>1. PICK a, c : a = g[i - 1] /\ c = cs[i]
      OBVIOUS
    <3>2. a \in Runs(arr) /\ c.stream \in Streams /\ c.data \in Seq(Of(arr, c.stream)) /\ (c.data # <<>> \/ a = NoText)
      BY <2>1, <2>3, <2>4, <3>1
    <3> QED
      BY <2>2, <3>1, <3>2, RunsGoOn
  <2> QED
    BY <1>6, <2>5
<1>10. \A i \in 0..n : g[i] \in A[i]
  BY <1>2, <1>8, <1>9, StepsKeep
<1>11. g[n] \in Runs(arr)
  <2>1. g[n] \in A[n]
    BY <1>5, <1>10
  <2>2. n = 0 \/ n \in 1..n
    BY <1>2
  <2> QED
    BY <1>6, <1>7, <2>1, <2>2
<1>12. CombinedText(cs) = JoinedText(g[n])
  BY <1>4 DEF JoinedText
<1> QED
  BY <1>11, <1>12, RunJoins

\* Secrets stay masked.
LEMMA TailMasks ==
  ASSUME TailInv
  PROVE  SecretsMasked
<1>1. PICK arr, cs, n : arr = arrived /\ cs = chunks /\ n = Len(cs)
  OBVIOUS
<1>2. ChunksAre(arr, cs)
  BY <1>1 DEF TailInv
<1>3. Crossing(arr, CombinedText(cs))
  BY <1>2, CombinedCrossing
<1>4. ASSUME NEW s \in Streams PROVE Split(StreamText(cs, s)) = {}
  <2>1. Chunked(cs, n, Known(arr)) /\ Masking(Known(arr))
    BY <1>1, <1>2, ChunksKnown, KnownIs DEF Streamed
  <2> QED
    BY <2>1, StreamTextIs
<1> QED
  BY <1>1, <1>3, <1>4 DEF SecretsMasked, Crossing

-----------------------------------------------------------------------------
(* The digests. *)

DigestIs(arr, h, s) ==
  /\ \A i, j \in 1..Len(h) : i < j => h[i].at < h[j].at
  /\ \A i \in 1..Len(h) : h[i].at \in 1..Len(arr) /\ arr[h[i].at].stream = s /\ h[i].kind = arr[h[i].at].kind
  /\ \A a \in 1..Len(arr) : arr[a].stream = s => \E i \in 1..Len(h) : h[i].at = a

\* A write extends the digest of its stream, and leaves the other as it is.
LEMMA DigestGrows ==
  ASSUME NEW arr, NEW after, NEW bytes, NEW s, NEW m, Written(arr, after, bytes, s, m),
         NEW h, h \in Seq(RawByte), DigestIs(arr, h, s)
  PROVE  DigestIs(after, h \o bytes, s)
<1>1. PICK g, l, n : g = h \o bytes /\ l = Len(h) /\ n = Len(arr)
  OBVIOUS
<1>2. m \in Nat /\ n \in Nat /\ Len(after) = n + m /\ bytes \in Seq(RawByte) /\ Len(bytes) = m
  BY <1>1 DEF Written
<1>3. /\ Len(g) = l + m /\ l \in Nat
      /\ \A i \in 1..(l + m) : g[i] = IF i <= l THEN h[i] ELSE bytes[i - l]
  BY <1>1, <1>2, ConcatProperties, LenProperties
<1>4. ASSUME NEW i \in 1..l PROVE g[i] = h[i] /\ h[i].at \in 1..n /\ after[h[i].at] = arr[h[i].at]
  <2>1. i \in 1..(l + m) /\ i <= l
    BY <1>2, <1>3
  <2>2. h[i].at \in 1..n
    BY <1>1 DEF DigestIs
  <2>3. after[h[i].at] = arr[h[i].at]
    BY <1>1, <2>2 DEF Written
  <2> QED
    BY <1>3, <2>1, <2>2, <2>3
<1>5. ASSUME NEW i \in 1..m
      PROVE  g[l + i].at = n + i /\ g[l + i].kind = after[n + i].kind /\ after[n + i].stream = s
  <2>1. l + i \in 1..(l + m) /\ ~(l + i <= l) /\ (l + i) - l = i
    BY <1>2, <1>3
  <2>2. g[l + i] = bytes[i]
    BY <1>3, <2>1
  <2>3. bytes[i] = [at |-> n + i, kind |-> after[n + i].kind] /\ after[n + i].stream = s
    BY <1>1 DEF Written
  <2> QED
    BY <2>2, <2>3
<1>6. ASSUME NEW i \in 1..(l + m) PROVE i \in 1..l \/ \E k \in 1..m : i = l + k
  <2>1. CASE i <= l
    BY <1>2, <1>3, <2>1
  <2>2. CASE i > l
    <3>1. i - l \in 1..m /\ i = l + (i - l)
      BY <1>2, <1>3, <2>2
    <3> QED
      BY <3>1
  <2> QED
    BY <1>2, <1>3, <2>1, <2>2
<1>7. ASSUME NEW i \in 1..(l + m), NEW j \in 1..(l + m), i < j PROVE g[i].at < g[j].at
  <2>1. CASE i \in 1..l /\ j \in 1..l
    BY <1>1, <1>4, <1>7, <2>1 DEF DigestIs
  <2>2. CASE i \in 1..l /\ j \notin 1..l
    <3>1. PICK k \in 1..m : j = l + k
      BY <1>6, <2>2
    <3>2. g[i].at \in 1..n /\ g[j].at = n + k
      BY <1>4, <1>5, <2>2, <3>1
    <3> QED
      BY <1>2, <3>2
  <2>3. CASE i \notin 1..l
    <3>1. PICK k \in 1..m : i = l + k
      BY <1>6, <2>3
    <3>2. PICK e : e = j - l
      OBVIOUS
    <3>3. e \in 1..m /\ j = l + e /\ k < e
      BY <1>2, <1>3, <1>7, <3>1, <3>2
    <3>4. g[i].at = n + k /\ g[j].at = n + e
      BY <1>5, <3>1, <3>3
    <3> QED
      BY <1>2, <3>3, <3>4
  <2> QED
    BY <2>1, <2>2, <2>3
<1>8. ASSUME NEW i \in 1..(l + m)
      PROVE  g[i].at \in 1..(n + m) /\ after[g[i].at].stream = s /\ g[i].kind = after[g[i].at].kind
  <2>1. CASE i \in 1..l
    <3>1. arr[h[i].at].stream = s /\ h[i].kind = arr[h[i].at].kind
      BY <1>1, <2>1 DEF DigestIs
    <3>2. h[i].at \in 1..(n + m)
      BY <1>2, <1>4, <2>1
    <3> QED
      BY <1>4, <2>1, <3>1, <3>2
  <2>2. CASE i \notin 1..l
    <3>1. PICK k \in 1..m : i = l + k
      BY <1>6, <2>2
    <3>2. n + k \in 1..(n + m)
      BY <1>2
    <3> QED
      BY <1>5, <3>1, <3>2
  <2> QED
    BY <2>1, <2>2
<1>9. ASSUME NEW a \in 1..(n + m), after[a].stream = s PROVE \E i \in 1..(l + m) : g[i].at = a
  <2>1. CASE a <= n
    <3>1. a \in 1..n
      BY <1>2, <2>1
    <3>2. arr[a].stream = s
      BY <1>1, <1>9, <3>1 DEF Written
    <3>3. PICK i \in 1..l : h[i].at = a
      BY <1>1, <3>1, <3>2 DEF DigestIs
    <3>4. i \in 1..(l + m)
      BY <1>2, <1>3
    <3> QED
      BY <1>4, <3>3, <3>4
  <2>2. CASE a > n
    <3>1. PICK i : i = a - n
      OBVIOUS
    <3>2. i \in 1..m /\ a = n + i /\ l + i \in 1..(l + m)
      BY <1>2, <1>3, <2>2, <3>1
    <3> QED
      BY <1>5, <3>2
  <2> QED
    BY <1>2, <2>1, <2>2
<1> QED
  BY <1>1, <1>2, <1>3, <1>7, <1>8, <1>9 DEF DigestIs

\* A write to one stream leaves the digest of the other true.
LEMMA DigestStays ==
  ASSUME NEW arr, NEW after, NEW bytes, NEW s, NEW m, Written(arr, after, bytes, s, m),
         NEW h, NEW t, t # s, DigestIs(arr, h, t)
  PROVE  DigestIs(after, h, t)
<1>1. PICK n : n = Len(arr)
  OBVIOUS
<1>2. m \in Nat /\ n \in Nat /\ Len(after) = n + m /\ \A i \in 1..n : after[i] = arr[i]
  BY <1>1 DEF Written
<1>3. \A i \in 1..m : after[n + i].stream = s
  BY <1>1 DEF Written
<1>4. ASSUME NEW i \in 1..Len(h)
      PROVE  h[i].at \in 1..(n + m) /\ after[h[i].at].stream = t /\ h[i].kind = after[h[i].at].kind
  <2>1. h[i].at \in 1..n /\ arr[h[i].at].stream = t /\ h[i].kind = arr[h[i].at].kind
    BY <1>1 DEF DigestIs
  <2>2. h[i].at \in 1..(n + m)
    BY <1>2, <2>1
  <2> QED
    BY <1>2, <2>1, <2>2
<1>5. ASSUME NEW a \in 1..(n + m), after[a].stream = t PROVE \E i \in 1..Len(h) : h[i].at = a
  <2>1. CASE a <= n
    <3>1. a \in 1..n
      BY <1>2, <2>1
    <3> QED
      BY <1>1, <1>2, <1>5, <3>1 DEF DigestIs
  <2>2. CASE a > n
    <3>1. PICK i : i = a - n
      OBVIOUS
    <3>2. i \in 1..m /\ a = n + i
      BY <1>2, <2>2, <3>1
    <3> QED
      BY <1>3, <1>5, <3>2
  <2> QED
    BY <1>2, <2>1, <2>2
<1>6. \A i, j \in 1..Len(h) : i < j => h[i].at < h[j].at
  BY DEF DigestIs
<1> QED
  BY <1>1, <1>2, <1>4, <1>5, <1>6 DEF DigestIs

HashesInv ==
  hashes \in [Streams -> Seq(RawByte)] /\ \A s \in Streams : DigestIs(arrived, hashes[s], s)

\* A write extends the digest of its stream and of no other.
LEMMA HashesKept ==
  ASSUME NEW s, s \in Streams, NEW n, n \in Nat \ {0}, NEW p, p \in [1..n -> Kinds], TailInv, HashesInv, Write(s, p)
  PROVE  HashesInv' /\ \A t \in Streams : t # s => hashes'[t] = hashes[t]
<1>1. PICK b, arr, after : b = Batch(p) /\ arr = arrived /\ after = arrived'
  OBVIOUS
<1>2. Written(arr, after, b, s, n) /\ hashes' = [hashes EXCEPT ![s] = @ \o b]
  BY <1>1, WriteIs DEF TailInv
<1>3. b \in Seq(RawByte)
  BY <1>2 DEF Written
<1>4. hashes[s] \in Seq(RawByte) /\ DigestIs(arr, hashes[s], s)
  BY <1>1 DEF HashesInv
<1>5. hashes[s] \o b \in Seq(RawByte)
  BY <1>3, <1>4, ConcatProperties
<1>6. PICK h, k : h = hashes[s] /\ k = hashes[s] \o b
  OBVIOUS
<1>7. DigestIs(after, k, s)
  BY <1>2, <1>4, <1>6, DigestGrows
<1>8. hashes' = [hashes EXCEPT ![s] = k]
  BY <1>2, <1>6
<1>9. ASSUME NEW t \in Streams, t # s PROVE hashes'[t] = hashes[t] /\ DigestIs(after, hashes'[t], t)
  <2>1. hashes'[t] = hashes[t]
    BY <1>8, <1>9 DEF HashesInv
  <2>2. PICK e : e = hashes[t]
    OBVIOUS
  <2>3. DigestIs(arr, e, t)
    BY <1>1, <2>2 DEF HashesInv
  <2>4. DigestIs(after, e, t)
    BY <1>2, <1>9, <2>3, DigestStays
  <2> QED
    BY <2>1, <2>2, <2>4
<1>10. hashes' \in [Streams -> Seq(RawByte)] /\ hashes'[s] = k
  BY <1>5, <1>6, <1>8 DEF HashesInv
<1>11. \A t \in Streams : DigestIs(after, hashes'[t], t)
  BY <1>7, <1>9, <1>10
<1> QED
  BY <1>1, <1>9, <1>10, <1>11 DEF HashesInv

\* The digests cover what was printed.
Covers(hash) == UNION {BytesOf(hash[s]) : s \in Streams}

\* The digests of the two streams together cover all that was printed.
LEMMA HashesCover ==
  ASSUME TailInv, HashesInv
  PROVE  Covers(hashes) = 1..Len(arrived)
<1>1. ASSUME NEW a \in 1..Len(arrived) PROVE a \in Covers(hashes)
  <2>1. arrived[a].stream \in Streams
    <3>1. arrived[a] \in Printed
      BY ElementOfSeq DEF TailInv
    <3> QED
      BY <3>1 DEF Printed
  <2>2. PICK s, h : s = arrived[a].stream /\ h = hashes[s]
    OBVIOUS
  <2>3. s \in Streams /\ h \in Seq(RawByte) /\ DigestIs(arrived, h, s)
    BY <2>1, <2>2 DEF HashesInv
  <2>4. PICK i \in 1..Len(h) : h[i].at = a
    BY <2>2, <2>3 DEF DigestIs
  <2>5. i \in DOMAIN h
    BY <2>3
  <2>6. a \in BytesOf(h)
    BY <2>4, <2>5 DEF BytesOf
  <2> QED
    BY <2>2, <2>3, <2>6 DEF Covers
<1>2. ASSUME NEW a \in Covers(hashes) PROVE a \in 1..Len(arrived)
  <2>1. PICK s \in Streams : a \in BytesOf(hashes[s])
    BY DEF Covers
  <2>2. PICK h : h = hashes[s]
    OBVIOUS
  <2>3. h \in Seq(RawByte) /\ DigestIs(arrived, h, s)
    BY <2>2 DEF HashesInv
  <2>4. PICK i \in DOMAIN h : h[i].at = a
    BY <2>1, <2>2 DEF BytesOf
  <2>5. i \in 1..Len(h)
    BY <2>3
  <2> QED
    BY <2>3, <2>4, <2>5 DEF DigestIs
<1> QED
  BY <1>1, <1>2

-----------------------------------------------------------------------------
(* The record. *)

InFlight == {"combined", "sum", "store"}
Texts == Seq(Seq([at : Nat, kind : Kinds \cup {"*"}]))
View == [stdout : Texts, stderr : Texts, combined : Texts, truncated : BOOLEAN,
         hash : [Streams -> Seq(RawByte)]]

\* The bytes a view or a record shows.
Shows(v) == Shown(v.stdout) \cup Shown(v.stderr) \cup Shown(v.combined)

\* A refresh on its way shows nothing that was not printed, and has the digest of its own stream.
ViewIs(v, at, n, s, hash) ==
  /\ at \in {"combined", "sum"} => Shows(v) \subseteq 1..n
  /\ at = "store" => Shows(v) \subseteq Covers(v.hash) /\ v.hash[s] = hash

ViewsInv ==
  /\ pc \in [Streams -> {"read", "closed"} \cup InFlight]
  /\ view \in [Streams -> View]
  /\ \A s \in Streams : ViewIs(view[s], pc[s], Len(arrived), s, hashes[s])

\* What a refresh stored covers what it shows, and is not out of date for good.
RefreshIs(r, at, hash) ==
  /\ Shows(r) \subseteq Covers(r.hash)
  /\ (\E t \in Streams : at[t] \in InFlight) \/ (\E t \in Streams : r.hash[t] = hash[t])

\* What was published at the end.
Final ==
  /\ \A s \in Streams : pc[s] = "closed"
  /\ record = FinalRecord(<<>>) \/ record = FinalRecord(<<ErrorLine>>)

RecordInv ==
  /\ record.status \in {"absent", "running", "terminal"}
  /\ record.status = "running" => RefreshIs(record, pc, hashes)
  /\ record.status = "terminal" => Final

\* The bytes that lines show are bytes that were printed.
LEMMA ShownIn ==
  ASSUME NEW n, NEW K, NEW lines, lines \in Seq(Seq([at : 1..n, kind : K]))
  PROVE  Shown(lines) \subseteq 1..n
<1> DEFINE Y == [at : 1..n, kind : K]
<1>1. ASSUME NEW i \in DOMAIN lines, NEW a \in BytesOf(lines[i]) PROVE a \in 1..n
  <2>1. PICK l : l = lines[i]
    OBVIOUS
  <2>2. l \in Seq(Y)
    <3> HIDE DEF Y
    <3>1. lines \in Seq(Seq(Y))
      BY DEF Y
    <3> QED
      BY <2>1, <3>1
  <2>3. PICK j \in DOMAIN l : a = l[j].at
    BY <1>1, <2>1 DEF BytesOf
  <2>4. l[j] \in Y
    <3> HIDE DEF Y
    <3> QED
      BY <2>2
  <2> QED
    BY <2>3, <2>4
<1> QED
  BY <1>1 DEF Shown

\* What is shown of the tail was printed.
LEMMA TailShows ==
  ASSUME NEW arr, NEW cs, ChunksAre(arr, cs), NEW s
  PROVE  /\ NormalizeLines(StreamText(cs, s)) \in Texts
         /\ Shown(NormalizeLines(StreamText(cs, s))) \subseteq 1..Len(arr)
         /\ NormalizeLines(CombinedText(cs)) \in Texts
         /\ Shown(NormalizeLines(CombinedText(cs))) \subseteq 1..Len(arr)
<1>1. PICK Y, n : Y = Known(arr) /\ n = Len(cs)
  OBVIOUS
<1>2. ChunksAre(arr, cs) /\ Masking(Y)
  BY <1>1, KnownIs
<1>3. Chunked(cs, n, Y)
  BY <1>1, <1>2, ChunksKnown DEF Streamed
<1>4. StreamText(cs, s) \in Seq(Y) /\ CombinedText(cs) \in Seq(Y)
  BY <1>1, <1>2, <1>3, StreamTextIs, CombinedCrossing
<1>5. ASSUME NEW t, t \in Seq(Y) PROVE NormalizeLines(t) \in Texts /\ Shown(NormalizeLines(t)) \subseteq 1..Len(arr)
  <2>1. PICK l : l = NormalizeLines(t)
    OBVIOUS
  <2>2. l \in Seq(Seq(Y))
    BY <1>5, <2>1, LinesIn
  <2>3. Shown(l) \subseteq 1..Len(arr)
    BY <1>1, <2>2, ShownIn DEF Known
  <2>4. Y \subseteq [at : Nat, kind : Kinds \cup {"*"}]
    BY <1>1 DEF Known
  <2>5. l \in Texts
    <3>1. PICK Z : Z = [at : Nat, kind : Kinds \cup {"*"}]
      OBVIOUS
    <3>2. Seq(Y) \subseteq Seq(Z)
      <4>1. Y \subseteq Z
        BY <2>4, <3>1
      <4> QED
        BY <4>1, SeqMonotonic
    <3>3. l \in Seq(Seq(Z))
      BY <2>2, <3>2, SeqMonotonic
    <3> QED
      BY <3>1, <3>3 DEF Texts
  <2> QED
    BY <2>1, <2>3, <2>5
<1> QED
  BY <1>1, <1>4, <1>5

\* Without a step of the copying goroutines, and with none of the worker, nothing changes here.
LEMMA SameRecord ==
  ASSUME ViewsInv, RecordInv, UNCHANGED arrived, UNCHANGED tail, UNCHANGED pc, UNCHANGED view, UNCHANGED record
  PROVE  ViewsInv' /\ RecordInv'
<1>1. UNCHANGED hashes /\ UNCHANGED chunks /\ UNCHANGED truncated
  BY DEF tail
<1>2. ViewsInv'
  BY <1>1 DEF ViewsInv
<1>3. \A e \in {<<>>, <<ErrorLine>>} : FinalRecord(e)' = FinalRecord(e)
  BY <1>1 DEF FinalRecord
<1>4. Final => Final'
  BY <1>3 DEF Final
<1>5. RecordInv'
  BY <1>1, <1>4 DEF RecordInv
<1> QED
  BY <1>2, <1>5

\* A record that is not terminal when a stream is still read.
LEMMA NotTerminal ==
  ASSUME RecordInv, NEW s, s \in Streams, pc[s] # "closed"
  PROVE  record.status # "terminal"
BY DEF RecordInv, Final

\* A running record and the goroutines: what a step has to keep.
LEMMA RecordKept ==
  ASSUME RecordInv, UNCHANGED record, record.status # "terminal",
         record.status = "running" => (\E t \in Streams : pc'[t] \in InFlight)
  PROVE  RecordInv'
<1>1. record.status = "running" => RefreshIs(record, pc', hashes')
  BY DEF RecordInv, RefreshIs
<1> QED
  BY <1>1 DEF RecordInv

\* A write makes the views of the readers no less true: it takes back nothing that they saw.
LEMMA WriteKeepsViews ==
  ASSUME NEW s, s \in Streams, NEW n, n \in Nat \ {0}, NEW p, p \in [1..n -> Kinds],
         TailInv, TailInv', HashesInv, ViewsInv, RecordInv, Write(s, p)
  PROVE  ViewsInv' /\ RecordInv'
<1>1. PICK arr, cs, kept, cut : /\ arr = arrived' /\ cs = chunks' /\ kept = Evict(Append(chunks, [stream |-> s, data |-> Batch(p)]))
                                /\ cut = (truncated \/ SizeOf(Append(chunks, [stream |-> s, data |-> Batch(p)])) > Budget)
  OBVIOUS
<1>2. ChunksAre(arr, cs)
  BY <1>1 DEF TailInv
<1>3. PICK v : v = [NoView EXCEPT !.stdout = NormalizeLines(StreamText(cs, "stdout")),
                                  !.stderr = NormalizeLines(StreamText(cs, "stderr")), !.truncated = cut]
  OBVIOUS
<1>4. /\ pc[s] = "read" /\ pc' = [pc EXCEPT ![s] = "combined"] /\ view' = [view EXCEPT ![s] = v]
      /\ UNCHANGED record
  BY <1>1, <1>3 DEF Write, Batch
<1>5. cut \in BOOLEAN
  BY <1>1
<1>6. /\ NormalizeLines(StreamText(cs, "stdout")) \in Texts /\ NormalizeLines(StreamText(cs, "stderr")) \in Texts
      /\ Shown(NormalizeLines(StreamText(cs, "stdout"))) \subseteq 1..Len(arr)
      /\ Shown(NormalizeLines(StreamText(cs, "stderr"))) \subseteq 1..Len(arr)
  BY <1>2, TailShows
<1>7. PICK a, b : a = NormalizeLines(StreamText(cs, "stdout")) /\ b = NormalizeLines(StreamText(cs, "stderr"))
  OBVIOUS
<1>8. v = [NoView EXCEPT !.stdout = a, !.stderr = b, !.truncated = cut]
  BY <1>3, <1>7
<1>9. v.stdout = a /\ v.stderr = b /\ v.combined = <<>> /\ v \in View
  <2>1. <<>> \in Texts /\ [t \in Streams |-> <<>>] \in [Streams -> Seq(RawByte)]
    BY DEF Texts
  <2>2. v = [stdout |-> a, stderr |-> b, combined |-> <<>>, truncated |-> cut, hash |-> [t \in Streams |-> <<>>]]
    BY <1>8 DEF NoView
  <2>3. PICK h : h = [t \in Streams |-> <<>>]
    OBVIOUS
  <2>4. h \in [Streams -> Seq(RawByte)] /\ a \in Texts /\ b \in Texts
    BY <1>6, <1>7, <2>1, <2>3
  <2>5. v = [stdout |-> a, stderr |-> b, combined |-> <<>>, truncated |-> cut, hash |-> h]
    BY <2>2, <2>3
  <2> QED
    BY <1>5, <2>1, <2>4, <2>5 DEF View
<1>10. Shows(v) \subseteq 1..Len(arr)
  <2>1. Shown(<<>>) = {}
    BY DEF Shown
  <2> QED
    BY <1>6, <1>7, <1>9, <2>1 DEF Shows
<1>11. Len(arrived) <= Len(arr) /\ Len(arrived) \in Nat /\ Len(arr) \in Nat
  <2>1. Written(arrived, arrived', Batch(p), s, n)
    BY WriteIs DEF TailInv
  <2> QED
    BY <1>1, <2>1 DEF Written
<1>12. 1..Len(arrived) \subseteq 1..Len(arr)
  BY <1>11
<1>13. pc' \in [Streams -> {"read", "closed"} \cup InFlight] /\ view' \in [Streams -> View]
       /\ pc'[s] = "combined" /\ view'[s] = v
       /\ \A t \in Streams : t # s => pc'[t] = pc[t] /\ view'[t] = view[t] /\ hashes'[t] = hashes[t]
  <2>1. \A t \in Streams : t # s => hashes'[t] = hashes[t]
    BY HashesKept
  <2> QED
    BY <1>4, <1>9, <2>1 DEF ViewsInv, InFlight
<1>14. ASSUME NEW t \in Streams PROVE ViewIs(view'[t], pc'[t], Len(arr), t, hashes'[t])
  <2>1. CASE t = s
    BY <1>10, <1>13, <2>1 DEF ViewIs
  <2>2. CASE t # s
    <3>1. ViewIs(view[t], pc[t], Len(arrived), t, hashes[t])
      BY DEF ViewsInv
    <3>2. ViewIs(view[t], pc[t], Len(arr), t, hashes[t])
      BY <1>12, <3>1 DEF ViewIs
    <3> QED
      BY <1>13, <2>2, <3>2
  <2> QED
    BY <2>1, <2>2
<1>15. ViewsInv'
  BY <1>1, <1>13, <1>14 DEF ViewsInv
<1>16. RecordInv'
  <2>1. record.status # "terminal"
    BY <1>4, NotTerminal
  <2>2. pc'[s] \in InFlight
    BY <1>13 DEF InFlight
  <2> QED
    BY <1>4, <2>1, <2>2, RecordKept
<1> QED
  BY <1>15, <1>16

\* A reader takes the combined text before it takes the digests.
LEMMA CombinedKeepsViews ==
  ASSUME NEW s, s \in Streams, TailInv, ViewsInv, RecordInv, UpdateCombined(s)
  PROVE  ViewsInv' /\ RecordInv'
<1>1. PICK x : x = NormalizeLines(CombinedText(chunks))
  OBVIOUS
<1>2. PICK v : v = [view[s] EXCEPT !.combined = x]
  OBVIOUS
<1>3. /\ pc[s] = "combined" /\ pc' = [pc EXCEPT ![s] = "sum"] /\ view' = [view EXCEPT ![s] = v]
      /\ UNCHANGED <<arrived, record>> /\ UNCHANGED hashes
  BY <1>1, <1>2 DEF UpdateCombined, tail
<1>4. x \in Texts /\ Shown(x) \subseteq 1..Len(arrived)
  BY <1>1, TailShows DEF TailInv
<1>5. view[s] \in View /\ Shows(view[s]) \subseteq 1..Len(arrived)
  BY <1>3 DEF ViewsInv, ViewIs
<1>6. v \in View /\ v.stdout = view[s].stdout /\ v.stderr = view[s].stderr /\ v.combined = x
  <2>1. PICK w : w = view[s]
    OBVIOUS
  <2>2. w \in View /\ v = [w EXCEPT !.combined = x]
    BY <1>2, <1>5, <2>1
  <2>3. PICK H : H = [Streams -> Seq(RawByte)]
    OBVIOUS
  <2>4. View = [stdout : Texts, stderr : Texts, combined : Texts, truncated : BOOLEAN, hash : H]
    BY <2>3 DEF View
  <2>5. v \in View /\ v.stdout = w.stdout /\ v.stderr = w.stderr /\ v.combined = x
    BY <1>4, <2>2, <2>4
  <2> QED
    BY <2>1, <2>5
<1>7. Shows(v) \subseteq 1..Len(arrived)
  BY <1>4, <1>5, <1>6 DEF Shows
<1>8. pc' \in [Streams -> {"read", "closed"} \cup InFlight] /\ view' \in [Streams -> View]
      /\ pc'[s] = "sum" /\ view'[s] = v /\ \A t \in Streams : t # s => pc'[t] = pc[t] /\ view'[t] = view[t]
  BY <1>3, <1>6 DEF ViewsInv, InFlight
<1>9. ASSUME NEW t \in Streams PROVE ViewIs(view'[t], pc'[t], Len(arrived), t, hashes[t])
  <2>1. CASE t = s
    BY <1>7, <1>8, <2>1 DEF ViewIs
  <2>2. CASE t # s
    BY <1>8, <2>2 DEF ViewsInv
  <2> QED
    BY <2>1, <2>2
<1>10. ViewsInv'
  BY <1>3, <1>8, <1>9 DEF ViewsInv
<1>11. RecordInv'
  <2>1. record.status # "terminal"
    BY <1>3, NotTerminal
  <2>2. pc'[s] \in InFlight
    BY <1>8 DEF InFlight
  <2> QED
    BY <1>3, <2>1, <2>2, RecordKept
<1> QED
  BY <1>10, <1>11

\* The digests that a reader then takes cover the combined text that it has.
LEMMA SumKeepsViews ==
  ASSUME NEW s, s \in Streams, TailInv, HashesInv, ViewsInv, RecordInv, UpdateSum(s)
  PROVE  ViewsInv' /\ RecordInv'
<1>2. PICK v : v = [view[s] EXCEPT !.hash = hashes]
  OBVIOUS
<1>3. /\ pc[s] = "sum" /\ pc' = [pc EXCEPT ![s] = "store"] /\ view' = [view EXCEPT ![s] = v]
      /\ UNCHANGED <<arrived, record>> /\ UNCHANGED hashes
  BY <1>2 DEF UpdateSum, tail
<1>5. view[s] \in View /\ Shows(view[s]) \subseteq 1..Len(arrived)
  BY <1>3 DEF ViewsInv, ViewIs
<1>6. v \in View /\ v.stdout = view[s].stdout /\ v.stderr = view[s].stderr /\ v.combined = view[s].combined
      /\ v.hash = hashes
  <2>1. PICK w, h : w = view[s] /\ h = hashes
    OBVIOUS
  <2>2. w \in View /\ v = [w EXCEPT !.hash = h]
    BY <1>2, <1>5, <2>1
  <2>3. PICK H : H = [Streams -> Seq(RawByte)]
    OBVIOUS
  <2>4. View = [stdout : Texts, stderr : Texts, combined : Texts, truncated : BOOLEAN, hash : H] /\ h \in H
    BY <2>1, <2>3 DEF View, HashesInv
  <2>5. v \in View /\ v.stdout = w.stdout /\ v.stderr = w.stderr /\ v.combined = w.combined /\ v.hash = h
    BY <2>2, <2>4
  <2> QED
    BY <2>1, <2>5
<1>7. Shows(v) \subseteq Covers(v.hash)
  BY <1>5, <1>6, HashesCover DEF Shows
<1>8. pc' \in [Streams -> {"read", "closed"} \cup InFlight] /\ view' \in [Streams -> View]
      /\ pc'[s] = "store" /\ view'[s] = v /\ \A t \in Streams : t # s => pc'[t] = pc[t] /\ view'[t] = view[t]
  BY <1>3, <1>6 DEF ViewsInv, InFlight
<1>9. ASSUME NEW t \in Streams PROVE ViewIs(view'[t], pc'[t], Len(arrived), t, hashes[t])
  <2>1. CASE t = s
    BY <1>6, <1>7, <1>8, <2>1 DEF ViewIs
  <2>2. CASE t # s
    BY <1>8, <2>2 DEF ViewsInv
  <2> QED
    BY <2>1, <2>2
<1>10. ViewsInv'
  BY <1>3, <1>8, <1>9 DEF ViewsInv
<1>11. RecordInv'
  <2>1. record.status # "terminal"
    BY <1>3, NotTerminal
  <2>2. pc'[s] \in InFlight
    BY <1>8 DEF InFlight
  <2> QED
    BY <1>3, <2>1, <2>2, RecordKept
<1> QED
  BY <1>10, <1>11

\* UpdateRunningOutput replaces a running record by what one reader saw, and no other record.
LEMMA StoreKeepsViews ==
  ASSUME NEW s, s \in Streams, ViewsInv, RecordInv, UpdateRunningOutput(s)
  PROVE  ViewsInv' /\ RecordInv'
<1>1. PICK v, r : v = view[s] /\ r = RecordOf("running", v)
  OBVIOUS
<1>3. /\ pc[s] = "store" /\ pc' = [pc EXCEPT ![s] = "read"] /\ view' = [view EXCEPT ![s] = NoView]
      /\ record' = (IF record.status = "running" THEN r ELSE record)
      /\ UNCHANGED arrived /\ UNCHANGED hashes
  BY <1>1 DEF UpdateRunningOutput, tail
<1>4. Shows(v) \subseteq Covers(v.hash) /\ v.hash[s] = hashes[s]
  BY <1>1, <1>3 DEF ViewsInv, ViewIs
<1>5. r.status = "running" /\ Shows(r) = Shows(v) /\ r.hash = v.hash
  BY <1>1 DEF RecordOf, Shows
<1>6. NoView \in View
  <2>1. <<>> \in Texts /\ [t \in Streams |-> <<>>] \in [Streams -> Seq(RawByte)]
    BY DEF Texts
  <2> QED
    BY <2>1 DEF View, NoView
<1>7. pc' \in [Streams -> {"read", "closed"} \cup InFlight] /\ view' \in [Streams -> View]
      /\ pc'[s] = "read" /\ \A t \in Streams : t # s => pc'[t] = pc[t] /\ view'[t] = view[t]
  BY <1>3, <1>6 DEF ViewsInv
<1>8. ASSUME NEW t \in Streams PROVE ViewIs(view'[t], pc'[t], Len(arrived), t, hashes[t])
  <2>1. CASE t = s
    BY <1>7, <2>1 DEF ViewIs
  <2>2. CASE t # s
    BY <1>7, <2>2 DEF ViewsInv
  <2> QED
    BY <2>1, <2>2
<1>9. ViewsInv'
  BY <1>3, <1>7, <1>8 DEF ViewsInv
<1>10. record.status \in {"absent", "running"}
  BY <1>3, NotTerminal DEF RecordInv
<1>11. CASE record.status = "running"
  <2>1. record' = r
    BY <1>3, <1>11
  <2>2. RefreshIs(r, pc', hashes')
    BY <1>3, <1>4, <1>5 DEF RefreshIs
  <2> QED
    BY <1>5, <1>9, <2>1, <2>2 DEF RecordInv
<1>12. CASE record.status = "absent"
  <2>1. record'.status = "absent"
    BY <1>3, <1>12
  <2> QED
    BY <1>9, <2>1 DEF RecordInv
<1> QED
  BY <1>9, <1>10, <1>11, <1>12

\* A reader that sees the end of its stream changes no record.
LEMMA EndKeepsViews ==
  ASSUME NEW s, s \in Streams, ViewsInv, RecordInv, EndOfStream(s)
  PROVE  ViewsInv' /\ RecordInv'
<1>1. /\ pc[s] = "read" /\ pc' = [pc EXCEPT ![s] = "closed"] /\ UNCHANGED <<arrived, view, record>> /\ UNCHANGED hashes
  BY DEF EndOfStream, tail
<1>2. pc' \in [Streams -> {"read", "closed"} \cup InFlight] /\ pc'[s] = "closed"
      /\ \A t \in Streams : t # s => pc'[t] = pc[t]
  BY <1>1 DEF ViewsInv
<1>3. \A t \in Streams : pc'[t] = pc[t] \/ pc'[t] = "closed"
  BY <1>2
<1>4. \A t \in Streams : pc[t] \in InFlight => pc'[t] = pc[t]
  BY <1>1, <1>2 DEF InFlight
<1>5. ViewsInv'
  <2>1. ASSUME NEW t \in Streams PROVE ViewIs(view[t], pc'[t], Len(arrived), t, hashes[t])
    BY <1>3 DEF ViewsInv, ViewIs
  <2>2. view \in [Streams -> View]
    BY DEF ViewsInv
  <2> QED
    BY <1>1, <1>2, <2>1, <2>2 DEF ViewsInv
<1>6. RecordInv'
  <2>1. record.status # "terminal" /\ record.status \in {"absent", "running"}
    BY <1>1, NotTerminal DEF RecordInv
  <2>2. record.status = "running" => RefreshIs(record, pc', hashes)
    BY <1>4 DEF RecordInv, RefreshIs
  <2> QED
    BY <1>1, <2>1, <2>2 DEF RecordInv
<1> QED
  BY <1>5, <1>6

\* The final record is made when both streams have ended, from all that was printed.
LEMMA PublishKeepsViews ==
  ASSUME ViewsInv, RecordInv, Publish
  PROVE  ViewsInv' /\ RecordInv'
<1>1. UNCHANGED arrived /\ UNCHANGED tail /\ UNCHANGED pc /\ UNCHANGED view /\ \A s \in Streams : pc[s] = "closed"
  BY DEF Publish
<1>2. CASE UNCHANGED record
  BY <1>1, <1>2, SameRecord
<1>3. CASE \E e \in {<<>>, <<ErrorLine>>} : record' = FinalRecord(e)
  <2>1. PICK e \in {<<>>, <<ErrorLine>>} : record' = FinalRecord(e)
    BY <1>3
  <2>2. UNCHANGED hashes /\ UNCHANGED chunks /\ UNCHANGED truncated
    BY <1>1 DEF tail
  <2>3. FinalRecord(e)' = FinalRecord(e) /\ FinalRecord(e).status = "terminal"
    BY <2>2 DEF FinalRecord
  <2>4. record' = FinalRecord(<<>>)' \/ record' = FinalRecord(<<ErrorLine>>)'
    BY <2>1, <2>2 DEF FinalRecord
  <2>5. record'.status = "terminal"
    BY <2>1, <2>3
  <2>6. \A s \in Streams : pc'[s] = "closed"
    BY <1>1
  <2>7. RecordInv'
    BY <2>4, <2>5, <2>6 DEF RecordInv, Final
  <2>8. ViewsInv'
    BY <1>1, <2>2 DEF ViewsInv
  <2> QED
    BY <2>7, <2>8
<1> QED
  BY <1>2, <1>3 DEF Publish

\* A record that was taken out of the cache promises nothing.
LEMMA ForgetKeepsViews ==
  ASSUME ViewsInv, RecordInv, Forget
  PROVE  ViewsInv' /\ RecordInv'
<1>1. UNCHANGED arrived /\ UNCHANGED hashes /\ UNCHANGED pc /\ UNCHANGED view /\ record' = NoRecord
  BY DEF Forget, tail
<1>2. record'.status = "absent"
  BY <1>1 DEF NoRecord, RecordOf
<1> QED
  BY <1>1, <1>2 DEF ViewsInv, RecordInv

\* No action but a write changes the tail or the digests.
LEMMA TailKept ==
  ASSUME Forget \/ Publish \/ (\E s \in Streams : UpdateCombined(s) \/ UpdateSum(s) \/ UpdateRunningOutput(s) \/ EndOfStream(s))
         \/ UNCHANGED vars
  PROVE  UNCHANGED arrived /\ UNCHANGED hashes
BY DEF Forget, Publish, UpdateCombined, UpdateSum, UpdateRunningOutput, EndOfStream, vars, tail

\* The inductive invariant.
TailOutputInv == TailInv /\ HashesInv /\ ViewsInv /\ RecordInv

\* The initial state is within the inductive invariant.
LEMMA TailOutputInit ==
  ASSUME Init
  PROVE  TailOutputInv
<1>1. arrived = <<>> /\ hashes = [s \in Streams |-> <<>>] /\ pc = [s \in Streams |-> "read"]
      /\ view = [s \in Streams |-> NoView]
  BY DEF Init
<1>2. HashesInv
  <2>1. ASSUME NEW s \in Streams PROVE DigestIs(arrived, hashes[s], s)
    BY <1>1 DEF DigestIs
  <2> QED
    BY <1>1, <2>1 DEF HashesInv
<1>3. ViewsInv
  <2>1. NoView \in View
    <3>1. <<>> \in Texts /\ [t \in Streams |-> <<>>] \in [Streams -> Seq(RawByte)]
      BY DEF Texts
    <3> QED
      BY <3>1 DEF View, NoView
  <2>2. \A s \in Streams : ViewIs(view[s], pc[s], Len(arrived), s, hashes[s])
    BY <1>1 DEF ViewIs
  <2> QED
    BY <1>1, <2>1, <2>2 DEF ViewsInv
<1>4. RecordInv
  <2>1. PICK st \in {"absent", "running"} : record = RecordOf(st, NoView)
    BY DEF Init
  <2>2. record.status = st /\ record.hash = hashes /\ Shows(record) = {}
    <3>1. Shown(<<>>) = {}
      BY DEF Shown
    <3> QED
      BY <1>1, <2>1, <3>1 DEF RecordOf, NoView, Shows
  <2>3. RefreshIs(record, pc, hashes)
    BY <2>2 DEF RefreshIs, Streams
  <2> QED
    BY <2>1, <2>2, <2>3 DEF RecordInv
<1> QED
  BY <1>2, <1>3, <1>4, TailInit DEF TailOutputInv

\* Every step keeps the inductive invariant.
LEMMA TailOutputSteps ==
  ASSUME TailOutputInv, [Next]_vars
  PROVE  TailOutputInv'
<1>1. TailInv /\ HashesInv /\ ViewsInv /\ RecordInv /\ TailInv'
  BY TailSteps DEF TailOutputInv
<1>2. ASSUME UNCHANGED arrived, UNCHANGED hashes PROVE HashesInv'
  BY <1>1, <1>2 DEF HashesInv
<1>3. ASSUME NEW s \in Streams, NEW n \in 1..MaxWrite, NEW p \in [1..n -> Kinds], Write(s, p)
      PROVE  HashesInv' /\ ViewsInv' /\ RecordInv'
  <2>1. n \in Nat \ {0}
    OBVIOUS
  <2> QED
    BY <1>1, <1>3, <2>1, HashesKept, WriteKeepsViews
<1>4. ASSUME NEW s \in Streams, UpdateCombined(s) PROVE HashesInv' /\ ViewsInv' /\ RecordInv'
  BY <1>1, <1>2, <1>4, TailKept, CombinedKeepsViews
<1>5. ASSUME NEW s \in Streams, UpdateSum(s) PROVE HashesInv' /\ ViewsInv' /\ RecordInv'
  BY <1>1, <1>2, <1>5, TailKept, SumKeepsViews
<1>6. ASSUME NEW s \in Streams, UpdateRunningOutput(s) PROVE HashesInv' /\ ViewsInv' /\ RecordInv'
  BY <1>1, <1>2, <1>6, TailKept, StoreKeepsViews
<1>7. ASSUME NEW s \in Streams, EndOfStream(s) PROVE HashesInv' /\ ViewsInv' /\ RecordInv'
  BY <1>1, <1>2, <1>7, TailKept, EndKeepsViews
<1>8. CASE Publish
  BY <1>1, <1>2, <1>8, TailKept, PublishKeepsViews DEF TailOutputInv
<1>9. CASE Forget
  BY <1>1, <1>2, <1>9, TailKept, ForgetKeepsViews DEF TailOutputInv
<1>10. CASE UNCHANGED vars
  BY <1>1, <1>2, <1>10, TailKept, SameRecord DEF TailOutputInv, vars
<1> QED
  BY <1>1, <1>3, <1>4, <1>5, <1>6, <1>7, <1>8, <1>9, <1>10 DEF Next, TailOutputInv

\* A refresh that was stored has covered what it shows.
LEMMA RecordGives ==
  ASSUME TailOutputInv
  PROVE  LiveRecordCoherent
<1> SUFFICES ASSUME record.status = "running"
             PROVE  /\ Shown(record.stdout) \cup Shown(record.stderr) \cup Shown(record.combined)
                         \subseteq UNION {BytesOf(record.hash[s]) : s \in Streams}
                    /\ (\A s \in Streams : pc[s] \in {"read", "closed"}) =>
                         {s \in Streams : record.hash[s] = hashes[s]} # {}
  BY DEF LiveRecordCoherent
<1>1. RefreshIs(record, pc, hashes)
  BY DEF TailOutputInv, RecordInv
<1>2. Shows(record) \subseteq Covers(record.hash)
  BY <1>1 DEF RefreshIs
<1>3. ASSUME \A s \in Streams : pc[s] \in {"read", "closed"}
      PROVE  \E s \in Streams : record.hash[s] = hashes[s]
  BY <1>1, <1>3 DEF RefreshIs, InFlight
<1> QED
  BY <1>2, <1>3 DEF Shows, Covers

-----------------------------------------------------------------------------
(* The combined text is the same however the bytes are divided into chunks. *)

Piece(s, d) == [stream |-> s, data |-> d]

\* What does not depend on the division.
Alike(a, b) ==
  a.out = b.out /\ a.run = b.run /\ (a.stream = b.stream \/ (a.out = <<>> /\ a.run = <<>>))

\* n is a with the chunk c.
StepIs(a, c, n) ==
  /\ n.stream = c.stream
  /\ c.stream # a.stream => n.out = a.out \o Redact(a.run) /\ n.run = c.data
  /\ c.stream = a.stream => n.out = a.out /\ n.run = a.run \o c.data

\* A chunk of the stream of the run joins it; one of the other stream ends it.
LEMMA CombineStepIs ==
  ASSUME NEW Y, NEW a, a \in Acc(Y), NEW c
  PROVE  StepIs(a, c, CombineStep(a, c))
<1>1. CASE c.stream # a.stream
  BY <1>1 DEF CombineStep, StepIs
<1>2. CASE c.stream = a.stream
  <2>1. PICK o, r, s, e, n : o = a.out /\ r = a.run /\ s = a.stream /\ e = a.run \o c.data /\ n = CombineStep(a, c)
    OBVIOUS
  <2>2. a = [out |-> o, run |-> r, stream |-> s]
    BY <2>1 DEF Acc
  <2>3. n = [a EXCEPT !.run = e]
    BY <1>2, <2>1 DEF CombineStep
  <2>4. n.out = o /\ n.run = e /\ n.stream = s
    BY <2>2, <2>3
  <2> QED
    BY <1>2, <2>1, <2>4 DEF StepIs
<1> QED
  BY <1>1, <1>2

\* An empty text stays as it is.
LEMMA RedactNone ==
  Redact(<<>>) = <<>>
<1>1. Masking({}) /\ <<>> \in Seq({})
  BY DEF Masking
<1> QED
  BY <1>1, Redacted

\* A text with nothing in it takes a chunk as its run, whatever the stream.
LEMMA StepFromNone ==
  ASSUME NEW Y, NEW a, a \in Acc(Y), a.out = <<>>, a.run = <<>>, NEW c, c.data \in Seq(Y),
         NEW n, n = CombineStep(a, c)
  PROVE  n.out = <<>> /\ n.run = c.data /\ n.stream = c.stream
<1>1. <<>> \o <<>> = <<>> /\ <<>> \o c.data = c.data
  BY ConcatEmptySeq
<1>2. StepIs(a, c, n)
  BY CombineStepIs
<1> QED
  BY <1>1, <1>2, RedactNone DEF StepIs

\* A chunk more keeps two accumulators alike.
LEMMA StepAlike ==
  ASSUME NEW Y, NEW a, a \in Acc(Y), NEW b, b \in Acc(Y), Alike(a, b), NEW c, c.data \in Seq(Y)
  PROVE  Alike(CombineStep(a, c), CombineStep(b, c))
<1>1. PICK m, n : m = CombineStep(a, c) /\ n = CombineStep(b, c)
  OBVIOUS
<1>2. CASE a.stream = b.stream
  <2>1. a.out = b.out /\ a.run = b.run
    BY DEF Alike
  <2>2. StepIs(a, c, m) /\ StepIs(b, c, n)
    BY <1>1, CombineStepIs
  <2>3. m.out = n.out /\ m.run = n.run /\ m.stream = n.stream
    BY <1>2, <2>1, <2>2 DEF StepIs
  <2> QED
    BY <1>1, <2>3 DEF Alike
<1>3. CASE a.out = <<>> /\ a.run = <<>>
  <2>1. b.out = <<>> /\ b.run = <<>>
    BY <1>3 DEF Alike
  <2>2. m.out = <<>> /\ m.run = c.data /\ m.stream = c.stream
    BY <1>1, <1>3, StepFromNone
  <2>3. n.out = <<>> /\ n.run = c.data /\ n.stream = c.stream
    BY <1>1, <2>1, StepFromNone
  <2> QED
    BY <1>1, <2>2, <2>3 DEF Alike
<1> QED
  BY <1>2, <1>3 DEF Alike

\* A chunk in two pieces.
LEMMA StepAgain ==
  ASSUME NEW Y, Masking(Y), NEW a, a \in Acc(Y), NEW s, s \in Streams, NEW d, d \in Seq(Y), NEW e, e \in Seq(Y)
  PROVE  Alike(CombineStep(CombineStep(a, Piece(s, d)), Piece(s, e)), CombineStep(a, Piece(s, d \o e)))
<1>1. PICK c, p, q : c = Piece(s, d) /\ p = Piece(s, e) /\ q = Piece(s, d \o e)
  OBVIOUS
<1>2. /\ c.stream = s /\ c.data = d /\ p.stream = s /\ p.data = e /\ q.stream = s /\ q.data = d \o e
  BY <1>1 DEF Piece
<1>3. PICK m, n, w : m = CombineStep(a, c) /\ n = CombineStep(m, p) /\ w = CombineStep(a, q)
  OBVIOUS
<1>4. m \in Acc(Y)
  BY <1>2, <1>3, CombineStepIn
<1>4a. StepIs(a, c, m) /\ StepIs(m, p, n) /\ StepIs(a, q, w)
  BY <1>3, <1>4, CombineStepIs
<1>5. m.stream = s /\ w.stream = s
  BY <1>2, <1>4a DEF StepIs
<1>6. n.stream = s /\ n.out = m.out /\ n.run = m.run \o e
  BY <1>2, <1>4a, <1>5 DEF StepIs
<1>7. CASE s # a.stream
  <2>1. m.out = a.out \o Redact(a.run) /\ m.run = d
    BY <1>2, <1>4a, <1>7 DEF StepIs
  <2>2. w.out = a.out \o Redact(a.run) /\ w.run = d \o e
    BY <1>2, <1>4a, <1>7 DEF StepIs
  <2>3. Alike(n, w)
    BY <1>5, <1>6, <2>1, <2>2 DEF Alike
  <2> QED
    BY <1>1, <1>3, <2>3
<1>8. CASE s = a.stream
  <2>1. m.out = a.out /\ m.run = a.run \o d
    BY <1>2, <1>4a, <1>8 DEF StepIs
  <2>2. w.out = a.out /\ w.run = a.run \o (d \o e)
    BY <1>2, <1>4a, <1>8 DEF StepIs
  <2>3. (a.run \o d) \o e = a.run \o (d \o e)
    <3>1. PICK r : r = a.run
      OBVIOUS
    <3>2. PICK S : S = Seq(Y)
      OBVIOUS
    <3>3. r \in S
      BY <3>1, <3>2 DEF Acc
    <3>4. (r \o d) \o e = r \o (d \o e)
      BY <3>2, <3>3, ConcatAssociative
    <3> QED
      BY <3>1, <3>4
  <2>4. Alike(n, w)
    BY <1>5, <1>6, <2>1, <2>2, <2>3 DEF Alike
  <2> QED
    BY <1>1, <1>3, <2>4
<1> QED
  BY <1>7, <1>8

\* To be alike is an equivalence.
LEMMA AlikeIs ==
  /\ \A a : Alike(a, a)
  /\ \A a, b : Alike(a, b) => Alike(b, a)
  /\ \A a, b, c : Alike(a, b) /\ Alike(b, c) => Alike(a, c)
BY DEF Alike

\* A head of a sequence is a shorter head and one member.
LEMMA OneMore ==
  ASSUME NEW Y, NEW d, d \in Seq(Y), NEW j \in 1..Len(d)
  PROVE  /\ SubSeq(d, 1, j) \in Seq(Y) /\ SubSeq(d, 1, j - 1) \in Seq(Y) /\ <<d[j]>> \in Seq(Y)
         /\ SubSeq(d, 1, j) = SubSeq(d, 1, j - 1) \o <<d[j]>>
<1>1. Len(d) \in Nat /\ d[j] \in Y
  BY ElementOfSeq
<1>2. PICK f, g, e, k : f = SubSeq(d, 1, j) /\ g = SubSeq(d, 1, j - 1) /\ e = <<d[j]>> /\ k = j - 1
  OBVIOUS
<1>3. 0 \in Nat /\ j \in Nat /\ k \in Nat /\ 0 <= j /\ 0 <= k /\ j <= Len(d) /\ k <= Len(d) /\ 0 + 1 = 1
      /\ j - 0 = j /\ k - 0 = k /\ (\A i \in 1..j : 0 + i = i) /\ (\A i \in 1..k : 0 + i = i)
  BY <1>1, <1>2
<1>4. f \in Seq(Y) /\ Len(f) = j /\ \A i \in 1..j : f[i] = d[i]
  <2>1. /\ SubSeq(d, 0 + 1, j) \in Seq(Y) /\ Len(SubSeq(d, 0 + 1, j)) = j - 0
        /\ \A i \in 1..(j - 0) : SubSeq(d, 0 + 1, j)[i] = d[0 + i]
    BY <1>3, Slice
  <2> QED
    BY <1>2, <1>3, <2>1
<1>5. g \in Seq(Y) /\ Len(g) = k /\ \A i \in 1..k : g[i] = d[i]
  <2>1. /\ SubSeq(d, 0 + 1, k) \in Seq(Y) /\ Len(SubSeq(d, 0 + 1, k)) = k - 0
        /\ \A i \in 1..(k - 0) : SubSeq(d, 0 + 1, k)[i] = d[0 + i]
    BY <1>3, Slice
  <2> QED
    BY <1>2, <1>3, <2>1
<1>6. e \in Seq(Y) /\ Len(e) = 1 /\ e[1] = d[j]
  BY <1>1, <1>2
<1>7. PICK w : w = g \o e
  OBVIOUS
<1>8. w \in Seq(Y) /\ Len(w) = k + 1 /\ \A i \in 1..(k + 1) : w[i] = IF i <= k THEN g[i] ELSE e[i - k]
  <2>1. w \in Seq(Y) /\ Len(w) = Len(g) + Len(e) /\ \A i \in 1..(Len(g) + Len(e)) : w[i] = IF i <= Len(g) THEN g[i] ELSE e[i - Len(g)]
    BY <1>5, <1>6, <1>7, ConcatProperties
  <2> QED
    BY <1>5, <1>6, <2>1
<1>9. ASSUME NEW i \in 1..j PROVE w[i] = f[i]
  <2>1. i \in 1..(k + 1)
    BY <1>1, <1>2
  <2>2. CASE i <= k
    <3>1. i \in 1..k
      BY <1>2, <1>3, <2>2
    <3> QED
      BY <1>4, <1>5, <1>8, <2>1, <2>2, <3>1
  <2>3. CASE ~(i <= k)
    <3>1. i = j /\ i - k = 1
      BY <1>2, <1>3, <2>3
    <3>2. w[i] = e[i - k]
      BY <1>8, <2>1, <2>3
    <3> QED
      BY <1>4, <1>6, <3>1, <3>2
  <2> QED
    BY <2>2, <2>3
<1>10. k + 1 = j
  BY <1>2, <1>3
<1>11. w = f
  BY <1>4, <1>8, <1>9, <1>10, SeqEqual
<1> QED
  BY <1>2, <1>4, <1>5, <1>6, <1>7, <1>11

\* h takes the bytes d of stream s one by one.
ByteSteps(Y, s, d, k, h) ==
  /\ k \in Nat \ {0} /\ d \in Seq(Y) /\ Len(d) = k
  /\ \A j \in 0..k : h[j] \in Acc(Y)
  /\ \A j \in 1..k : h[j] = CombineStep(h[j - 1], Piece(s, <<d[j]>>))

\* To take a chunk at once or byte by byte is alike.
LEMMA ChunkByBytes ==
  ASSUME NEW Y, Masking(Y), NEW a, a \in Acc(Y), NEW s, s \in Streams, NEW d, NEW k, NEW h,
         ByteSteps(Y, s, d, k, h), Alike(a, h[0])
  PROVE  Alike(CombineStep(a, Piece(s, d)), h[k])
<1> DEFINE To(j) == CombineStep(a, Piece(s, SubSeq(d, 1, j)))
           A == [j \in 0..k |-> IF j = 0 THEN {h[0]} ELSE {x \in Acc(Y) : Alike(x, To(j))}]
<1>1. k \in Nat /\ 0 \in 0..k /\ k # 0 /\ k \in 0..k /\ \A j \in 1..k : j \in 0..k /\ j # 0 /\ j - 1 \in 0..k
  BY DEF ByteSteps
<1>2. d \in Seq(Y) /\ Len(d) = k
  BY DEF ByteSteps
<1>3. A[0] = {h[0]} /\ \A j \in 0..k : j # 0 => A[j] = {x \in Acc(Y) : Alike(x, To(j))}
  BY <1>1
<1>4. \A j \in 1..k : Piece(s, SubSeq(d, 1, j)).data \in Seq(Y) /\ Piece(s, <<d[j]>>).data \in Seq(Y)
  <2>1. \A j \in 1..k : SubSeq(d, 1, j) \in Seq(Y) /\ <<d[j]>> \in Seq(Y)
    BY <1>2, OneMore
  <2> QED
    BY <2>1 DEF Piece
<1>4a. \A j \in 1..k : Piece(s, SubSeq(d, 1, j)).stream \in Streams
  BY DEF Piece
<1>5. \A j \in 1..k : To(j) \in Acc(Y)
  BY <1>4, <1>4a, CombineStepIn
<1> HIDE DEF A
<1>6. ASSUME NEW j \in 1..k, h[j - 1] \in A[j - 1] PROVE h[j] \in A[j]
  <2>1. PICK b, e, x : b = h[j - 1] /\ e = <<d[j]>> /\ x = Piece(s, e)
    OBVIOUS
  <2>2. h[j] = CombineStep(b, x) /\ b \in Acc(Y) /\ h[j] \in Acc(Y)
    BY <1>1, <2>1 DEF ByteSteps
  <2>3. x.data \in Seq(Y) /\ e \in Seq(Y)
    BY <1>4, <2>1, <1>2, OneMore
  <2>4. CASE j = 1
    <3>1. b = h[0]
      BY <2>1, <2>4
    <3>2. Alike(CombineStep(a, x), h[j])
      BY <2>2, <2>3, <3>1, StepAlike
    <3>3. SubSeq(d, 1, j) = e
      <4>1. SubSeq(d, 1, j) = SubSeq(d, 1, j - 1) \o <<d[j]>>
        BY <1>2, OneMore
      <4>2. SubSeq(d, 1, 0) = <<>>
        <5>1. 0 \in Nat /\ 0 <= Len(d) /\ 0 - 0 = 0 /\ 0 + 1 = 1 /\ 0 <= 0
          BY <1>1, <1>2
        <5>2. SubSeq(d, 0 + 1, 0) \in Seq(Y) /\ Len(SubSeq(d, 0 + 1, 0)) = 0 - 0
          BY <1>2, <5>1, Slice
        <5>3. PICK g : g = SubSeq(d, 0 + 1, 0)
          OBVIOUS
        <5>4. g \in Seq(Y) /\ Len(g) = 0
          BY <5>1, <5>2, <5>3
        <5>5. g = <<>>
          BY <5>4, EmptySeq
        <5> QED
          BY <5>1, <5>3, <5>5
      <4>3. <<>> \o e = e
        BY <2>3, ConcatEmptySeq
      <4>4. j - 1 = 0
        BY <2>4
      <4>5. SubSeq(d, 1, j) = <<>> \o e
        BY <2>1, <4>1, <4>2, <4>4
      <4> QED
        BY <4>3, <4>5
    <3>4. Alike(h[j], To(j))
      BY <2>1, <3>2, <3>3, AlikeIs
    <3> QED
      BY <1>1, <1>3, <2>2, <3>4
  <2>5. CASE j # 1
    <3>1. PICK i : i = j - 1
      OBVIOUS
    <3>2. i \in 1..k /\ i \in 0..k /\ i # 0
      BY <1>1, <2>5, <3>1
    <3>3. Alike(b, To(i))
      BY <1>3, <1>6, <2>1, <3>1, <3>2
    <3>4. Alike(h[j], CombineStep(To(i), x))
      BY <1>5, <2>2, <2>3, <3>2, <3>3, StepAlike
    <3>5. PICK g : g = SubSeq(d, 1, i)
      OBVIOUS
    <3>6. g \in Seq(Y) /\ SubSeq(d, 1, j) = g \o e
      BY <1>2, <2>1, <3>1, <3>5, OneMore
    <3>7. Alike(CombineStep(CombineStep(a, Piece(s, g)), Piece(s, e)), CombineStep(a, Piece(s, g \o e)))
      BY <2>3, <3>6, StepAgain
    <3>8. Alike(CombineStep(To(i), x), To(j))
      BY <2>1, <3>5, <3>6, <3>7
    <3>9. Alike(h[j], To(j))
      BY <3>4, <3>8, AlikeIs
    <3> QED
      BY <1>1, <1>3, <2>2, <3>9
  <2> QED
    BY <2>4, <2>5
<1>7. \A j \in 0..k : h[j] \in A[j]
  <2>1. h[0] \in A[0]
    BY <1>3
  <2> QED
    BY <1>1, <1>6, <2>1, StepsKeep
<1>8. Alike(h[k], To(k))
  BY <1>1, <1>3, <1>7
<1>9. SubSeq(d, 1, k) = d
  BY <1>2, SubSeqFull
<1> QED
  BY <1>8, <1>9, AlikeIs

Prefix(x, r) == Len(x) <= Len(r) /\ \A j \in 1..Len(x) : r[j] = x[j]

Extends(X, y, x, d) == x \in Seq(X) /\ d \in Seq(X) /\ y = x \o d

\* Of two sequences that make a prefix together, the first is a prefix and the second follows it.
LEMMA PrefixGoesOn ==
  ASSUME NEW X, NEW x, NEW d, NEW y, Extends(X, y, x, d), NEW r, r \in Seq(X), Prefix(y, r)
  PROVE  /\ Prefix(x, r) /\ Len(y) = Len(x) + Len(d)
         /\ \A j \in 1..Len(d) : r[Len(x) + j] = d[j] /\ Len(x) + j \in 1..Len(r)
<1>1. PICK l, k, m : l = Len(x) /\ k = Len(d) /\ m = Len(r)
  OBVIOUS
<1>2. l \in Nat /\ k \in Nat /\ m \in Nat
  BY <1>1, LenProperties DEF Extends
<1>3. Len(y) = l + k /\ \A j \in 1..(l + k) : y[j] = IF j <= l THEN x[j] ELSE d[j - l]
  BY <1>1, ConcatProperties DEF Extends
<1>4. l + k <= m /\ \A j \in 1..(l + k) : r[j] = y[j]
  BY <1>1, <1>3 DEF Prefix
<1>5. \A j \in 1..l : j \in 1..(l + k) /\ j <= l
  BY <1>2
<1>6. \A j \in 1..k : l + j \in 1..(l + k) /\ ~(l + j <= l) /\ (l + j) - l = j /\ l + j \in 1..m
  BY <1>2, <1>4
<1>7. l <= m
  BY <1>2, <1>4
<1>8. \A j \in 1..l : r[j] = x[j]
  BY <1>3, <1>4, <1>5
<1>9. ASSUME NEW j \in 1..k PROVE r[l + j] = d[j] /\ l + j \in 1..m
  BY <1>3, <1>4, <1>6
<1> QED
  BY <1>1, <1>3, <1>7, <1>8, <1>9 DEF Prefix

\* The data so far is a prefix of all of it.
LEMMA ConcatsPrefix ==
  ASSUME NEW X, NEW cs, NEW n, Chunked(cs, n, X), NEW f, Concats(cs, n, f), \A i \in 0..n : f[i] \in Seq(X)
  PROVE  \A i \in 0..n : Prefix(f[i], f[n])
<1> DEFINE P == {x \in Seq(X) : Prefix(x, f[n])}
           g == [i \in 0..n |-> f[n - i]]
           A == [i \in 0..n |-> P]
<1>1. n \in Nat /\ n \in 0..n /\ 0 \in 0..n /\ n - 0 = n /\ \A i \in 0..n : n - i \in 0..n /\ n - (n - i) = i
  BY DEF Chunked
<1>2. \A i \in 0..n : g[i] = f[n - i] /\ A[i] = P
  OBVIOUS
<1> HIDE DEF g, A
<1>3. g[0] \in A[0]
  <2>1. f[n] \in Seq(X)
    BY <1>1
  <2>2. Prefix(f[n], f[n])
    <3>1. PICK x : x = f[n]
      OBVIOUS
    <3>2. Len(x) \in Nat
      BY <2>1, <3>1
    <3>3. Prefix(x, x)
      BY <3>2 DEF Prefix
    <3> QED
      BY <3>1, <3>3
  <2> QED
    BY <1>1, <1>2, <2>1, <2>2
<1>4. ASSUME NEW i \in 1..n, g[i - 1] \in A[i - 1] PROVE g[i] \in A[i]
  <2>1. PICK k : k = n - i
    OBVIOUS
  <2>2. k \in 0..n /\ k + 1 \in 1..n /\ k + 1 \in 0..n /\ n - (i - 1) = k + 1 /\ (k + 1) - 1 = k /\ i \in 0..n /\ i - 1 \in 0..n
    BY <1>1, <2>1
  <2>3. g[i] = f[k] /\ g[i - 1] = f[k + 1]
    BY <1>2, <2>1, <2>2
  <2>4. PICK x, y, d, r : x = f[k] /\ y = f[k + 1] /\ d = cs[k + 1].data /\ r = f[n]
    OBVIOUS
  <2>5. y = x \o d
    <3>1. f[k + 1] = f[(k + 1) - 1] \o cs[k + 1].data
      BY <2>2 DEF Concats
    <3> QED
      BY <2>2, <2>4, <3>1
  <2>6. x \in Seq(X) /\ d \in Seq(X) /\ r \in Seq(X)
    BY <1>1, <2>2, <2>4 DEF Chunked
  <2>7. Prefix(y, r)
    BY <1>2, <1>4, <2>2, <2>3, <2>4
  <2>8. Prefix(x, r)
    BY <2>5, <2>6, <2>7, PrefixGoesOn DEF Extends
  <2> QED
    BY <1>2, <2>2, <2>3, <2>4, <2>6, <2>8
<1>5. \A i \in 0..n : g[i] \in A[i]
  BY <1>1, <1>3, <1>4, StepsKeep
<1>6. ASSUME NEW i \in 0..n PROVE Prefix(f[i], f[n])
  <2>1. g[n - i] \in P /\ g[n - i] = f[n - (n - i)]
    BY <1>1, <1>2, <1>5
  <2> QED
    BY <1>1, <2>1
<1> QED
  BY <1>6

\* Each byte in a chunk of its own.
Pieces(arr, r) == [i \in DOMAIN r |-> Piece(arr[r[i].at].stream, <<r[i]>>)]

\* The pieces of one byte each are chunks of their streams.
LEMMA PiecesAre ==
  ASSUME NEW arr, arr \in Seq(Printed), NEW r, r \in Seq(Known(arr))
  PROVE  Streamed(Pieces(arr, r), Len(r), Known(arr))
<1>1. PICK bs, m : bs = Pieces(arr, r) /\ m = Len(r)
  OBVIOUS
<1>2. m \in Nat /\ DOMAIN r = 1..m
  BY <1>1
<1>3. DOMAIN bs = 1..m /\ \A i \in 1..m : bs[i] = Piece(arr[r[i].at].stream, <<r[i]>>)
  BY <1>1, <1>2 DEF Pieces
<1>4. ASSUME NEW i \in 1..m PROVE bs[i].data \in Seq(Known(arr)) /\ bs[i].stream \in Streams
  <2>1. PICK b, p, s : b = r[i] /\ p = arr[r[i].at] /\ s = arr[r[i].at].stream
    OBVIOUS
  <2>2. b \in Known(arr)
    BY <1>2, <2>1, ElementOfSeq, <1>1
  <2>3. b.at \in 1..Len(arr)
    BY <2>2 DEF Known
  <2>4. p \in Printed
    BY <2>1, <2>3, ElementOfSeq
  <2>5. s \in Streams
    BY <2>1, <2>4 DEF Printed
  <2>6. <<b>> \in Seq(Known(arr))
    BY <2>2
  <2>7. bs[i] = Piece(s, <<b>>)
    BY <1>3, <2>1
  <2> QED
    BY <2>5, <2>6, <2>7 DEF Piece
<1> QED
  BY <1>1, <1>2, <1>3, <1>4 DEF Streamed, Chunked

\* The combined text depends on the bytes and their streams only, not on the chunks they came in.
LEMMA CombinedBytes ==
  ASSUME NEW arr, arr \in Seq(Printed), NEW cs, ChunksAre(arr, cs), NEW r, r = Bytes(cs)
  PROVE  CombinedText(Pieces(arr, r)) = CombinedText(cs)
<1>1. PICK Y, n, m, bs : Y = Known(arr) /\ n = Len(cs) /\ m = Len(r) /\ bs = Pieces(arr, r)
  OBVIOUS
<1>2. Streamed(cs, n, Y) /\ n \in Nat /\ Masking(Y)
  BY <1>1, ChunksKnown, KnownIs
<1>3. PICK f : Concats(cs, n, f) /\ Bytes(cs) = f[n] /\ \A i \in 0..n : f[i] \in Seq(Y)
  BY <1>2, BytesFold DEF Streamed
<1>4. n \in 0..n /\ 0 \in 0..n /\ \A i \in 1..n : i \in 0..n /\ i - 1 \in 0..n
  BY <1>2
<1>5. r \in Seq(Y) /\ m \in Nat
  BY <1>1, <1>3, <1>4, LenProperties
<1>6. Streamed(bs, m, Y)
  BY <1>1, <1>5, PiecesAre
<1>7. PICK g : /\ Combines(cs, n, g) /\ CombinedText(cs) = g[n].out \o Redact(g[n].run)
               /\ \A i \in 0..n : g[i] \in Acc(Y)
  BY <1>2, CombinedFold
<1>8. PICK h : /\ Combines(bs, m, h) /\ CombinedText(bs) = h[m].out \o Redact(h[m].run)
               /\ \A i \in 0..m : h[i] \in Acc(Y)
  BY <1>2, <1>6, CombinedFold
<1>9. \A i \in 0..n : Prefix(f[i], r)
  BY <1>2, <1>3, ConcatsPrefix DEF Streamed
<1> DEFINE A == [i \in 0..n |-> {x \in Acc(Y) : Alike(x, h[Len(f[i])])}]
<1>10. \A i \in 0..n : A[i] = {x \in Acc(Y) : Alike(x, h[Len(f[i])])}
  OBVIOUS
<1> HIDE DEF A
<1>11. f[0] = <<>> /\ Len(f[0]) = 0 /\ g[0] = NoText /\ h[0] = NoText
  BY <1>3, <1>7, <1>8 DEF Concats, Combines
<1>12. g[0] \in A[0]
  BY <1>4, <1>7, <1>10, <1>11, AlikeIs
<1>13. ASSUME NEW i \in 1..n, g[i - 1] \in A[i - 1] PROVE g[i] \in A[i]
  <2>1. PICK a, x, y, c, s, d, l, k : /\ a = g[i - 1] /\ x = f[i - 1] /\ y = f[i] /\ c = cs[i] /\ s = cs[i].stream
                                      /\ d = cs[i].data /\ l = Len(f[i - 1]) /\ k = Len(cs[i].data)
    OBVIOUS
  <2>2. a \in Acc(Y) /\ g[i] \in Acc(Y) /\ g[i] = CombineStep(a, c) /\ Alike(a, h[l])
    BY <1>4, <1>7, <1>10, <1>13, <2>1 DEF Combines
  <2>3. s \in Streams /\ d \in Seq(Y) /\ x \in Seq(Y) /\ c = Piece(s, d)
    <3>1. cs[i] \in Chunk
      BY <1>1, ChunkedSeq DEF ChunksAre
    <3>2. c = Piece(s, d)
      BY <2>1, <3>1 DEF Chunk, Piece
    <3> QED
      BY <1>2, <1>3, <1>4, <2>1, <3>2 DEF Streamed, Chunked
  <2>4. l \in Nat /\ k \in Nat
    BY <2>1, <2>3, LenProperties
  <2>5. y = x \o d /\ Prefix(y, r)
    BY <1>3, <1>4, <1>9, <2>1 DEF Concats
  <2>6. Len(y) = l + k /\ (\A j \in 1..k : r[l + j] = d[j] /\ l + j \in 1..m) /\ l <= m /\ l + k <= m
    <3>1. /\ Prefix(x, r) /\ Len(y) = Len(x) + Len(d)
          /\ \A j \in 1..Len(d) : r[Len(x) + j] = d[j] /\ Len(x) + j \in 1..Len(r)
      <4>1. Extends(Y, y, x, d) /\ r \in Seq(Y) /\ Prefix(y, r)
        BY <1>5, <2>3, <2>5 DEF Extends
      <4> QED
        BY <4>1, PrefixGoesOn
    <3> QED
      BY <1>1, <2>1, <2>5, <3>1 DEF Prefix
  <2>7. CASE k = 0
    <3>1. d = <<>> /\ i = 1
      <4>1. d = <<>>
        BY <2>1, <2>3, <2>7, EmptySeq
      <4>2. i \notin 2..n
        BY <1>1, <2>1, <4>1 DEF ChunksAre, Filled
      <4> QED
        BY <1>2, <4>1, <4>2
    <3>2. a = NoText /\ l = 0 /\ l + k = 0
      BY <1>11, <2>1, <2>7, <3>1
    <3>3. g[i].out = <<>> /\ g[i].run = <<>>
      <4>1. a.out = <<>> /\ a.run = <<>>
        BY <3>2 DEF NoText
      <4>2. c.data = d
        BY <2>1
      <4> QED
        <5>1. a \in Acc(Y) /\ c.data \in Seq(Y) /\ g[i] = CombineStep(a, c)
          BY <2>2, <2>3, <4>2
        <5>2. g[i].out = <<>> /\ g[i].run = c.data
          BY <4>1, <5>1, StepFromNone
        <5> QED
          BY <3>1, <4>2, <5>2
    <3>4. Alike(g[i], NoText)
      BY <3>3 DEF Alike, NoText
    <3> QED
      BY <1>4, <1>10, <1>11, <2>1, <2>2, <2>6, <3>2, <3>4
  <2>8. CASE k # 0
    <3> DEFINE e == [j \in 0..k |-> h[l + j]]
    <3>1. \A j \in 0..k : e[j] = h[l + j]
      OBVIOUS
    <3> HIDE DEF e
    <3>2. 0 \in 0..k /\ k \in 0..k /\ l + 0 = l /\ \A j \in 0..k : l + j \in 0..m
      BY <1>5, <2>4, <2>6
    <3>3. \A j \in 1..k : j \in 0..k /\ j - 1 \in 0..k /\ (l + j) - 1 = l + (j - 1)
      BY <2>4
    <3>4. ASSUME NEW j \in 1..k PROVE e[j] = CombineStep(e[j - 1], Piece(s, <<d[j]>>))
      <4>1. r[l + j] = d[j] /\ l + j \in 1..m
        BY <2>6
      <4>2. h[l + j] = CombineStep(h[(l + j) - 1], bs[l + j])
        BY <1>8, <4>1 DEF Combines
      <4>3. bs[l + j] = Piece(arr[r[l + j].at].stream, <<r[l + j]>>)
        <5>1. DOMAIN r = 1..m
          BY <1>1, <1>5
        <5> QED
          BY <1>1, <4>1, <5>1 DEF Pieces
      <4>4. arr[d[j].at].stream = s
        BY <1>1, <2>1 DEF ChunksAre, Sourced
      <4> QED
        BY <3>1, <3>3, <4>1, <4>2, <4>3, <4>4
    <3>5. \A j \in 0..k : e[j] \in Acc(Y)
      BY <1>8, <3>1, <3>2
    <3>6. ByteSteps(Y, s, d, k, e)
      <4>1. Len(d) = k /\ k \in Nat \ {0}
        BY <2>1, <2>4, <2>8
      <4> QED
        BY <2>3, <3>4, <3>5, <4>1 DEF ByteSteps
    <3>7. e[0] = h[l] /\ e[k] = h[l + k]
      BY <3>1, <3>2
    <3>8. Alike(CombineStep(a, Piece(s, d)), e[k])
      BY <1>2, <2>2, <2>3, <3>6, <3>7, ChunkByBytes
    <3>9. Alike(g[i], h[l + k])
      BY <2>2, <2>3, <3>7, <3>8
    <3>10. Len(f[i]) = l + k
      BY <2>1, <2>6
    <3> QED
      BY <1>4, <1>10, <2>2, <3>9, <3>10
  <2> QED
    BY <2>7, <2>8
<1>14. \A i \in 0..n : g[i] \in A[i]
  BY <1>2, <1>12, <1>13, StepsKeep
<1>15. Alike(g[n], h[m])
  <2>1. Len(f[n]) = m
    BY <1>1, <1>3
  <2> QED
    BY <1>4, <1>10, <1>14, <2>1
<1> QED
  BY <1>1, <1>7, <1>8, <1>15 DEF Alike

-----------------------------------------------------------------------------
(* The record of the end. *)

\* What DigestIs says of a stream is what the record of the end has to hold.
LEMMA DigestGives ==
  ASSUME NEW s, NEW h, h \in Seq(RawByte), arrived \in Seq(Printed), DigestIs(arrived, h, s)
  PROVE  Digests(h, s)
<1>1. DOMAIN h = 1..Len(h) /\ DOMAIN arrived = 1..Len(arrived)
  OBVIOUS
<1>2. \A i \in 1..Len(h) : h[i].at \in 1..Len(arrived) /\ arrived[h[i].at].stream = s /\ h[i].kind = arrived[h[i].at].kind
  BY DEF DigestIs
<1>3. \A a \in 1..Len(arrived) : arrived[a].stream = s => \E i \in 1..Len(h) : h[i].at = a
  BY DEF DigestIs
<1>4. BytesOf(h) = {i \in DOMAIN arrived : arrived[i].stream = s}
  BY <1>1, <1>2, <1>3 DEF BytesOf
<1>5. \A i, j \in 1..Len(h) : i < j => h[i].at < h[j].at
  BY DEF DigestIs
<1> QED
  BY <1>1, <1>2, <1>4, <1>5 DEF Digests

\* The inductive invariant is as strong as FinalRecordComplete.
LEMMA EndGives ==
  ASSUME TailOutputInv
  PROVE  FinalRecordComplete
<1> DEFINE text == CombinedText([i \in DOMAIN Retained |->
                     [stream |-> arrived[Retained[i].at].stream, data |-> <<Retained[i]>>]])
<1> SUFFICES ASSUME record.status = "terminal"
             PROVE  /\ \A s \in Streams : Digests(record.hash[s], s)
                    /\ record.combined \in {NormalizeLines(text), Append(NormalizeLines(text), ErrorLine)}
                    /\ Len(arrived) > Len(Retained) \/ Len(record.combined) > MaxLines => record.truncated
  BY DEF FinalRecordComplete
<1>1. TailInv /\ HashesInv /\ Final
  BY DEF TailOutputInv, RecordInv
<1>2. PICK e \in {<<>>, <<ErrorLine>>} : record = FinalRecord(e)
  BY <1>1 DEF Final
<1>3. arrived \in Seq(Printed) /\ ChunksAre(arrived, chunks)
  BY <1>1 DEF TailInv
<1>4. text = CombinedText(chunks)
  <2>1. text = CombinedText(Pieces(arrived, Retained))
    BY DEF Pieces, Piece
  <2>2. CombinedText(Pieces(arrived, Retained)) = CombinedText(chunks)
    BY <1>3, CombinedBytes DEF Retained
  <2> QED
    BY <2>1, <2>2
<1> HIDE DEF text
<1>5. PICK x, y : x = NormalizeLines(text) /\ y = NormalizeLines(CombinedText(chunks)) \o e
  OBVIOUS
<1>6. record.combined = y /\ record.hash = hashes /\ (record.truncated <=> (truncated \/ Len(y) > MaxLines))
  BY <1>2, <1>5 DEF FinalRecord
<1>7. x \in Texts /\ y = x \o e
  BY <1>3, <1>4, <1>5, TailShows
<1>8. y = x \/ y = Append(x, ErrorLine)
  <2>1. x \o <<>> = x
    BY <1>7, ConcatEmptySeq DEF Texts
  <2>2. PICK l : l = ErrorLine
    OBVIOUS
  <2>3. x \o <<l>> = Append(x, l)
    BY <1>7, AppendIsConcat DEF Texts
  <2> QED
    BY <1>7, <2>1, <2>2, <2>3
<1>9. ASSUME NEW s \in Streams PROVE Digests(record.hash[s], s)
  BY <1>1, <1>3, <1>6, DigestGives DEF HashesInv
<1>10. Len(arrived) > Len(Retained) => truncated
  BY <1>1 DEF TailInv
<1> QED
  BY <1>5, <1>6, <1>8, <1>9, <1>10

-----------------------------------------------------------------------------
(* The answers of the filter. *)

Rank(S, j) == Cardinality({m \in S : m <= j})
At(S, n) == CHOOSE j \in S : Rank(S, j) = n

\* The members of a set of positions, counted from the first.
LEMMA Ranks ==
  ASSUME NEW N \in Nat, NEW S \in SUBSET (1..N)
  PROVE  /\ Cardinality(S) \in Nat
         /\ \A j \in S : Rank(S, j) \in 1..Cardinality(S)
         /\ \A j \in S, k \in S : j < k => Rank(S, j) < Rank(S, k)
         /\ \A n \in 1..Cardinality(S) : \E j \in S : Rank(S, j) = n
<1>1. IsFiniteSet(S) /\ S \subseteq Nat
  <2>1. 0 \in Int /\ 1 \in Int /\ N \in Int
    OBVIOUS
  <2>2. IsFiniteSet(1..N)
    BY <2>1, FS_Interval
  <2>3. IsFiniteSet(S)
    BY <2>2, FS_Subset
  <2> QED
    BY <2>3
<1>2. PICK c : c = Cardinality(S)
  OBVIOUS
<1>3. c \in Nat
  BY <1>1, <1>2, FS_CardinalityType
<1> DEFINE Below(j) == {m \in S : m <= j}
<1>4. \A j \in S : /\ Below(j) \in SUBSET S /\ j \in Below(j) /\ Rank(S, j) = Cardinality(Below(j))
  BY <1>1 DEF Rank
<1>5. \A j \in S : IsFiniteSet(Below(j)) /\ Cardinality(Below(j)) \in Nat /\ Cardinality(Below(j)) <= c
  BY <1>1, <1>2, <1>4, FS_Subset, FS_CardinalityType
<1>6. \A j \in S : Rank(S, j) \in 1..c
  <2>1. ASSUME NEW j \in S PROVE Rank(S, j) \in 1..c
    <3>1. Cardinality(Below(j)) # 0
      BY <1>4, <1>5, FS_EmptySet
    <3>2. PICK x : x = Cardinality(Below(j))
      OBVIOUS
    <3>3. x \in Nat /\ x <= c /\ x # 0 /\ Rank(S, j) = x
      BY <1>4, <1>5, <3>1, <3>2
    <3> QED
      BY <1>3, <3>3
  <2> QED
    BY <2>1
<1>7. ASSUME NEW j \in S, NEW k \in S, j < k PROVE Rank(S, j) < Rank(S, k)
  <2>0. j \in Nat /\ k \in Nat /\ S \subseteq Nat
    BY <1>1
  <2>1. Below(j) \in SUBSET Below(k) /\ k \notin Below(j)
    <3>1. ASSUME NEW m \in Nat, m <= j PROVE m <= k
      BY <1>7, <2>0, <3>1
    <3>2. ~(k <= j)
      BY <1>7, <2>0
    <3> QED
      BY <2>0, <3>1, <3>2
  <2>2. Below(j) # Below(k)
    BY <1>4, <2>1
  <2>3. /\ Cardinality(Below(j)) <= Cardinality(Below(k))
        /\ Cardinality(Below(j)) # Cardinality(Below(k))
    BY <1>5, <2>1, <2>2, FS_Subset
  <2> QED
    BY <1>4, <1>5, <2>3
<1> HIDE DEF Below
<1>8. ASSUME NEW n \in 1..c PROVE \E j \in S : Rank(S, j) = n
  <2> DEFINE f == [j \in S |-> Rank(S, j)]
  <2>1. f \in [S -> 1..c]
    BY <1>6
  <2>2. \A j \in S, k \in S : f[j] = f[k] => j = k
    <3>1. ASSUME NEW j \in S, NEW k \in S, j # k PROVE f[j] # f[k]
      <4>1. j < k \/ k < j
        BY <1>1, <3>1
      <4>2. Rank(S, j) \in Nat /\ Rank(S, k) \in Nat
        BY <1>3, <1>6
      <4> QED
        BY <1>7, <4>1, <4>2
    <3> QED
      BY <3>1
  <2>3. f \in Injection(S, 1..c)
    BY <2>1, <2>2 DEF Injection, IsInjective
  <2>4. IsFiniteSet(1..c) /\ Cardinality(1..c) = c
    <3>1. 1 \in Int /\ c \in Int
      BY <1>3
    <3>2. IsFiniteSet(1..c) /\ Cardinality(1..c) = IF 1 > c THEN 0 ELSE c - 1 + 1
      BY <3>1, FS_Interval
    <3> QED
      BY <1>3, <3>2
  <2>5. f \in Surjection(S, 1..c)
    BY <1>2, <2>3, <2>4, FS_Injection
  <2> QED
    BY <2>5 DEF Surjection
<1> QED
  BY <1>2, <1>3, <1>6, <1>7, <1>8

\* The n-th member of a set of positions; every member has its place, and they go up.
LEMMA AtIs ==
  ASSUME NEW N \in Nat, NEW S \in SUBSET (1..N)
  PROVE  /\ \A n \in 1..Cardinality(S) : At(S, n) \in S
         /\ \A n, m \in 1..Cardinality(S) : n < m => At(S, n) < At(S, m)
         /\ \A j \in S : Rank(S, j) \in 1..Cardinality(S) /\ At(S, Rank(S, j)) = j
<1>1. PICK c : c = Cardinality(S)
  OBVIOUS
<1>1a. /\ Cardinality(S) \in Nat
       /\ \A j \in S : Rank(S, j) \in 1..Cardinality(S)
       /\ \A n \in 1..Cardinality(S) : \E j \in S : Rank(S, j) = n
  BY Ranks
<1>2. c \in Nat /\ S \subseteq Nat /\ (\A j \in S : Rank(S, j) \in 1..c)
  <2>1. 1..N \subseteq Nat
    OBVIOUS
  <2> QED
    BY <1>1, <1>1a, <2>1
<1>3. \A n \in 1..c : At(S, n) \in S /\ Rank(S, At(S, n)) = n
  BY <1>1, <1>1a DEF At
<1>4. \A j \in S, k \in S : j < k => Rank(S, j) < Rank(S, k)
  BY Ranks
<1>5. ASSUME NEW n \in 1..c, NEW m \in 1..c, n < m PROVE At(S, n) < At(S, m)
  <2>1. PICK j, k : j = At(S, n) /\ k = At(S, m)
    OBVIOUS
  <2>2. j \in S /\ k \in S /\ Rank(S, j) = n /\ Rank(S, k) = m
    BY <1>3, <2>1
  <2>3. ~(k < j) /\ j # k
    BY <1>2, <1>4, <1>5, <2>2
  <2> QED
    BY <1>2, <2>1, <2>2, <2>3
<1>6. ASSUME NEW j \in S PROVE At(S, Rank(S, j)) = j
  <2>1. PICK k : k = At(S, Rank(S, j))
    OBVIOUS
  <2>2. k \in S /\ Rank(S, k) = Rank(S, j)
    BY <1>2, <1>3, <2>1
  <2>3. Rank(S, j) \in Nat
    BY <1>2
  <2>4. ~(j < k) /\ ~(k < j)
    BY <1>4, <2>2, <2>3
  <2> QED
    BY <1>2, <2>1, <2>2, <2>4
<1> QED
  BY <1>1, <1>2, <1>3, <1>5, <1>6

\* The lines of out are lines of the first i, in their order.
Follows(out, lines, i) ==
  \E pick \in [DOMAIN out -> 1..i] :
    /\ \A n, m \in DOMAIN out : n < m => pick[n] < pick[m]
    /\ \A n \in DOMAIN out : out[n] = lines[pick[n]]

\* Subsequence, said of the first lines of a sequence.
LEMMA FollowsIs ==
  ASSUME NEW L, NEW lines, lines \in Seq(L), NEW out
  PROVE  Subsequence(out, lines) <=> Follows(out, lines, Len(lines))
<1>1. DOMAIN lines = 1..Len(lines)
  OBVIOUS
<1> QED
  BY <1>1 DEF Subsequence, TakenFrom, Follows

\* The lines from a + 1 to b.
LEMMA SliceFollows ==
  ASSUME NEW L, NEW lines, lines \in Seq(L), NEW a \in Nat, NEW b \in Nat, a <= b, b <= Len(lines)
  PROVE  Subsequence(SubSeq(lines, a + 1, b), lines)
<1>1. PICK g, k, l : g = SubSeq(lines, a + 1, b) /\ k = b - a /\ l = Len(lines)
  OBVIOUS
<1>2. g \in Seq(L) /\ Len(g) = k /\ \A j \in 1..k : g[j] = lines[a + j]
  BY <1>1, Slice
<1>3. k \in Nat /\ l \in Nat /\ a + k = b /\ DOMAIN g = 1..k
  BY <1>1, <1>2
<1> DEFINE pick == [j \in 1..k |-> a + j]
<1>4. \A j \in 1..k : a + j \in 1..l
  BY <1>1, <1>3
<1>5. pick \in [DOMAIN g -> 1..l] /\ \A j \in 1..k : pick[j] = a + j
  BY <1>3, <1>4
<1>6. \A i, j \in 1..k : i < j => a + i < a + j
  OBVIOUS
<1> HIDE DEF pick
<1>7. \A i, j \in DOMAIN g : i < j => pick[i] < pick[j]
  BY <1>3, <1>5, <1>6
<1>8. \A j \in DOMAIN g : g[j] = lines[pick[j]]
  BY <1>2, <1>3, <1>5
<1>9. Follows(g, lines, l)
  BY <1>5, <1>7, <1>8 DEF Follows
<1> QED
  BY <1>1, <1>9, FollowsIs

\* Lines that are taken from some are taken from more.
LEMMA TakenFromMore ==
  ASSUME NEW out, NEW lines, NEW S, NEW T, S \subseteq T, TakenFrom(out, lines, S)
  PROVE  TakenFrom(out, lines, T)
BY DEF TakenFrom

\* No lines are taken from any.
LEMMA NoneTaken ==
  ASSUME NEW lines, NEW S
  PROVE  TakenFrom(<<>>, lines, S)
<1> DEFINE none == [i \in {} |-> 1]
<1>1. none \in [DOMAIN <<>> -> S] /\ DOMAIN <<>> = {}
  OBVIOUS
<1> HIDE DEF none
<1> QED
  BY <1>1 DEF TakenFrom

\* The first of the lines that are taken.
LEMMA CutFollows ==
  ASSUME NEW L, NEW lines, NEW S, NEW out, out \in Seq(L), TakenFrom(out, lines, S),
         NEW k \in Nat, k <= Len(out)
  PROVE  TakenFrom(SubSeq(out, 1, k), lines, S) /\ Len(SubSeq(out, 1, k)) = k
<1>1. PICK g, o : g = SubSeq(out, 0 + 1, k) /\ o = Len(out)
  OBVIOUS
<1>2. g \in Seq(L) /\ Len(g) = k - 0 /\ \A j \in 1..(k - 0) : g[j] = out[0 + j]
  <2>1. 0 \in Nat /\ 0 <= k
    OBVIOUS
  <2> QED
    BY <1>1, <2>1, Slice
<1>3. o \in Nat /\ DOMAIN out = 1..o /\ k - 0 = k /\ 0 + 1 = 1 /\ \A j \in 1..k : 0 + j = j /\ j \in 1..o
  BY <1>1
<1>4. Len(g) = k /\ DOMAIN g = 1..k /\ \A j \in 1..k : g[j] = out[j]
  BY <1>2, <1>3
<1>5. PICK pick \in [1..o -> S] :
        /\ \A n, m \in 1..o : n < m => pick[n] < pick[m]
        /\ \A n \in 1..o : out[n] = lines[pick[n]]
  BY <1>3 DEF TakenFrom
<1> DEFINE cut == [j \in 1..k |-> pick[j]]
<1>6. cut \in [DOMAIN g -> S] /\ \A j \in 1..k : cut[j] = pick[j]
  BY <1>3, <1>4, <1>5
<1> HIDE DEF cut
<1>7. TakenFrom(g, lines, S)
  <2>1. \A n, m \in DOMAIN g : n < m => cut[n] < cut[m]
    BY <1>3, <1>4, <1>5, <1>6
  <2>2. \A n \in DOMAIN g : g[n] = lines[cut[n]]
    BY <1>3, <1>4, <1>5, <1>6
  <2> QED
    BY <1>6, <2>1, <2>2 DEF TakenFrom
<1> QED
  BY <1>1, <1>3, <1>4, <1>7

Near(lines, f) ==
  {j \in DOMAIN lines : \E i \in DOMAIN lines : Passes(lines[i], f) /\ InContext(i - 1, j - 1, f)}

\* The lines in the context of one that passes.
LEMMA SelectedIs ==
  ASSUME NEW L, NEW lines, lines \in Seq(L), NEW f, NEW out, out = Selected(lines, f)
  PROVE  /\ Near(lines, f) \subseteq DOMAIN lines
         /\ out \in Seq(L) /\ Len(out) = Cardinality(Near(lines, f))
         /\ TakenFrom(out, lines, Near(lines, f))
<1>1. PICK S, N, c : S = Near(lines, f) /\ N = Len(lines) /\ c = Cardinality(Near(lines, f))
  OBVIOUS
<1>2. N \in Nat /\ DOMAIN lines = 1..N /\ \A j \in 1..N : lines[j] \in L
  BY <1>1
<1>3. S \in SUBSET (1..N)
  BY <1>1, <1>2 DEF Near
<1>4. c \in Nat /\ c = Cardinality(S)
  BY <1>1, <1>2, <1>3, Ranks
<1>5. /\ \A n \in 1..c : At(S, n) \in S
      /\ \A n, m \in 1..c : n < m => At(S, n) < At(S, m)
  <2>1. /\ \A n \in 1..Cardinality(S) : At(S, n) \in S
        /\ \A n, m \in 1..Cardinality(S) : n < m => At(S, n) < At(S, m)
    BY <1>2, <1>3, AtIs
  <2> QED
    BY <1>4, <2>1
<1>6. out = [n \in 1..c |-> lines[At(S, n)]]
  BY <1>1 DEF Selected, Near, At, Rank
<1>7. out \in Seq(L) /\ DOMAIN out = 1..c /\ \A n \in 1..c : out[n] = lines[At(S, n)]
  <2>1. \A n \in 1..c : lines[At(S, n)] \in L
    BY <1>2, <1>3, <1>5
  <2>2. out \in [1..c -> L]
    BY <1>6, <2>1
  <2> QED
    BY <1>4, <1>6, <2>2, IsASeq
<1>8. TakenFrom(out, lines, S)
  <2> DEFINE pick == [n \in 1..c |-> At(S, n)]
  <2>1. pick \in [1..c -> S] /\ \A n \in 1..c : pick[n] = At(S, n)
    BY <1>5
  <2> HIDE DEF pick
  <2>2. \A n, m \in DOMAIN out : n < m => pick[n] < pick[m]
    BY <1>5, <1>7, <2>1
  <2>3. \A n \in DOMAIN out : out[n] = lines[pick[n]]
    BY <1>7, <2>1
  <2>4. pick \in [DOMAIN out -> S]
    BY <1>7, <2>1
  <2> QED
    BY <2>2, <2>3, <2>4 DEF TakenFrom
<1>9. Len(out) = c
  BY <1>4, <1>7
<1> QED
  BY <1>1, <1>2, <1>3, <1>7, <1>8, <1>9

\* A context that does not overflow is what its numbers say.
LEMMA NearIsAsked ==
  ASSUME NEW L, NEW lines, lines \in Seq(L), NEW f, f.before \in Ints, f.after \in Ints,
         ~Overflows(lines, f), ~SetsNothing(f)
  PROVE  Near(lines, f) = Asked(lines, f)
<1>1. PICK N, b, a : N = Len(lines) /\ b = f.before /\ a = f.after
  OBVIOUS
<1>2. N \in Nat /\ DOMAIN lines = 1..N /\ MaxInt \in Nat
  BY <1>1, IntAssumption
<1>3. b \in Int /\ a \in Int /\ b <= MaxInt /\ a >= -MaxInt - 1 /\ -b <= MaxInt - N /\ a <= MaxInt - N
  BY <1>1, <1>2 DEF Ints, Overflows
<1>4. ASSUME NEW i \in 1..N, NEW j \in 1..N PROVE InContext(i - 1, j - 1, f) <=> i - f.before <= j /\ j <= i + f.after
  <2>1. Wrap((i - 1) - b) = (i - 1) - b
    BY <1>2, <1>3 DEF Wrap
  <2>2. Wrap((i - 1) + a) = (i - 1) + a
    BY <1>2, <1>3 DEF Wrap
  <2>3. ((i - 1) - b <= j - 1 /\ j - 1 <= (i - 1) + a) <=> (i - b <= j /\ j <= i + a)
    BY <1>2, <1>3
  <2> QED
    BY <1>1, <2>1, <2>2, <2>3 DEF InContext
<1> QED
  BY <1>2, <1>4 DEF Near, Asked

\* What normalizeFilter leaves: bounds that are ints, and a limit that is a number.
LEMMA NormalizeFilterIs ==
  ASSUME NEW f, f \in Filter, NEW g, g = NormalizeFilter(f)
  PROVE  g.before \in Ints /\ g.after \in Ints /\ g.maxLines \in Nat
<1>1. PICK h, p, x, b, a : /\ h = ApplyPreset(f)
                           /\ p = (IF ~HasPositiveSelectors(f) /\ f.preset \in {"errors", "summary"}
                                   THEN f.packs \cup {f.preset} ELSE f.packs)
                           /\ x = (IF ~HasPositiveSelectors(f) /\ f.preset = "tests" THEN {"k1", "k2"} ELSE f.include)
                           /\ b = (IF f.preset = "summary" /\ f.before <= 0 THEN 1 ELSE f.before)
                           /\ a = (IF f.preset = "summary" /\ f.after <= 0 THEN 1 ELSE f.after)
  OBVIOUS
<1>2. f.before \in Ints /\ f.after \in Ints /\ f.maxLines \in Ints /\ 1 \in Ints /\ \A i \in Ints : i \in Int
  BY IntAssumption DEF Filter, Ints
<1>3. a \in Ints /\ b \in Ints
  BY <1>1, <1>2
<1>4. PICK i, e, k, r, q, t, o, w, m :
        f = [include |-> i, exclude |-> e, keywords |-> k, regexes |-> r, packs |-> q, preset |-> t,
             before |-> o, after |-> w, maxLines |-> m]
  BY DEF Filter
<1>5. h = [f EXCEPT !.packs = p, !.include = x, !.before = b, !.after = a]
  BY <1>1 DEF ApplyPreset
<1>6. h = [include |-> x, exclude |-> e, keywords |-> k, regexes |-> r, packs |-> p, preset |-> t,
           before |-> b, after |-> a, maxLines |-> m]
  BY <1>4, <1>5
<1>7. PICK z, u : /\ z = h.regexes \cup {RegexPacks[y] : y \in h.packs \ {"blank"}}
                  /\ u = (IF h.maxLines <= 0 THEN DefaultMaxLines ELSE h.maxLines)
  OBVIOUS
<1>8. g = [h EXCEPT !.regexes = z, !.maxLines = u]
  BY <1>1, <1>7 DEF NormalizeFilter
<1>9. g = [include |-> x, exclude |-> e, keywords |-> k, regexes |-> z, packs |-> p, preset |-> t,
           before |-> b, after |-> a, maxLines |-> u]
  BY <1>6, <1>8
<1>10. g.before = b /\ g.after = a /\ g.maxLines = u
  BY <1>9
<1>11. u \in Nat
  BY <1>2, <1>4, <1>6, <1>7 DEF DefaultMaxLines
<1> QED
  BY <1>3, <1>10, <1>11

\* What FilterAnswers says of one filter that does not fail.
FilterAnswered(lines, got, g) ==
  LET asked == Asked(lines, g)
  IN /\ Subsequence(got.lines, lines)
     /\ Len(got.lines) <= g.maxLines
     /\ Overflows(lines, g) \/ /\ TakenFrom(got.lines, lines, asked)
                               /\ got.truncated <=> Cardinality(asked) > g.maxLines
                               /\ Len(got.lines) = IF got.truncated THEN g.maxLines ELSE Cardinality(asked)

\* The answer of a filter.
LEMMA ApplyFilterIs ==
  ASSUME NEW L, NEW lines, lines \in Seq(L), NEW f, f \in Filter
  PROVE  FilterAnswered(lines, ApplyFilter(lines, f), NormalizeFilter(f))
<1>1. PICK got, g : got = ApplyFilter(lines, f) /\ g = NormalizeFilter(f)
  OBVIOUS
<1>2. g.before \in Ints /\ g.after \in Ints /\ g.maxLines \in Nat
  BY <1>1, NormalizeFilterIs
<1>3. PICK k, sel : k = g.maxLines /\ sel = Selected(lines, g)
  OBVIOUS
<1>4. /\ Near(lines, g) \subseteq DOMAIN lines
      /\ sel \in Seq(L) /\ Len(sel) = Cardinality(Near(lines, g))
      /\ TakenFrom(sel, lines, Near(lines, g))
  BY <1>3, SelectedIs
<1>5. PICK all, S : /\ all = (IF SetsNothing(g) THEN <<>> ELSE sel)
                    /\ S = (IF SetsNothing(g) THEN {} ELSE Near(lines, g))
  OBVIOUS
<1>6. PICK more \in BOOLEAN : more = (Len(all) > k)
  <2>1. CASE Len(all) > k
    <3>1. TRUE = (Len(all) > k)
      BY <2>1
    <3> QED
      BY <3>1, Zenon
  <2>2. CASE ~(Len(all) > k)
    <3>1. FALSE = (Len(all) > k)
      BY <2>2
    <3> QED
      BY <3>1, Zenon
  <2> QED
    BY <2>1, <2>2
<1>6a. got = [lines |-> IF more THEN SubSeq(all, 1, k) ELSE all, truncated |-> more]
  BY <1>1, <1>3, <1>5, <1>6 DEF ApplyFilter
<1>6b. (more <=> Len(all) > k) /\ got.truncated = more
  BY <1>6, <1>6a
<1>7. all \in Seq(L) /\ Len(all) = Cardinality(S) /\ TakenFrom(all, lines, S) /\ S \subseteq DOMAIN lines
  <2>1. CASE SetsNothing(g)
    <3>1. all = <<>> /\ S = {}
      BY <1>5, <2>1
    <3>2. <<>> \in Seq(L) /\ Len(<<>>) = 0
      OBVIOUS
    <3> QED
      BY <3>1, <3>2, NoneTaken, FS_EmptySet
  <2>2. CASE ~SetsNothing(g)
    BY <1>4, <1>5, <2>2
  <2> QED
    BY <2>1, <2>2
<1>8. Overflows(lines, g) \/ S = Asked(lines, g)
  <2>1. SetsNothing(g) => Asked(lines, g) = {}
    BY DEF Asked
  <2> QED
    BY <1>2, <1>5, <2>1, NearIsAsked
<1>9. Len(all) \in Nat /\ k \in Nat
  BY <1>2, <1>3, <1>7, LenProperties
<1>10. /\ TakenFrom(got.lines, lines, S)
       /\ got.truncated \in BOOLEAN
       /\ got.truncated <=> Cardinality(S) > k
       /\ Len(got.lines) = IF got.truncated THEN k ELSE Cardinality(S)
       /\ Len(got.lines) <= k
  <2>1. CASE more
    <3>1. got.lines = SubSeq(all, 1, k) /\ Len(all) > k
      BY <1>6a, <1>6b, <2>1
    <3>2. TakenFrom(SubSeq(all, 1, k), lines, S) /\ Len(SubSeq(all, 1, k)) = k
      BY <1>7, <1>9, <3>1, CutFollows
    <3>3. Cardinality(S) > k /\ k <= k
      BY <1>7, <1>9, <3>1
    <3> QED
      BY <1>6b, <2>1, <3>1, <3>2, <3>3, Zenon
  <2>2. CASE ~more
    <3>1. got.lines = all /\ ~(Len(all) > k)
      BY <1>6a, <1>6b, <2>2
    <3>2. Len(all) = Cardinality(S) /\ TakenFrom(all, lines, S)
      BY <1>7
    <3>3. ~(Cardinality(S) > k) /\ Len(all) <= k
      BY <1>9, <3>1, <3>2
    <3> QED
      BY <1>6b, <2>2, <3>1, <3>2, <3>3, Zenon
  <2> QED
    BY <2>1, <2>2
<1>11. Subsequence(got.lines, lines)
  BY <1>7, <1>10, TakenFromMore DEF Subsequence
<1>12. FilterAnswered(lines, got, g)
  BY <1>3, <1>8, <1>10, <1>11 DEF FilterAnswered
<1> QED
  BY <1>1, <1>12

KindsOf(line) == [i \in DOMAIN line |-> line[i].kind]

PickStep(out, line, limit) ==
  IF Len(out) < limit /\ Matches(line, EvidenceKeywords)
     /\ \A i \in DOMAIN out : KindsOf(out[i]) # KindsOf(line)
  THEN Append(out, line) ELSE out

\* What SelectDistilled has picked of the lines so far.
Picks(lines, n, limit, g) == g[0] = <<>> /\ \A i \in 1..n : g[i] = PickStep(g[i - 1], lines[i], limit)

\* The fold that SelectDistilled is made of, as a function of the number of lines so far.
LEMMA DistilledFold ==
  ASSUME NEW L, NEW lines, lines \in Seq(L), NEW n, n = Len(lines), NEW limit
  PROVE  \E g : /\ Picks(lines, n, limit, g) /\ \A i \in 0..n : g[i] \in Seq(L)
                /\ SelectDistilled(lines, limit) = [lines |-> IF g[n] # <<>> THEN g[n] ELSE TailN(lines, limit),
                                                    distilled |-> g[n] # <<>>]
<1> DEFINE B == Seq(L)
           Form(it) == it = [s \in SUBSET (1..n) |->
                              IF s = {} THEN <<>> ELSE PickStep(it[s \ {Max(s)}], lines[Max(s)], limit)]
           c == CHOOSE it : Form(it)
           F(D) == [i \in 1..n |-> [a \in D |-> PickStep(a, lines[i], limit)]]
<1>0. n \in Nat /\ DOMAIN lines = 1..n /\ \A i \in 1..n : lines[i] \in L
  OBVIOUS
<1>1. SelectDistilled(lines, limit) = [lines |-> IF c[1..n] # <<>> THEN c[1..n] ELSE TailN(lines, limit),
                                       distilled |-> c[1..n] # <<>>]
  BY <1>0 DEF SelectDistilled, FoldLeft, MapThenFoldSet, PickStep, KindsOf
<1>2. \A s \in SUBSET (1..n) : s # {} => Max(s) \in 1..n /\ s \ {Max(s)} \in SUBSET (1..n)
  BY <1>0, Earlier
<1>3. ASSUME NEW D, B \subseteq D PROVE Closed(F(D), <<>>, n, B)
  <2>1. <<>> \in B
    OBVIOUS
  <2>2. \A i \in 1..n, a \in B : PickStep(a, lines[i], limit) \in B
    <3>1. \A i \in 1..n, a \in B : Append(a, lines[i]) \in B
      BY <1>0
    <3> QED
      BY <3>1 DEF PickStep
  <2> QED
    BY <1>3, <2>1, <2>2 DEF Closed
<1>4. Form(c)
  <2>1. PICK it : Folding(F(B), <<>>, n, it) /\ \A s \in SUBSET (1..n) : it[s] \in B
    <3> HIDE DEF B, F
    <3> QED
      BY <1>0, <1>3, FoldIn
  <2>2. Form(it)
    BY <1>2, <2>1 DEF Folding
  <2> HIDE DEF Form
  <2> QED
    BY <2>2
<1> DEFINE D == B \cup {c[s] : s \in SUBSET (1..n)}
<1>5. Folding(F(D), <<>>, n, c)
  <2> HIDE DEF c, B
  <2> QED
    BY <1>2, <1>4 DEF Folding
<1>6. PICK g : Steps(F(D), <<>>, n, g) /\ g[n] = c[1..n] /\ \A i \in 0..n : g[i] \in B
  <2>1. Closed(F(D), <<>>, n, B)
    BY <1>3
  <2> HIDE DEF c, F, B, D
  <2> QED
    BY <1>0, <1>5, <2>1, FoldIs
<1>7. \A i \in 1..n : g[i] = PickStep(g[i - 1], lines[i], limit)
  <2>1. \A i \in 1..n : i - 1 \in 0..n
    BY <1>0
  <2>2. \A i \in 1..n : g[i - 1] \in D
    BY <1>6, <2>1
  <2> HIDE DEF D
  <2> QED
    BY <1>6, <2>2 DEF Steps
<1>8. g[0] = <<>>
  BY <1>6 DEF Steps
<1> HIDE DEF c, B
<1> QED
  BY <1>1, <1>6, <1>7, <1>8 DEF Picks, B

\* The lines picked of the first i, and whether there was one to pick.
Picked(out, lines, i) ==
  Follows(out, lines, i) /\ (out = <<>> <=> \A j \in 1..i : ~Matches(lines[j], EvidenceKeywords))

\* The next line goes on what was picked, or is left out.
LEMMA PickGoesOn ==
  ASSUME NEW L, NEW lines, NEW out, out \in Seq(L), NEW i \in Nat \ {0}, Picked(out, lines, i - 1),
         NEW limit \in Nat \ {0}
  PROVE  Picked(PickStep(out, lines[i], limit), lines, i)
<1>1. PICK k, w, x : k = Len(out) /\ w = Append(out, lines[i]) /\ x = PickStep(out, lines[i], limit)
  OBVIOUS
<1>2. k \in Nat /\ DOMAIN out = 1..k
  BY <1>1
<1>3. PICK pick \in [1..k -> 1..(i - 1)] :
        /\ \A n, m \in 1..k : n < m => pick[n] < pick[m]
        /\ \A n \in 1..k : out[n] = lines[pick[n]]
  BY <1>2 DEF Picked, Follows
<1>4. i \in 1..i /\ (\A j \in 1..(i - 1) : j \in 1..i /\ j < i) /\ (\A j \in 1..i : j \in 1..(i - 1) \/ j = i)
  OBVIOUS
<1>5. out = <<>> <=> \A j \in 1..(i - 1) : ~Matches(lines[j], EvidenceKeywords)
  BY DEF Picked
<1>6. CASE x = w /\ Matches(lines[i], EvidenceKeywords)
  <2>1. Len(w) = k + 1 /\ DOMAIN w = 1..(k + 1) /\ w[k + 1] = lines[i] /\ \A n \in 1..k : w[n] = out[n]
    <3>1. PICK e : e = lines[i]
      OBVIOUS
    <3>2. w = Append(out, e)
      BY <1>1, <3>1
    <3>3. Len(w) = Len(out) + 1 /\ DOMAIN w = 1..(Len(out) + 1) /\ w[Len(out) + 1] = e /\ \A n \in 1..Len(out) : w[n] = out[n]
      BY <3>2
    <3> QED
      BY <1>1, <3>1, <3>3
  <2> DEFINE more == [n \in 1..(k + 1) |-> IF n = k + 1 THEN i ELSE pick[n]]
  <2>2. \A n \in 1..(k + 1) : n = k + 1 \/ n \in 1..k
    BY <1>2
  <2>2a. \A n \in 1..k : n # k + 1 /\ n \in 1..(k + 1) /\ k + 1 \in 1..(k + 1) /\ n < k + 1 /\ ~(k + 1 < n)
    BY <1>2
  <2>3. more[k + 1] = i /\ \A n \in 1..k : more[n] = pick[n]
    <3>1. k + 1 \in 1..(k + 1)
      BY <1>2
    <3> QED
      BY <2>2a, <3>1
  <2>4. more \in [1..(k + 1) -> 1..i]
    BY <1>3, <1>4, <2>2
  <2> HIDE DEF more
  <2>5. ASSUME NEW n \in 1..(k + 1), NEW m \in 1..(k + 1), n < m PROVE more[n] < more[m]
    <3>1. n \in 1..k
      BY <1>2, <2>5
    <3>2. CASE m = k + 1
      BY <1>3, <1>4, <2>3, <3>1, <3>2
    <3>3. CASE m \in 1..k
      BY <1>3, <2>3, <2>5, <3>1, <3>3
    <3> QED
      BY <2>2, <3>2, <3>3
  <2>6. \A n \in 1..(k + 1) : w[n] = lines[more[n]]
    BY <1>3, <2>1, <2>2, <2>3
  <2>7. Follows(w, lines, i)
    <3>1. more \in [DOMAIN w -> 1..i]
      BY <2>1, <2>4
    <3>2. \A n, m \in DOMAIN w : n < m => more[n] < more[m]
      BY <2>1, <2>5
    <3>3. \A n \in DOMAIN w : w[n] = lines[more[n]]
      BY <2>1, <2>6
    <3> QED
      BY <3>1, <3>2, <3>3 DEF Follows
  <2>8. w # <<>>
    BY <1>2, <2>1
  <2> QED
    BY <1>1, <1>4, <1>6, <2>7, <2>8 DEF Picked
<1>7. CASE x = out /\ (out # <<>> \/ ~Matches(lines[i], EvidenceKeywords))
  <2>1. pick \in [1..k -> 1..i]
    BY <1>3, <1>4
  <2>2. Follows(out, lines, i)
    <3>1. pick \in [DOMAIN out -> 1..i]
      BY <1>2, <2>1
    <3>2. \A n, m \in DOMAIN out : n < m => pick[n] < pick[m]
      BY <1>2, <1>3
    <3>3. \A n \in DOMAIN out : out[n] = lines[pick[n]]
      BY <1>2, <1>3
    <3> QED
      BY <3>1, <3>2, <3>3 DEF Follows
  <2>3. out = <<>> <=> \A j \in 1..i : ~Matches(lines[j], EvidenceKeywords)
    BY <1>4, <1>5, <1>7
  <2> QED
    BY <1>1, <1>7, <2>2, <2>3 DEF Picked
<1>8. (x = w /\ Matches(lines[i], EvidenceKeywords)) \/ (x = out /\ (out # <<>> \/ ~Matches(lines[i], EvidenceKeywords)))
  <2>1. CASE out = <<>>
    <3>1. Len(out) < limit /\ \A n \in DOMAIN out : KindsOf(out[n]) # KindsOf(lines[i])
      <4>1. Len(out) = 0 /\ DOMAIN out = {}
        BY <2>1
      <4> QED
        BY <4>1
    <3> QED
      BY <1>1, <3>1 DEF PickStep
  <2>2. CASE out # <<>>
    BY <1>1, <2>2 DEF PickStep
  <2> QED
    BY <2>1, <2>2
<1> QED
  BY <1>6, <1>7, <1>8

\* The evidence is of the lines, in their order, and says which it is.
LEMMA SelectDistilledIs ==
  ASSUME NEW L, NEW lines, lines \in Seq(L), NEW limit \in Nat \ {0}
  PROVE  LET evidence == SelectDistilled(lines, limit)
         IN /\ Subsequence(evidence.lines, lines)
            /\ evidence.distilled <=> \E i \in DOMAIN lines : Matches(lines[i], EvidenceKeywords)
<1>1. PICK n, evidence : n = Len(lines) /\ evidence = SelectDistilled(lines, limit)
  OBVIOUS
<1>2. n \in Nat /\ DOMAIN lines = 1..n
  BY <1>1
<1>3. PICK g : /\ Picks(lines, n, limit, g) /\ \A i \in 0..n : g[i] \in Seq(L)
               /\ evidence = [lines |-> IF g[n] # <<>> THEN g[n] ELSE TailN(lines, limit), distilled |-> g[n] # <<>>]
  BY <1>1, DistilledFold
<1> DEFINE A == [i \in 0..n |-> {out \in Seq(L) : Picked(out, lines, i)}]
<1>4. \A i \in 0..n : A[i] = {out \in Seq(L) : Picked(out, lines, i)}
  OBVIOUS
<1>5. 0 \in 0..n /\ n \in 0..n /\ \A i \in 1..n : i \in 0..n /\ i - 1 \in 0..n /\ i \in Nat \ {0}
  BY <1>2
<1> HIDE DEF A
<1>6. g[0] \in A[0]
  <2>1. g[0] = <<>> /\ g[0] \in Seq(L)
    BY <1>3, <1>5 DEF Picks
  <2> DEFINE none == [i \in {} |-> 1]
  <2>2. none \in [DOMAIN <<>> -> 1..0] /\ DOMAIN <<>> = {} /\ 1..0 = {}
    OBVIOUS
  <2> HIDE DEF none
  <2>3. Picked(<<>>, lines, 0)
    BY <2>2 DEF Picked, Follows
  <2> QED
    BY <1>4, <1>5, <2>1, <2>3
<1>7. ASSUME NEW i \in 1..n, g[i - 1] \in A[i - 1] PROVE g[i] \in A[i]
  <2>1. g[i - 1] \in Seq(L) /\ Picked(g[i - 1], lines, i - 1)
    BY <1>4, <1>5, <1>7
  <2>2. Picked(PickStep(g[i - 1], lines[i], limit), lines, i)
    BY <1>5, <2>1, PickGoesOn
  <2> QED
    BY <1>3, <1>4, <1>5, <2>2 DEF Picks
<1>8. Picked(g[n], lines, n)
  <2>1. \A i \in 0..n : g[i] \in A[i]
    BY <1>2, <1>6, <1>7, StepsKeep
  <2> QED
    BY <1>4, <1>5, <2>1
<1>9. evidence.distilled <=> \E i \in DOMAIN lines : Matches(lines[i], EvidenceKeywords)
  BY <1>2, <1>3, <1>8 DEF Picked
<1>10. Subsequence(TailN(lines, limit), lines)
  <2>1. CASE n <= limit
    <3>1. TailN(lines, limit) = lines
      BY <1>1, <2>1 DEF TailN
    <3>2. 0 \in Nat /\ 0 <= n /\ n <= Len(lines) /\ 0 + 1 = 1
      BY <1>1, <1>2
    <3>3. Subsequence(SubSeq(lines, 0 + 1, n), lines)
      BY <1>2, <3>2, SliceFollows
    <3>4. SubSeq(lines, 1, n) = lines
      BY <1>1, SubSeqFull
    <3> QED
      BY <3>1, <3>2, <3>3, <3>4
  <2>2. CASE ~(n <= limit)
    <3>1. PICK a : a = n - limit
      OBVIOUS
    <3>2. a \in Nat /\ n \in Nat /\ a <= n /\ n <= Len(lines) /\ ~(limit <= 0)
      BY <1>1, <1>2, <2>2, <3>1
    <3>3. Subsequence(SubSeq(lines, a + 1, n), lines)
      BY <3>2, SliceFollows
    <3>4. TailN(lines, limit) = SubSeq(lines, a + 1, n)
      BY <1>1, <2>2, <3>1, <3>2 DEF TailN
    <3> QED
      BY <3>3, <3>4
  <2> QED
    BY <2>1, <2>2
<1>11. Subsequence(evidence.lines, lines)
  <2>1. Subsequence(g[n], lines)
    BY <1>1, <1>8, FollowsIs DEF Picked
  <2> QED
    BY <1>3, <1>10, <2>1
<1> QED
  BY <1>1, <1>9, <1>11

\* The inductive invariant is as strong as FilterAnswers.
LEMMA AnswersGive ==
  ASSUME TailOutputInv
  PROVE  FilterAnswers
<1> SUFFICES ASSUME record.status = "terminal"
             PROVE  LET lines == record.combined
                        evidence == SelectDistilled(lines, 2)
                    IN /\ \A f \in Filters : ~FilterFails(f) => FilterAnswered(lines, ApplyFilter(lines, f), NormalizeFilter(f))
                       /\ Subsequence(evidence.lines, lines)
                       /\ evidence.distilled <=> \E i \in DOMAIN lines : Matches(lines[i], EvidenceKeywords)
  BY DEF FilterAnswers, FilterAnswered
<1>1. TailInv /\ Final
  BY DEF TailOutputInv, RecordInv
<1>2. PICK e \in {<<>>, <<ErrorLine>>} : record = FinalRecord(e)
  BY <1>1 DEF Final
<1>3. PICK x, lines : x = NormalizeLines(CombinedText(chunks)) /\ lines = record.combined
  OBVIOUS
<1>4. x \in Texts /\ lines = x \o e
  BY <1>1, <1>2, <1>3, TailShows DEF TailInv, FinalRecord
<1>5. PICK L : L = Seq([at : Nat, kind : Kinds \cup {"*"}]) \cup {ErrorLine}
  OBVIOUS
<1>6. lines \in Seq(L)
  <2>1. x \in Seq(L)
    <3>1. PICK Z : Z = Seq([at : Nat, kind : Kinds \cup {"*"}])
      OBVIOUS
    <3>2. x \in Seq(Z) /\ Z \subseteq L
      BY <1>4, <1>5, <3>1 DEF Texts
    <3> QED
      BY <3>2, SeqMonotonic
  <2>2. e \in Seq(L)
    <3>1. PICK z : z = ErrorLine
      OBVIOUS
    <3>2. z \in L
      BY <1>5, <3>1
    <3>3. <<>> \in Seq(L) /\ <<z>> \in Seq(L)
      BY <3>2
    <3> QED
      BY <3>1, <3>3
  <2> QED
    BY <1>4, <2>1, <2>2, ConcatProperties
<1>7. ASSUME NEW f \in Filters PROVE FilterAnswered(lines, ApplyFilter(lines, f), NormalizeFilter(f))
  <2>1. f \in Filter
    BY TailAssumption
  <2> QED
    BY <1>6, <2>1, ApplyFilterIs
<1>8. LET evidence == SelectDistilled(lines, 2)
      IN /\ Subsequence(evidence.lines, lines)
         /\ evidence.distilled <=> \E i \in DOMAIN lines : Matches(lines[i], EvidenceKeywords)
  <2>1. 2 \in Nat \ {0}
    OBVIOUS
  <2> QED
    BY <1>6, <2>1, SelectDistilledIs
<1> QED
  BY <1>3, <1>7, <1>8

-----------------------------------------------------------------------------
(* The results. *)

\* The tail, the digests, the refreshes that are on their way and the record
\* are, in every reachable state, as the steps of the copying goroutines need
\* them (tailOutput, updateRunningOutput, executePrepared).
THEOREM TailOutputInductive == Spec => []TailOutputInv
<1>1. Init => TailOutputInv
  BY TailOutputInit
<1>2. TailOutputInv /\ [Next]_vars => TailOutputInv'
  BY TailOutputSteps
<1> QED
  BY <1>1, <1>2, PTL DEF Spec

\* Eviction leaves a suffix of what was printed, of at most the budget, marked
\* as cut exactly when it is, that lacks of the last bytes of the budget only
\* the rest of a cut rune (evictLocked, headRuneCut).
THEOREM TailIsRetained == Spec => []RetainedIsTail
<1>1. TailOutputInv => RetainedIsTail
  BY TailGives DEF TailOutputInv
<1> QED
  BY <1>1, TailOutputInductive, PTL

\* No text that is shown has a secret of one stream, however writes and
\* eviction divided it (snapshotLocked, combinedText).
THEOREM SecretsStayMasked == Spec => []SecretsMasked
<1>1. TailOutputInv => SecretsMasked
  BY TailMasks DEF TailOutputInv
<1> QED
  BY <1>1, TailOutputInductive, PTL

\* The digest of a running record covers what the record shows, and is not out
\* of date once both goroutines are back at reading (updateRunningOutput).
THEOREM LiveRecordsCohere == Spec => []LiveRecordCoherent
<1>1. TailOutputInv => LiveRecordCoherent
  BY RecordGives
<1> QED
  BY <1>1, TailOutputInductive, PTL

\* The terminal record is that of the retained tail and of every byte printed,
\* and no refresh changes it (executePrepared, UpdateRunningOutput).
THEOREM FinalRecordsAreComplete == Spec => []FinalRecordComplete
<1>1. TailOutputInv => FinalRecordComplete
  BY EndGives
<1> QED
  BY <1>1, TailOutputInductive, PTL

\* A filter, whatever ints its context and its limit are, answers with lines of
\* the record in their order, each at most once; unless its context overflows
\* they are the lines it asks for, or the first of them and a mark that there
\* are more; the evidence reports a failure if there is one (applyFilter,
\* normalizeFilter, SelectDistilled).
THEOREM FiltersAnswerInOrder == Spec => []FilterAnswers
<1>1. TailOutputInv => FilterAnswers
  BY AnswersGive
<1> QED
  BY <1>1, TailOutputInductive, PTL
=============================================================================
