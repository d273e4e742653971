-------------------------- MODULE FileQueriesProofs --------------------------
(***************************************************************************)
(* The reading tools for any tree, any contents, any limits and any number *)
(* of edits by others.                                                     *)
(*                                                                         *)
(* The provers cannot instantiate the library's induction principles. What *)
(* folds and recursive functions compute is proved by way of the least     *)
(* counterexample (Smallest) instead, once and for all in the first part.  *)
(***************************************************************************)
EXTENDS FileQueries, WellFoundedInduction, FiniteSetTheorems, SequenceTheorems, TLAPS

\* A set of natural numbers that is not empty has a least member.
LEMMA Smallest ==
  ASSUME NEW T, T \subseteq Nat, T # {}
  PROVE  \E x \in T : \A y \in T : x <= y
<1> DEFINE R == OpToRel(<, Nat)
<1>1. \E x \in T : \A y \in T : ~(<<y, x>> \in R)
  BY WFMin, NatLessThanWellFounded
<1>2. \A x, y \in T : <<y, x>> \in R <=> y < x
  BY DEF OpToRel
<1> HIDE DEF R
<1>3. PICK x \in T : \A y \in T : ~(<<y, x>> \in R)
  BY <1>1
<1>4. \A y \in T : ~(y < x)
  BY <1>2, <1>3
<1>5. \A y \in T : x <= y
  BY <1>4
<1> QED
  BY <1>5

\* A set of integers that is bounded above and not empty has its Max.
LEMMA MaxOf ==
  ASSUME NEW T, NEW b \in Int, T \subseteq Int, T # {}, \A x \in T : x <= b
  PROVE  Max(T) \in T /\ \A y \in T : y <= Max(T)
<1> DEFINE U == {b - x : x \in T}
<1>1. U \subseteq Nat
  OBVIOUS
<1>2. U # {}
  OBVIOUS
<1>3. PICK u \in U : \A v \in U : u <= v
  BY <1>1, <1>2, Smallest
<1>4. PICK x \in T : u = b - x
  OBVIOUS
<1>5. \A y \in T : x >= y
  BY <1>3, <1>4
<1>6. Max(T) \in T /\ \A y \in T : Max(T) >= y
  BY <1>5 DEF Max
<1> QED
  BY <1>6

\* The lesser of two numbers.
LEMMA MaxOfTwo ==
  ASSUME NEW a \in Int, NEW b \in Int
  PROVE  Max({a, b}) = IF b <= a THEN a ELSE b
<1> DEFINE T == {a, b}
           c == IF b <= a THEN a ELSE b
<1>1. T \subseteq Int /\ T # {} /\ c \in Int /\ c \in T /\ \A x \in T : x <= c
  OBVIOUS
<1> HIDE DEF T
<1>2. Max(T) \in T /\ \A y \in T : y <= Max(T)
  BY <1>1, MaxOf
<1>3. Max(T) <= c /\ c <= Max(T) /\ Max(T) \in Int
  BY <1>1, <1>2
<1> HIDE DEF c
<1>4. Max(T) = c
  BY <1>1, <1>3
<1> QED
  BY <1>4 DEF T, c

LEMMA MinOf ==
  ASSUME NEW a \in Int, NEW b \in Int
  PROVE  Min({a, b}) = IF a <= b THEN a ELSE b
<1>1. \E x \in {a, b} : \A y \in {a, b} : x <= y
  OBVIOUS
<1>2. Min({a, b}) \in {a, b} /\ \A y \in {a, b} : Min({a, b}) <= y
  BY <1>1 DEF Min
<1> QED
  BY <1>2

-----------------------------------------------------------------------------
(* Sums. SumFunction folds in an order that CHOOSE decides; Summing says what *)
(* the fold's recursive function satisfies.                                   *)

Pick(s) == CHOOSE x \in s : TRUE

Summing(F, S, it) ==
  it = [s \in SUBSET S |-> IF s = {} THEN 0 ELSE F[Pick(s)] + it[s \ {Pick(s)}]]

\* The same, up to sets of n members.
Small(S, n) == {s \in SUBSET S : Cardinality(s) <= n}
SummingTo(F, S, n, g) ==
  /\ g \in [Small(S, n) -> Nat]
  /\ \A s \in Small(S, n) : g[s] = IF s = {} THEN 0 ELSE F[Pick(s)] + g[s \ {Pick(s)}]

\* A set without the member that Pick picks is one smaller.
LEMMA Picked ==
  ASSUME NEW s, IsFiniteSet(s), s # {}
  PROVE  /\ Pick(s) \in s
         /\ IsFiniteSet(s \ {Pick(s)})
         /\ Cardinality(s) \in Nat
         /\ Cardinality(s \ {Pick(s)}) = Cardinality(s) - 1
<1>1. Pick(s) \in s
  BY DEF Pick
<1> QED
  BY <1>1, FS_RemoveElement, FS_CardinalityType

\* The fold is defined: a recursive function as Summing describes exists.
LEMMA SummingExists ==
  ASSUME NEW S, IsFiniteSet(S), NEW F, \A x \in S : F[x] \in Nat
  PROVE  \E it : Summing(F, S, it)
<1> DEFINE Bad == {n \in Nat : ~\E g : SummingTo(F, S, n, g)}
<1>0. \A s \in SUBSET S : IsFiniteSet(s) /\ Cardinality(s) \in Nat
  BY FS_Subset, FS_CardinalityType
<1>1. 0 \notin Bad
  <2> DEFINE g == [s \in Small(S, 0) |-> 0]
  <2>1. \A s \in Small(S, 0) : s = {}
    BY <1>0, FS_EmptySet DEF Small
  <2>2. SummingTo(F, S, 0, g)
    BY <2>1 DEF SummingTo
  <2> QED
    BY <2>2
<1>2. ASSUME NEW n \in Nat, n \notin Bad PROVE n + 1 \notin Bad
  <2>1. PICK g : SummingTo(F, S, n, g)
    BY <1>2
  <2> DEFINE h == [s \in Small(S, n + 1) |->
                     IF s \in Small(S, n) THEN g[s] ELSE F[Pick(s)] + g[s \ {Pick(s)}]]
  <2>2. Small(S, n) \subseteq Small(S, n + 1)
    BY <1>0 DEF Small
  <2>3. ASSUME NEW s \in Small(S, n + 1), s # {}
        PROVE  s \ {Pick(s)} \in Small(S, n) /\ F[Pick(s)] \in Nat
    <3>1. IsFiniteSet(s) /\ s \in SUBSET S /\ Cardinality(s) <= n + 1
      BY <1>0 DEF Small
    <3>2. Pick(s) \in s /\ Cardinality(s \ {Pick(s)}) = Cardinality(s) - 1 /\ Cardinality(s) \in Nat
      BY <2>3, <3>1, Picked
    <3> QED
      BY <3>1, <3>2 DEF Small
  <2>4. ASSUME NEW s \in Small(S, n + 1), s \notin Small(S, n) PROVE s # {}
    BY <2>4, FS_EmptySet DEF Small
  <2>5. h \in [Small(S, n + 1) -> Nat]
    <3>1. ASSUME NEW s \in Small(S, n + 1) PROVE h[s] \in Nat
      <4>1. CASE s \in Small(S, n)
        BY <2>1, <4>1 DEF SummingTo
      <4>2. CASE s \notin Small(S, n)
        BY <2>1, <2>3, <2>4, <4>2 DEF SummingTo
      <4> QED
        BY <4>1, <4>2
    <3> QED
      BY <3>1
  <2>6. ASSUME NEW s \in Small(S, n + 1)
        PROVE  h[s] = IF s = {} THEN 0 ELSE F[Pick(s)] + h[s \ {Pick(s)}]
    <3>1. s # {} => h[s \ {Pick(s)}] = g[s \ {Pick(s)}]
      BY <2>2, <2>3
    <3>2. CASE s \in Small(S, n)
      BY <2>1, <3>1, <3>2 DEF SummingTo
    <3>3. CASE s \notin Small(S, n)
      BY <2>4, <3>1, <3>3
    <3> QED
      BY <3>2, <3>3
  <2> HIDE DEF h
  <2>7. SummingTo(F, S, n + 1, h)
    BY <2>5, <2>6 DEF SummingTo
  <2> QED
    BY <2>7
<1>3. Bad = {}
  <2> SUFFICES ASSUME Bad # {} PROVE FALSE
    OBVIOUS
  <2>1. PICK n \in Bad : \A m \in Bad : n <= m
    BY Smallest
  <2>2. n \in Nat /\ n # 0
    BY <1>1
  <2>3. n - 1 \in Nat /\ n - 1 \notin Bad
    BY <2>1, <2>2
  <2> QED
    BY <1>2, <2>2, <2>3
<1>4. Cardinality(S) \in Nat /\ Small(S, Cardinality(S)) = SUBSET S
  BY <1>0, FS_Subset, FS_CardinalityType DEF Small
<1>5. PICK g : SummingTo(F, S, Cardinality(S), g)
  BY <1>3, <1>4
<1>6. Summing(F, S, g)
  BY <1>4, <1>5 DEF SummingTo, Summing
<1> QED
  BY <1>6

\* SumFunction is what such a function gives for the whole domain.
LEMMA SumDefined ==
  ASSUME NEW S, IsFiniteSet(S), NEW F, DOMAIN F = S, \A x \in S : F[x] \in Nat
  PROVE  \E it : Summing(F, S, it) /\ SumFunction(F) = it[S]
<1> DEFINE it == CHOOSE g : Summing(F, S, g)
<1>1. SumFunction(F) = it[S]
  BY DEF SumFunction, SumFunctionOnSet, FoldFunctionOnSet, MapThenFoldSet, Summing, Pick
<1>2. Summing(F, S, it)
  BY SummingExists
<1> QED
  BY <1>1, <1>2

\* What such a function gives for a set does not depend on the rest of its domain.
LEMMA SummingAgrees ==
  ASSUME NEW S, IsFiniteSet(S), NEW F, NEW it, Summing(F, S, it),
         NEW R, R \subseteq S, NEW G, NEW ir, Summing(G, R, ir), \A x \in R : G[x] = F[x]
  PROVE  \A s \in SUBSET R : ir[s] = it[s]
<1> DEFINE Bad == {s \in SUBSET R : ir[s] # it[s]}
           Sizes == {Cardinality(s) : s \in Bad}
<1>0. \A s \in SUBSET S : IsFiniteSet(s) /\ Cardinality(s) \in Nat
  BY FS_Subset, FS_CardinalityType
<1> SUFFICES ASSUME Bad # {} PROVE FALSE
  OBVIOUS
<1>1. Sizes \subseteq Nat /\ Sizes # {}
  BY <1>0
<1>2. PICK n \in Sizes : \A m \in Sizes : n <= m
  BY <1>1, Smallest
<1>3. PICK s \in Bad : n = Cardinality(s)
  OBVIOUS
<1>4. s # {}
  BY DEF Summing
<1>5. /\ Pick(s) \in s
      /\ Cardinality(s \ {Pick(s)}) = Cardinality(s) - 1 /\ Cardinality(s) \in Nat
  BY <1>0, <1>4, Picked
<1>6. s \ {Pick(s)} \in SUBSET R /\ s \ {Pick(s)} \notin Bad
  BY <1>2, <1>3, <1>5
<1>7. ir[s] = G[Pick(s)] + ir[s \ {Pick(s)}]
  BY <1>4 DEF Summing
<1>8. it[s] = F[Pick(s)] + it[s \ {Pick(s)}]
  BY <1>4 DEF Summing
<1> QED
  BY <1>5, <1>6, <1>7, <1>8

\* It gives natural numbers.
LEMMA SummingNat ==
  ASSUME NEW S, IsFiniteSet(S), NEW F, \A x \in S : F[x] \in Nat, NEW it, Summing(F, S, it)
  PROVE  \A s \in SUBSET S : it[s] \in Nat
<1> DEFINE Bad == {s \in SUBSET S : it[s] \notin Nat}
           Sizes == {Cardinality(s) : s \in Bad}
<1>0. \A s \in SUBSET S : IsFiniteSet(s) /\ Cardinality(s) \in Nat
  BY FS_Subset, FS_CardinalityType
<1> SUFFICES ASSUME Bad # {} PROVE FALSE
  OBVIOUS
<1>1. Sizes \subseteq Nat /\ Sizes # {}
  BY <1>0
<1>2. PICK n \in Sizes : \A m \in Sizes : n <= m
  BY <1>1, Smallest
<1>3. PICK s \in Bad : n = Cardinality(s)
  OBVIOUS
<1>4. s # {}
  BY DEF Summing
<1>5. /\ Pick(s) \in s
      /\ Cardinality(s \ {Pick(s)}) = Cardinality(s) - 1 /\ Cardinality(s) \in Nat
  BY <1>0, <1>4, Picked
<1>6. it[s \ {Pick(s)}] \in Nat
  BY <1>2, <1>3, <1>5
<1>7. it[s] = F[Pick(s)] + it[s \ {Pick(s)}]
  BY <1>4 DEF Summing
<1> QED
  BY <1>5, <1>6, <1>7

\* Whatever the order of the fold, a member counts once.
LEMMA SummingInsert ==
  ASSUME NEW S, IsFiniteSet(S), NEW F, \A x \in S : F[x] \in Nat, NEW it, Summing(F, S, it)
  PROVE  \A s \in SUBSET S : \A x \in s : it[s] = it[s \ {x}] + F[x]
<1> DEFINE Bad == {s \in SUBSET S : \E x \in s : it[s] # it[s \ {x}] + F[x]}
           Sizes == {Cardinality(s) : s \in Bad}
<1>0. \A s \in SUBSET S : IsFiniteSet(s) /\ Cardinality(s) \in Nat /\ it[s] \in Nat
  BY FS_Subset, FS_CardinalityType, SummingNat
<1> SUFFICES ASSUME Bad # {} PROVE FALSE
  OBVIOUS
<1>1. Sizes \subseteq Nat /\ Sizes # {}
  BY <1>0
<1>2. PICK n \in Sizes : \A m \in Sizes : n <= m
  BY <1>1, Smallest
<1>3. PICK s \in Bad : n = Cardinality(s)
  OBVIOUS
<1>4. PICK x \in s : it[s] # it[s \ {x}] + F[x]
  OBVIOUS
<1> DEFINE y == Pick(s)
<1>5. y \in s /\ Cardinality(s \ {y}) = Cardinality(s) - 1 /\ Cardinality(s) \in Nat
  BY <1>0, Picked
<1>6. it[s] = F[y] + it[s \ {y}]
  BY DEF Summing
<1> HIDE DEF y
<1>7. x # y
  <2> SUFFICES ASSUME x = y PROVE FALSE
    OBVIOUS
  <2>1. F[y] \in Nat /\ it[s \ {y}] \in Nat
    BY <1>0, <1>5
  <2>2. it[s] # it[s \ {y}] + F[y]
    BY <1>4
  <2> DEFINE a == F[y]
             b == it[s \ {y}]
             c == it[s]
  <2>3. a \in Nat /\ b \in Nat /\ c # b + a /\ c = a + b
    BY <1>6, <2>1, <2>2
  <2> HIDE DEF a, b, c
  <2> QED
    BY <2>3
<1>7a. ASSUME NEW r \in SUBSET S, Cardinality(r) = Cardinality(s) - 1 PROVE r \notin Bad
  <2>1. ASSUME r \in Bad PROVE FALSE
    <3>1. Cardinality(r) \in Sizes
      BY <2>1
    <3>2. Cardinality(s) <= Cardinality(r)
      BY <1>2, <1>3, <3>1
    <3> QED
      BY <1>5, <1>7a, <3>2
  <2> QED
    BY <2>1
<1>8. it[s \ {y}] = it[(s \ {y}) \ {x}] + F[x]
  <2>1. s \ {y} \in SUBSET S /\ s \ {y} \notin Bad
    BY <1>5, <1>7a
  <2> QED
    BY <1>7, <2>1
<1>9. it[s \ {x}] = it[(s \ {x}) \ {y}] + F[y]
  <2>1. Cardinality(s \ {x}) = Cardinality(s) - 1
    BY <1>0, FS_RemoveElement
  <2>2. s \ {x} \in SUBSET S /\ s \ {x} \notin Bad
    BY <2>1, <1>7a
  <2> QED
    BY <1>5, <1>7, <2>2
<1>10. (s \ {x}) \ {y} = (s \ {y}) \ {x}
  OBVIOUS
<1>11. F[x] \in Nat /\ F[y] \in Nat /\ it[(s \ {y}) \ {x}] \in Nat
  BY <1>0, <1>5
<1> DEFINE a == F[x]
           b == F[y]
           c == it[(s \ {y}) \ {x}]
           d == it[s \ {y}]
           e == it[s \ {x}]
           f == it[s]
<1>12. a \in Nat /\ b \in Nat /\ c \in Nat /\ f # e + a /\ f = b + d /\ d = c + a /\ e = c + b
  BY <1>4, <1>6, <1>8, <1>9, <1>10, <1>11
<1> HIDE DEF a, b, c, d, e, f, Bad, Sizes
<1> QED
  BY <1>12

\* A sum of natural numbers is one.
LEMMA SumNat ==
  ASSUME NEW S, IsFiniteSet(S), NEW F \in [S -> Nat]
  PROVE  SumFunction(F) \in Nat
BY SumDefined, SummingNat

\* A sum over nothing is zero.
LEMMA SumEmpty ==
  ASSUME NEW F, DOMAIN F = {}
  PROVE  SumFunction(F) = 0
<1>1. PICK it : Summing(F, {}, it) /\ SumFunction(F) = it[{}]
  BY SumDefined, FS_EmptySet
<1> QED
  BY <1>1 DEF Summing

\* G are the terms of F without that of x.
Without(S, F, x, R, G) ==
  /\ IsFiniteSet(S) /\ F \in [S -> Nat] /\ x \in S
  /\ R = S \ {x} /\ G \in [R -> Nat] /\ \A y \in R : G[y] = F[y]

\* A term may be taken out of a sum.
LEMMA SumInsert ==
  ASSUME NEW S, NEW F, NEW x, NEW R, NEW G, Without(S, F, x, R, G)
  PROVE  SumFunction(F) = SumFunction(G) + F[x]
<1>0. /\ IsFiniteSet(S) /\ F \in [S -> Nat] /\ x \in S
      /\ R = S \ {x} /\ G \in [R -> Nat] /\ \A y \in R : G[y] = F[y]
  BY DEF Without
<1>0a. DOMAIN F = S /\ \A y \in S : F[y] \in Nat
  BY <1>0
<1>1. PICK it : Summing(F, S, it) /\ SumFunction(F) = it[S]
  BY <1>0, <1>0a, SumDefined
<1>2. IsFiniteSet(R) /\ R \subseteq S
  BY <1>0, FS_RemoveElement
<1>2a. DOMAIN G = R /\ \A y \in R : G[y] \in Nat
  BY <1>0
<1>3. PICK ir : Summing(G, R, ir) /\ SumFunction(G) = ir[R]
  BY <1>2, <1>2a, SumDefined
<1>4. ir[R] = it[R]
  <2>1. \A s \in SUBSET R : ir[s] = it[s]
    BY <1>0, <1>1, <1>2, <1>3, SummingAgrees
  <2> QED
    BY <2>1
<1>5. it[S] = it[S \ {x}] + F[x]
  <2>1. IsFiniteSet(S) /\ x \in S
    BY <1>0
  <2> QED
    BY <1>0a, <1>1, <2>1, SummingInsert
<1> QED
  BY <1>0, <1>1, <1>3, <1>4, <1>5

-----------------------------------------------------------------------------
(* The tree. *)

TreeOK == content \in [Files -> Contents \cup {NoFile}]

\* The elements of a sequence.
LEMMA ElementsOf ==
  ASSUME NEW E, NEW s \in Seq(E)
  PROVE  Len(s) \in Nat /\ DOMAIN s = 1..Len(s) /\ \A i \in DOMAIN s : s[i] \in E
OBVIOUS

\* What a text consists of.
LEMMA LinesOf ==
  ASSUME NEW c \in Contents
  PROVE  /\ c # NoFile /\ c.binary \in BOOLEAN
         /\ Len(c.lines) \in Nat /\ DOMAIN c.lines = 1..Len(c.lines)
         /\ \A i \in DOMAIN c.lines : c.lines[i].w \in Nat /\ c.lines[i].spans \in Nat
<1>1. c \in [binary : BOOLEAN, lines : Seq([w : Nat, spans : Nat])] /\ c # NoFile
  BY TreeAssumption
<1>2. c.binary \in BOOLEAN /\ c.lines \in Seq([w : Nat, spans : Nat])
  BY <1>1
<1> DEFINE ls == c.lines
           L == [w : Nat, spans : Nat]
<1>3. ls \in Seq(L)
  BY <1>2
<1>4. Len(ls) \in Nat /\ DOMAIN ls = 1..Len(ls) /\ \A i \in DOMAIN ls : ls[i] \in L
  <2> HIDE DEF ls, L
  <2> QED
    BY <1>3, ElementsOf
<1>5. \A i \in DOMAIN ls : ls[i].w \in Nat /\ ls[i].spans \in Nat
  BY <1>4
<1> QED
  BY <1>1, <1>2, <1>4, <1>5

\* A set of positions is finite.
LEMMA RangeFinite ==
  ASSUME NEW n \in Int, NEW S, S \subseteq 1..n
  PROVE  IsFiniteSet(S)
<1>1. IsFiniteSet(1..n)
  BY FS_Interval
<1> QED
  BY <1>1, FS_Subset

\* The bytes of a file are a natural number.
LEMMA SizeNat ==
  ASSUME NEW c \in Contents \cup {NoFile}
  PROVE  SizeOf(c) \in Nat
<1>1. CASE c = NoFile
  BY <1>1 DEF SizeOf
<1>2. CASE c # NoFile
  <2> DEFINE F == [i \in DOMAIN c.lines |-> c.lines[i].w + 1]
  <2>0. c \in Contents
    BY <1>2
  <2>1a. F \in [DOMAIN c.lines -> Nat]
    BY <2>0, LinesOf
  <2>1b. DOMAIN c.lines \subseteq 1..Len(c.lines) /\ Len(c.lines) \in Int
    BY <2>0, LinesOf
  <2>1. F \in [DOMAIN c.lines -> Nat] /\ IsFiniteSet(DOMAIN c.lines)
    BY <2>1a, <2>1b, RangeFinite
  <2>2. SumFunction(F) \in Nat
    <3> HIDE DEF F
    <3> QED
      BY <2>1, SumNat
  <2> QED
    BY <1>2, <2>2 DEF SizeOf
<1> QED
  BY <1>1, <1>2

\* A node of the tree has a size, which is a natural number.
LEMMA NodeSizeNat ==
  ASSUME TreeOK, NEW n
  PROVE  NodeSize(n) \in Nat
BY SizeNat DEF TreeOK, NodeSize

\* The content of every file stays one that a file may have.
LEMMA TreeStep ==
  ASSUME TreeOK, [Next]_vars
  PROVE  TreeOK'
<1>1. CASE Edit
  BY <1>1 DEF Edit, TreeOK
<1>2. CASE UNCHANGED treeVars
  BY <1>2 DEF treeVars, TreeOK
<1> QED
  BY <1>1, <1>2 DEF Next, vars, ReadsNext, WalkNext, RepoSearchNext, OthersEdit, Returned

\* Others touch what they change.
LEMMA UntouchedStays ==
  ASSUME TreeOK, Edit, NEW n, n \notin touched'
  PROVE  n \notin touched /\ NodeSize(n)' = NodeSize(n) /\ (n \in Files => content'[n] = content[n])
<1>1. PICK m \in Files, c \in Contents \cup {NoFile} :
        content' = [content EXCEPT ![m] = c] /\ touched' = touched \cup {m}
  BY DEF Edit
<1>2. n # m /\ n \notin touched /\ (n \in Files => content'[n] = content[n])
  BY <1>1 DEF TreeOK
<1> QED
  BY <1>2 DEF NodeSize, SizeOf

-----------------------------------------------------------------------------
(* ReadFilesInRepo. *)

RepoEntry == [path : Files, why : {"read", "missing", "oversized", "total", "error"}, size : Nat]

\* The last conjunct of RepoReadAccounts, for one entry.
Answers(e, before, c, size) ==
  CASE e.why = "read" -> e.size = size
    [] e.why = "missing" -> c = NoFile
    [] e.why = "oversized" -> size > RepoFileBytes
    [] e.why = "total" -> before + size > RepoTotalBytes
    [] OTHER -> FALSE

Accounted(i) ==
  LET n == pages[i].path
  IN n \notin touched =>
       Answers(pages[i], RepoTotal(SubSeq(pages, 1, i - 1)), content[n], NodeSize(n))

\* What stat found is still so if nobody touched the file.
RepoInd ==
  mode = "repo" =>
    /\ pages \in Seq(RepoEntry)
    /\ paths \in Seq(Files)
    /\ outcome \in {"going", "done"}
    /\ outcome = "done" => paths = <<>>
    /\ RepoTotal(pages) <= RepoTotalBytes
    /\ outcome = "going" /\ step = "open" /\ paths # <<>> /\ paths[1] \notin touched =>
         Exists(paths[1])
    /\ \A i \in DOMAIN pages : Accounted(i)

\* The bytes that the answers of ReadFilesInRepo hold are a natural number.
LEMMA RepoTotalNat ==
  ASSUME NEW es \in Seq(RepoEntry)
  PROVE  RepoTotal(es) \in Nat
<1> DEFINE S == {j \in DOMAIN es : es[j].why = "read"}
           F == [i \in S |-> es[i].size]
<1>1. \A j \in DOMAIN es : es[j] \in RepoEntry
  OBVIOUS
<1>2. \A j \in DOMAIN es : es[j].size \in Nat
  BY <1>1 DEF RepoEntry
<1>3. F \in [S -> Nat]
  BY <1>2
<1>4a. S \subseteq 1..Len(es) /\ Len(es) \in Int
  OBVIOUS
<1>4. IsFiniteSet(S)
  <2> HIDE DEF S
  <2> QED
    BY <1>4a, RangeFinite
<1>5. SumFunction(F) \in Nat
  <2> HIDE DEF S, F
  <2> QED
    BY <1>3, <1>4, SumNat
<1> QED
  BY <1>5 DEF RepoTotal

\* No answers, no bytes.
LEMMA RepoTotalEmpty == RepoTotal(<<>>) = 0
<1> DEFINE es == << >>
           F == [i \in {j \in DOMAIN es : es[j].why = "read"} |-> es[i].size]
<1>1. DOMAIN F = {}
  OBVIOUS
<1>2. SumFunction(F) = 0
  <2> HIDE DEF F
  <2> QED
    BY <1>1, SumEmpty
<1> QED
  BY <1>2 DEF RepoTotal

\* A file that was read adds its size to the total, and no other does.
LEMMA RepoTotalAppend ==
  ASSUME NEW es, NEW e
  PROVE  es \in Seq(RepoEntry) /\ e \in RepoEntry =>
           RepoTotal(Append(es, e)) = RepoTotal(es) + IF e.why = "read" THEN e.size ELSE 0
<1> DEFINE xs == Append(es, e)
           n == Len(es) + 1
           S == {j \in DOMAIN es : es[j].why = "read"}
           G == [i \in S |-> es[i].size]
           T == {j \in DOMAIN xs : xs[j].why = "read"}
           F == [i \in T |-> xs[i].size]
<1>a. SUFFICES ASSUME es \in Seq(RepoEntry), e \in RepoEntry
               PROVE  RepoTotal(xs) = RepoTotal(es) + IF e.why = "read" THEN e.size ELSE 0
  OBVIOUS
<1>1. RepoTotal(es) = SumFunction(G) /\ RepoTotal(xs) = SumFunction(F)
  BY DEF RepoTotal
<1>2. xs \in Seq(RepoEntry) /\ Len(xs) = n /\ xs[n] = e /\ \A j \in DOMAIN es : xs[j] = es[j]
  BY <1>a
<1>3. DOMAIN es = 1..Len(es) /\ DOMAIN xs = 1..n /\ Len(es) \in Nat
  BY <1>a, <1>2
<1> HIDE DEF xs
<1>4a. \A j \in DOMAIN xs : xs[j] \in RepoEntry
  BY <1>2, ElementsOf
<1>4. \A j \in DOMAIN xs : xs[j].size \in Nat
  BY <1>4a DEF RepoEntry
<1>5a. S \subseteq 1..Len(es) /\ T \subseteq 1..n /\ n \in Int /\ Len(es) \in Int
  BY <1>3
<1>6. S = T \ {n}
  BY <1>2, <1>3
<1>7. n \in T <=> e.why = "read"
  BY <1>2, <1>3
<1>8. F \in [T -> Nat]
  BY <1>4
<1>9. \A y \in S : G[y] = F[y]
  BY <1>2, <1>6
<1>10. G \in [S -> Nat]
  BY <1>6, <1>8, <1>9
<1>11. n \in T => F[n] = e.size
  BY <1>2
<1>12. n \notin T => F = G
  BY <1>6, <1>9
<1> HIDE DEF F, G, S, T, n
<1>5. IsFiniteSet(S) /\ IsFiniteSet(T)
  BY <1>5a, RangeFinite
<1>13. n \in T => SumFunction(F) = SumFunction(G) + F[n]
  <2> SUFFICES ASSUME n \in T PROVE SumFunction(F) = SumFunction(G) + F[n]
    OBVIOUS
  <2>1. Without(T, F, n, S, G)
    BY <1>5, <1>6, <1>8, <1>9, <1>10 DEF Without
  <2> QED
    BY <2>1, SumInsert
<1>14. SumFunction(G) \in Nat
  BY <1>5, <1>10, SumNat
<1> QED
  BY <1>1, <1>7, <1>11, <1>12, <1>13, <1>14

\* A read of repository files starts within what RepoInd says.
LEMMA RepoInit == Init => RepoInd
<1> SUFFICES ASSUME Init, mode = "repo" PROVE RepoInd
  BY DEF RepoInd
<1>1. PICK m \in {"page", "batch", "repo"} : ReadsInit(m)
  BY DEF Init, ReadsOff
<1>2. PICK n \in 1..MaxPaths : paths \in [1..n -> Files]
  BY <1>1 DEF ReadsInit
<1>3. paths \in Seq(Files) /\ paths # <<>>
  BY <1>2, ReadAssumption
<1> QED
  BY <1>1, <1>3, RepoTotalEmpty, ReadAssumption DEF ReadsInit, RepoInd

\* The entries before an appended one.
LEMMA PrefixOfAppend ==
  ASSUME NEW E, NEW s \in Seq(E), NEW e \in E, NEW i \in 1..(Len(s) + 1)
  PROVE  /\ SubSeq(Append(s, e), 1, i - 1) = SubSeq(s, 1, i - 1)
         /\ i = Len(s) + 1 => SubSeq(s, 1, i - 1) = s
<1> DEFINE xs == Append(s, e)
           p == SubSeq(xs, 1, i - 1)
           q == SubSeq(s, 1, i - 1)
<1>1. xs \in Seq(E) /\ Len(xs) = Len(s) + 1 /\ \A j \in 1..Len(s) : xs[j] = s[j]
  OBVIOUS
<1>2. p = [j \in 1..(i - 1) |-> xs[j]]
  BY <1>1
<1>3. q = [j \in 1..(i - 1) |-> s[j]]
  OBVIOUS
<1>4. p = q
  BY <1>1, <1>2, <1>3
<1>5. i = Len(s) + 1 => q = s
  BY <1>3
<1> QED
  BY <1>4, <1>5

\* An entry is added for the first path.
LEMMA RepoAnswered ==
  ASSUME RepoInd, mode = "repo", paths # <<>>, UNCHANGED treeVars,
         NEW e \in RepoEntry, e.path = paths[1], Answered(e),
         RepoTotal(pages) + (IF e.why = "read" THEN e.size ELSE 0) <= RepoTotalBytes,
         e.path \notin touched => Answers(e, RepoTotal(pages), content[e.path], NodeSize(e.path))
  PROVE  RepoInd'
<1>1. /\ pages \in Seq(RepoEntry) /\ paths \in Seq(Files)
      /\ pages' = Append(pages, e) /\ paths' = Tail(paths)
      /\ step' # "open" /\ outcome' \in {"going", "done"}
      /\ outcome' = "done" => Len(paths) = 1
      /\ mode' = mode /\ content' = content /\ touched' = touched
  BY DEF RepoInd, Answered, treeVars
<1>2. pages' \in Seq(RepoEntry) /\ paths' \in Seq(Files) /\ (outcome' = "done" => paths' = <<>>)
  BY <1>1
<1>3. RepoTotal(pages') <= RepoTotalBytes
  BY <1>1, RepoTotalAppend
<1>4. \A n : NodeSize(n)' = NodeSize(n)
  BY <1>1 DEF NodeSize, SizeOf
<1>5. ASSUME NEW i \in DOMAIN pages' PROVE Accounted(i)'
  <2> DEFINE before == RepoTotal(SubSeq(pages, 1, i - 1))
  <2>0. PICK d : d = pages'[i]
    OBVIOUS
  <2>1. i \in 1..(Len(pages) + 1) /\ Len(pages) \in Nat
    BY <1>1
  <2>2. /\ SubSeq(pages', 1, i - 1) = SubSeq(pages, 1, i - 1)
        /\ i = Len(pages) + 1 => SubSeq(pages, 1, i - 1) = pages
    BY <1>1, <2>1, PrefixOfAppend
  <2>3. d.path \notin touched => Answers(d, before, content[d.path], NodeSize(d.path))
    <3>1. CASE i = Len(pages) + 1
      <4>1. d = e
        BY <1>1, <2>0, <3>1
      <4>2. before = RepoTotal(pages)
        BY <2>2, <3>1
      <4> QED
        BY <4>1, <4>2
    <3>2. CASE i # Len(pages) + 1
      <4>1. i \in DOMAIN pages /\ d = pages[i]
        BY <1>1, <2>0, <2>1, <3>2
      <4> QED
        BY <4>1 DEF RepoInd, Accounted
    <3> QED
      BY <3>1, <3>2
  <2>4. before = RepoTotal(SubSeq(pages', 1, i - 1))
    BY <2>2
  <2> HIDE DEF before
  <2>5. d.path \notin touched' => Answers(d, before, content'[d.path], NodeSize(d.path)')
    BY <1>1, <1>4, <2>3
  <2> QED
    BY <2>0, <2>4, <2>5 DEF Accounted, NodeSize
<1> QED
  BY <1>1, <1>2, <1>3, <1>5 DEF RepoInd

\* Every step keeps RepoInd, that of a file that changes between stat and open included.
LEMMA RepoStep ==
  ASSUME TreeOK, RepoInd, [Next]_vars
  PROVE  RepoInd'
<1> SUFFICES ASSUME mode' = "repo" PROVE RepoInd'
  BY DEF RepoInd
<1>0. mode = "repo"
  BY DEF Next, vars, readVars, ReadsNext, ReadStat, ReadFailsLate, ReadPage, BatchPage, RepoStat,
         RepoRead, ReadCancelled, Fail, Answered, OthersEdit, Returned
<1>1. /\ pages \in Seq(RepoEntry) /\ paths \in Seq(Files)
      /\ RepoTotal(pages) \in Nat /\ RepoTotal(pages) <= RepoTotalBytes
  BY <1>0, RepoTotalNat DEF RepoInd
<1>2. \A n : NodeSize(n) \in Nat
  BY NodeSizeNat
<1>3. paths # <<>> => paths[1] \in Files
  BY <1>1
<1>4. CASE RepoStat /\ UNCHANGED treeVars
  <2> DEFINE n == paths[1]
  <2>0. paths # <<>> /\ outcome = "going" /\ n \in Files
    BY <1>3, <1>4 DEF RepoStat, Reading
  <2>1. CASE ~Exists(n)
    <3> DEFINE e == Entry("missing", 0)
    <3>1. e \in RepoEntry /\ e.path = n /\ e.why = "missing" /\ Answered(e)
      BY <1>4, <2>0, <2>1 DEF RepoStat, RepoEntry, Entry
    <3>2. content[n] = NoFile
      BY <2>0, <2>1 DEF Exists
    <3> HIDE DEF e
    <3>3. Answers(e, RepoTotal(pages), content[e.path], NodeSize(e.path))
      BY <3>1, <3>2 DEF Answers
    <3> QED
      BY <1>0, <1>1, <1>4, <2>0, <3>1, <3>3, RepoAnswered
  <2>2. CASE Exists(n) /\ NodeSize(n) > RepoFileBytes
    <3> DEFINE e == Entry("oversized", NodeSize(n))
    <3>1. e \in RepoEntry /\ e.path = n /\ e.why = "oversized" /\ Answered(e)
      BY <1>2, <1>4, <2>0, <2>2 DEF RepoStat, RepoEntry, Entry
    <3> HIDE DEF e
    <3>3. Answers(e, RepoTotal(pages), content[e.path], NodeSize(e.path))
      BY <2>2, <3>1 DEF Answers
    <3> QED
      BY <1>0, <1>1, <1>4, <2>0, <3>1, <3>3, RepoAnswered
  <2>3. CASE Exists(n) /\ ~(NodeSize(n) > RepoFileBytes)
    <3>1. UNCHANGED <<mode, paths, pages, outcome, content, touched>>
      BY <1>4, <2>3 DEF RepoStat, treeVars
    <3> QED
      BY <1>0, <2>3, <3>1 DEF RepoInd, Accounted, NodeSize, SizeOf, Exists
  <2> QED
    BY <2>1, <2>2, <2>3
<1>5. CASE RepoRead /\ UNCHANGED treeVars
  <2> DEFINE n == paths[1]
             size == NodeSize(n)
  <2>0. paths # <<>> /\ outcome = "going" /\ n \in Files /\ step = "open" /\ size \in Nat
    BY <1>2, <1>3, <1>5 DEF RepoRead, Reading
  <2>1. n \notin touched => Exists(n)
    BY <1>0, <2>0 DEF RepoInd
  <2>2. PICK e : /\ Answered(e)
                 /\ e = IF ~Exists(n) THEN Entry("error", 0)
                        ELSE IF size > RepoFileBytes THEN Entry("oversized", size)
                        ELSE IF RepoTotal(pages) + size > RepoTotalBytes THEN Entry("total", size)
                        ELSE Entry("read", size)
    BY <1>5 DEF RepoRead
  <2> HIDE DEF size
  <2>3. e \in RepoEntry /\ e.path = n
    BY <2>0, <2>2 DEF RepoEntry, Entry
  <2>4. RepoTotal(pages) + (IF e.why = "read" THEN e.size ELSE 0) <= RepoTotalBytes
    BY <1>1, <2>0, <2>2, ReadAssumption DEF Entry
  <2>5. n \notin touched => Answers(e, RepoTotal(pages), content[n], size)
    BY <2>1, <2>2 DEF Answers, Entry
  <2>6. e.path \notin touched => Answers(e, RepoTotal(pages), content[e.path], NodeSize(e.path))
    BY <2>3, <2>5 DEF size
  <2> QED
    BY <1>0, <1>5, <2>0, <2>2, <2>3, <2>4, <2>6, RepoAnswered
<1>6. CASE UNCHANGED readVars /\ (Edit \/ UNCHANGED treeVars)
  <2>1. UNCHANGED <<mode, paths, pages, outcome, step>>
    BY <1>6 DEF readVars
  <2>2. ASSUME NEW n \in Files, n \notin touched'
        PROVE  n \notin touched /\ NodeSize(n)' = NodeSize(n) /\ content'[n] = content[n]
    BY <1>6, <2>2, UntouchedStays DEF treeVars, NodeSize, SizeOf
  <2>3. ASSUME NEW i \in DOMAIN pages PROVE Accounted(i)'
    <3>1a. pages[i] \in RepoEntry
      BY <1>1, <2>3, ElementsOf
    <3>1. pages[i].path \in Files
      BY <3>1a DEF RepoEntry
    <3>2. Accounted(i)
      BY <1>0, <2>3 DEF RepoInd
    <3> QED
      BY <2>1, <2>2, <3>1, <3>2 DEF Accounted, NodeSize, SizeOf
  <2>4. outcome = "going" /\ step = "open" /\ paths # <<>> /\ paths[1] \notin touched' => Exists(paths[1])'
    <3> SUFFICES ASSUME outcome = "going", step = "open", paths # <<>>, paths[1] \notin touched'
                 PROVE  Exists(paths[1])'
      OBVIOUS
    <3>1. Exists(paths[1])
      BY <1>0, <1>3, <2>2 DEF RepoInd
    <3>2. content'[paths[1]] = content[paths[1]]
      BY <1>3, <2>2
    <3> QED
      BY <2>1, <3>1, <3>2 DEF Exists
  <2> QED
    BY <1>0, <2>1, <2>3, <2>4 DEF RepoInd
<1>7. CASE ReadsNext
  <2>1. ReadsNext => (RepoStat \/ RepoRead) /\ UNCHANGED treeVars
    BY <1>0 DEF ReadsNext, ReadStat, ReadFailsLate, ReadPage, BatchPage, ReadCancelled, Reading
  <2> QED
    BY <1>4, <1>5, <1>7, <2>1
<1>8. CASE ~ReadsNext
  <2>1. WalkNext \/ RepoSearchNext => UNCHANGED treeVars
    BY DEF WalkNext, RepoSearchNext
  <2>2. UNCHANGED readVars /\ (Edit \/ UNCHANGED treeVars)
    BY <1>8, <2>1 DEF Next, vars, OthersEdit, Returned
  <2> QED
    BY <1>6, <2>2
<1> QED
  BY <1>7, <1>8

\* ReadFilesInRepo gives every path its entry, stays within its total, and leaves
\* out no file without a reason that an untouched file bears out
\* (readFileContentInRepoLimited).
THEOREM RepoReadsAccount == Spec => []RepoReadAccounts
<1>1. Init => TreeOK /\ RepoInd
  BY RepoInit DEF Init, TreeInit, TreeOK
<1>2. TreeOK /\ RepoInd /\ [Next]_vars => TreeOK' /\ RepoInd'
  BY TreeStep, RepoStep
<1>3. RepoInd => RepoReadAccounts
  BY DEF RepoInd, RepoReadAccounts, Accounted, Answers
<1> QED
  BY <1>1, <1>2, <1>3, PTL DEF Spec

-----------------------------------------------------------------------------
(* The walk and its budgets. *)

Items(xs) == \E E : xs \in Seq(E) /\ \A e \in E : e.size \in Nat

WalkOK(w, scan) ==
  /\ w = [todo |-> w.todo, items |-> w.items, scanned |-> w.scanned, bytes |-> w.bytes,
          truncated |-> w.truncated]
  /\ w.scanned \in Nat /\ w.scanned <= scan
  /\ w.bytes \in Nat /\ w.bytes <= ScanBytes
  /\ w.truncated \in BOOLEAN
  /\ Items(w.items)

\* The bytes r read so far, and those of the items still to be read, one after
\* the other, are within what the walk has accounted for.
Paid(w, r) ==
  \E p \in [0..Len(w.items) -> Nat] :
    /\ r <= p[0]
    /\ \A i \in 1..Len(w.items) : p[i - 1] + w.items[i].size <= p[i]
    /\ \A i \in 0..Len(w.items) : p[i] <= w.bytes

\* A search that met the limit on bytes stops after the file that grew.
Overrun(w, r) == w.truncated /\ w.items = <<>> /\ r <= w.bytes + WholeFileBytes + 1

WalkInd ==
  stage \notin {"off", "failed"} =>
    /\ stage \in {"start", "walk", "search", "done"}
    /\ request.scan \in Nat \ {0} /\ request.context \in {0, 1}
    /\ WalkOK(walk, request.scan)
    /\ readIn \in Nat /\ used \in Nat
    /\ Paid(walk, readIn) \/ (stage \in {"search", "done"} /\ Overrun(walk, readIn))
    /\ stage = "start" => walk.items = <<>> /\ walk.bytes = 0 /\ readIn = 0
    /\ stage = "search" => request.tool = "search"
    /\ stage # "done" => \E E : found \in Seq(E)
    /\ request.tool = "search" => Len(found) <= SearchMatches /\ used <= SearchBytes
    /\ stage = "done" /\ request.tool # "find" =>
         AnswerSize(found, cut) <= ModelBytes \/ found = <<>>

\* A walk starts within what WalkInd says.
LEMMA WalkIndInit == Init => WalkInd
<1> SUFFICES ASSUME Init, stage \notin {"off", "failed"} PROVE WalkInd
  BY DEF WalkInd
<1>1. WalkInit
  BY DEF Init, WalkOff
<1>2. /\ request \in Requests /\ stage = "start" /\ found = <<>> /\ used = 0 /\ readIn = 0
      /\ walk = [todo |-> <<>>, items |-> <<>>, scanned |-> 0, bytes |-> 0, truncated |-> FALSE]
  BY <1>1 DEF WalkInit
<1>3. request.scan \in ScanLimits /\ request.context \in {0, 1}
  BY <1>2 DEF Requests
<1>4. request.scan \in Nat \ {0}
  <2>1. ScanFiles \in Nat /\ ScanLimits \subseteq 1..ScanFiles
    BY WalkAssumption
  <2>2. request.scan \in 1..ScanFiles
    BY <1>3, <2>1
  <2> QED
    BY <2>1, <2>2
<1>5. Items(<<>>) /\ \E E : << >> \in Seq(E)
  <2>1. << >> \in Seq({}) /\ \A e \in {} : e.size \in Nat
    OBVIOUS
  <2>2. \E E : << >> \in Seq(E) /\ \A e \in E : e.size \in Nat
    <3> DEFINE Z == {}
    <3>1. << >> \in Seq(Z) /\ \A e \in Z : e.size \in Nat
      BY <2>1
    <3> HIDE DEF Z
    <3> QED
      BY <3>1
  <2> QED
    BY <2>2 DEF Items
<1>6. ScanBytes \in Nat /\ SearchMatches \in Nat /\ SearchBytes \in Nat
  BY WalkAssumption
<1>7. Paid(walk, 0)
  <2> DEFINE p == [i \in 0..0 |-> 0]
  <2>1. p \in [0..Len(walk.items) -> Nat] /\ Len(walk.items) = 0 /\ walk.bytes = 0
    BY <1>2
  <2>2. 0 <= p[0] /\ (\A i \in 1..0 : p[i - 1] + walk.items[i].size <= p[i])
        /\ \A i \in 0..0 : p[i] <= 0
    OBVIOUS
  <2> HIDE DEF p
  <2> QED
    BY <2>1, <2>2 DEF Paid
<1>8. WalkOK(walk, request.scan)
  BY <1>2, <1>4, <1>5, <1>6 DEF WalkOK
<1> QED
  BY <1>2, <1>3, <1>4, <1>5, <1>6, <1>7, <1>8 DEF WalkInd

\* An item is taken: g more bytes are accounted for, and no more than its size
\* and those are read.
LEMMA PaidTail ==
  ASSUME NEW w, NEW v, NEW scan, NEW r \in Nat, NEW raw \in Nat, NEW g \in Nat,
         WalkOK(w, scan), Paid(w, r), w.items # <<>>,
         raw <= Head(w.items).size + g,
         v.items = Tail(w.items), v.bytes = w.bytes + g
  PROVE  Paid(v, r + raw) /\ Items(v.items)
<1> DEFINE xs == w.items
           ys == v.items
           n == Len(xs)
<1>1. PICK E : xs \in Seq(E) /\ \A e \in E : e.size \in Nat
  BY DEF WalkOK, Items
<1>2. n \in Nat \ {0} /\ ys \in Seq(E) /\ Len(ys) = n - 1 /\ Head(xs) = xs[1]
      /\ \A i \in 1..(n - 1) : ys[i] = xs[i + 1]
  BY <1>1
<1>3. PICK p \in [0..n -> Nat] : /\ r <= p[0]
                                 /\ \A i \in 1..n : p[i - 1] + xs[i].size <= p[i]
                                 /\ \A i \in 0..n : p[i] <= w.bytes
  BY DEF Paid
<1>4. w.bytes \in Nat
  BY DEF WalkOK
<1>5. \A i \in 1..n : xs[i].size \in Nat
  BY <1>1
<1> DEFINE q == [i \in 0..(n - 1) |-> p[i + 1] + g]
<1> HIDE DEF xs, ys, n
<1>6. q \in [0..(n - 1) -> Nat]
  BY <1>2, <1>3
<1>7. r + raw <= q[0]
  <2>1. p[0] \in Nat /\ p[1] \in Nat /\ p[0] + xs[1].size <= p[1] /\ q[0] = p[1] + g
    BY <1>2, <1>3
  <2>2. xs[1].size \in Nat /\ raw <= xs[1].size + g
    BY <1>2, <1>5 DEF xs
  <2> DEFINE a == p[0]
             b == p[1]
             c == xs[1].size
             d == q[0]
  <2>3. a \in Nat /\ b \in Nat /\ c \in Nat /\ a + c <= b /\ d = b + g /\ raw <= c + g /\ r <= a
    BY <1>3, <2>1, <2>2
  <2> HIDE DEF a, b, c, d
  <2>4. r + raw <= d
    BY <2>3
  <2> QED
    BY <2>4 DEF d
<1>8. ASSUME NEW i \in 1..(n - 1) PROVE q[i - 1] + ys[i].size <= q[i]
  <2>1. p[i] \in Nat /\ p[i + 1] \in Nat /\ p[i] + xs[i + 1].size <= p[i + 1]
    <3>1. i \in 0..n /\ i + 1 \in 1..n /\ (i + 1) - 1 = i
      BY <1>2
    <3>2. p[(i + 1) - 1] + xs[i + 1].size <= p[i + 1]
      BY <1>3, <3>1
    <3> QED
      BY <1>2, <1>3, <3>1, <3>2
  <2>2. q[i - 1] = p[i] + g /\ q[i] = p[i + 1] + g
    BY <1>2
  <2>3. ys[i] = xs[i + 1] /\ xs[i + 1].size \in Nat
    BY <1>2, <1>5, SMTT(30)
  <2> DEFINE a == p[i]
             b == p[i + 1]
             c == xs[i + 1].size
  <2>4. a \in Nat /\ b \in Nat /\ c \in Nat /\ a + c <= b
    BY <2>1, <2>3
  <2>5. q[i - 1] = a + g /\ q[i] = b + g /\ ys[i].size = c
    BY <2>2, <2>3
  <2> HIDE DEF a, b, c, q
  <2> QED
    BY <2>4, <2>5
<1>9. ASSUME NEW i \in 0..(n - 1) PROVE q[i] <= v.bytes
  <2>1. p[i + 1] <= w.bytes /\ p[i + 1] \in Nat /\ q[i] = p[i + 1] + g
    BY <1>2, <1>3
  <2> QED
    BY <1>4, <2>1
<1>10. Paid(v, r + raw)
  <2> HIDE DEF q
  <2> QED
    BY <1>2, <1>6, <1>7, <1>8, <1>9 DEF Paid, ys
<1> QED
  BY <1>1, <1>2, <1>10 DEF Items, ys

\* An item is added with its bytes.
LEMMA PaidAppend ==
  ASSUME NEW w, NEW v, NEW scan, NEW r \in Nat, NEW x,
         WalkOK(w, scan), Paid(w, r), x.size \in Nat,
         v.items = Append(w.items, x), v.bytes = w.bytes + x.size
  PROVE  Paid(v, r) /\ Items(v.items)
<1> DEFINE xs == w.items
           ys == v.items
           n == Len(xs)
<1>1. PICK E : xs \in Seq(E) /\ \A e \in E : e.size \in Nat
  BY DEF WalkOK, Items
<1>2. n \in Nat /\ ys \in Seq(E \cup {x}) /\ Len(ys) = n + 1 /\ ys[n + 1] = x
      /\ \A i \in 1..n : ys[i] = xs[i]
  BY <1>1
<1>3. PICK p \in [0..n -> Nat] : /\ r <= p[0]
                                 /\ \A i \in 1..n : p[i - 1] + xs[i].size <= p[i]
                                 /\ \A i \in 0..n : p[i] <= w.bytes
  BY DEF Paid
<1>4. w.bytes \in Nat
  BY DEF WalkOK
<1> DEFINE q == [i \in 0..(n + 1) |-> IF i = n + 1 THEN w.bytes + x.size ELSE p[i]]
<1> HIDE DEF xs, ys, n
<1>6. q \in [0..(n + 1) -> Nat]
  BY <1>2, <1>3, <1>4
<1>7. r <= q[0]
  BY <1>2, <1>3
<1>8. ASSUME NEW i \in 1..(n + 1) PROVE q[i - 1] + ys[i].size <= q[i]
  <2>1. CASE i = n + 1
    <3>1. p[n] \in Nat /\ p[n] <= w.bytes /\ q[i - 1] = p[n] /\ q[i] = w.bytes + x.size /\ ys[i] = x
      BY <1>2, <1>3, <2>1
    <3> DEFINE a == p[n]
               c == x.size
               b == w.bytes
    <3>2. a \in Nat /\ b \in Nat /\ c \in Nat /\ a <= b
      BY <1>4, <3>1
    <3>3. q[i - 1] = a /\ q[i] = b + c /\ ys[i].size = c
      BY <3>1
    <3> HIDE DEF a, b, c, q
    <3> QED
      BY <3>2, <3>3
  <2>2. CASE i # n + 1
    <3>1. i \in 1..n /\ q[i - 1] = p[i - 1] /\ q[i] = p[i] /\ ys[i] = xs[i]
      BY <1>2, <2>2
    <3> QED
      BY <1>3, <3>1
  <2> QED
    BY <2>1, <2>2
<1>9. ASSUME NEW i \in 0..(n + 1) PROVE q[i] <= v.bytes
  <2>1. CASE i = n + 1
    BY <2>1, <1>4
  <2>2. CASE i # n + 1
    <3>1. q[i] = p[i] /\ p[i] \in Nat /\ p[i] <= w.bytes
      BY <1>2, <1>3, <2>2
    <3> QED
      BY <1>4, <3>1
  <2> QED
    BY <2>1, <2>2
<1>10. Paid(v, r)
  <2> HIDE DEF q
  <2> QED
    BY <1>2, <1>6, <1>7, <1>8, <1>9 DEF Paid, ys
<1> QED
  BY <1>1, <1>2, <1>10 DEF Items, ys

\* More bytes are accounted for, for no item.
LEMMA PaidMore ==
  ASSUME NEW w, NEW v, NEW scan, NEW r \in Nat, NEW g \in Nat,
         WalkOK(w, scan), Paid(w, r),
         v.items = w.items, v.bytes = w.bytes + g
  PROVE  Paid(v, r)
<1> DEFINE xs == w.items
           n == Len(xs)
<1>1. PICK p \in [0..n -> Nat] : /\ r <= p[0]
                                 /\ \A i \in 1..n : p[i - 1] + xs[i].size <= p[i]
                                 /\ \A i \in 0..n : p[i] <= w.bytes
  BY DEF Paid
<1>2. w.bytes \in Nat
  BY DEF WalkOK
<1>3. ASSUME NEW i \in 0..n PROVE p[i] <= v.bytes
  BY <1>1, <1>2
<1> QED
  BY <1>1, <1>3 DEF Paid

\* What has been paid depends on the items and the bytes of the walk only.
LEMMA PaidSame ==
  ASSUME NEW w, NEW v, NEW r, Paid(w, r), v.items = w.items, v.bytes = w.bytes
  PROVE  Paid(v, r)
BY DEF Paid

\* No more is read than the walk has accounted for.
LEMMA PaidWithin ==
  ASSUME NEW w, NEW scan, NEW r \in Nat, WalkOK(w, scan), Paid(w, r)
  PROVE  r <= w.bytes
<1> DEFINE n == Len(w.items)
<1>1. PICK p \in [0..n -> Nat] : r <= p[0] /\ \A i \in 0..n : p[i] <= w.bytes
  BY DEF Paid
<1>2. n \in Nat /\ w.bytes \in Nat
  BY DEF WalkOK, Items
<1>3. p[0] \in Nat /\ p[0] <= w.bytes
  BY <1>1, <1>2
<1> QED
  BY <1>1, <1>2, <1>3

WalkState(t, xs, s, b, tr) ==
  [todo |-> t, items |-> xs, scanned |-> s, bytes |-> b, truncated |-> tr]

\* Its fields.
LEMMA WalkFields ==
  ASSUME NEW t, NEW xs, NEW s, NEW b, NEW tr
  PROVE  /\ WalkState(t, xs, s, b, tr).todo = t
         /\ WalkState(t, xs, s, b, tr).items = xs
         /\ WalkState(t, xs, s, b, tr).scanned = s
         /\ WalkState(t, xs, s, b, tr).bytes = b
         /\ WalkState(t, xs, s, b, tr).truncated = tr
BY DEF WalkState

\* A walk that is stopped.
LEMMA WalkMarked ==
  ASSUME NEW w, NEW t, NEW xs, NEW s, NEW b, NEW tr, w = WalkState(t, xs, s, b, tr), NEW y
  PROVE  [w EXCEPT !.truncated = y] = WalkState(t, xs, s, b, y)
BY DEF WalkState

\* A walk that stops at a limit keeps its items and its counts.
LEMMA WalkStopped ==
  ASSUME NEW w, NEW t, NEW xs, NEW s, NEW b, NEW tr, w = WalkState(t, xs, s, b, tr)
  PROVE  \E yes \in BOOLEAN : Stopped(w) = WalkState(<<>>, xs, s, b, yes)
<1> DEFINE yes == TRUE
           v == [w EXCEPT !.truncated = yes]
<1>2. Stopped(w) = [v EXCEPT !.todo = <<>>]
  BY DEF Stopped
<1>0. yes \in BOOLEAN
  OBVIOUS
<1> HIDE DEF yes
<1>1. v = WalkState(t, xs, s, b, yes)
  BY WalkMarked
<1> HIDE DEF v
<1>3. [v EXCEPT !.todo = <<>>] = WalkState(<<>>, xs, s, b, yes)
  BY <1>1 DEF WalkState
<1> QED
  BY <1>0, <1>2, <1>3

\* A walk is a record of five fields.
LEMMA WalkShape ==
  ASSUME NEW w, NEW scan, WalkOK(w, scan)
  PROVE  \E t, xs, s, b, tr : w = WalkState(t, xs, s, b, tr)
BY DEF WalkOK, WalkState

\* A step of the walk keeps the budgets if its record does.
LEMMA WalkTo ==
  ASSUME WalkInd, stage \in {"start", "walk"},
         NEW t, NEW xs, NEW s, NEW b, NEW tr, Walked(WalkState(t, xs, s, b, tr)),
         s \in Nat, s <= request.scan, b \in Nat, b <= ScanBytes, tr \in BOOLEAN,
         Items(xs), Paid(WalkState(t, xs, s, b, tr), readIn)
  PROVE  WalkInd'
<1> DEFINE v == WalkState(t, xs, s, b, tr)
<1>1. /\ walk' = v /\ stage' = "walk" /\ request' = request /\ found' = found /\ used' = used
      /\ readIn' = readIn
  BY DEF Walked
<1>2. WalkOK(v, request.scan)
  BY WalkFields DEF WalkOK, WalkState
<1> HIDE DEF v
<1>3. WalkOK(walk', request'.scan) /\ Paid(walk', readIn')
  BY <1>1, <1>2 DEF v
<1> QED
  BY <1>1, <1>3 DEF WalkInd

\* The first step of a walk keeps WalkInd.
LEMMA WalkStartStep ==
  ASSUME TreeOK, WalkInd, WalkStart
  PROVE  WalkInd'
<1> DEFINE n == request.start
<1>0. NodeSize(n) \in Nat
  BY NodeSizeNat
<1>1. /\ WalkOK(walk, request.scan) /\ Paid(walk, readIn)
      /\ request.scan \in Nat \ {0} /\ stage = "start"
      /\ walk.items = <<>> /\ walk.bytes = 0 /\ readIn = 0
  BY DEF WalkInd, WalkStart
<1>2. PICK t, xs, s, b, tr : walk = WalkState(t, xs, s, b, tr)
  BY <1>1, WalkShape
<1>3. /\ xs = <<>> /\ b = 0 /\ s \in Nat /\ s <= request.scan /\ tr \in BOOLEAN /\ Items(xs)
      /\ walk.items = xs /\ walk.bytes = b
  BY <1>1, <1>2, WalkFields DEF WalkOK
<1>4. CASE n \in Dirs
  <2> DEFINE u == <<Open(n, 0)>>
  <2>0. [walk EXCEPT !.todo = u] = WalkState(u, xs, s, b, tr)
    BY <1>2 DEF WalkState
  <2>1. Walked(WalkState(u, xs, s, b, tr))
    BY <1>4, <2>0 DEF WalkStart
  <2> HIDE DEF u
  <2>2. Paid(WalkState(u, xs, s, b, tr), readIn)
    BY <1>1, <1>3, WalkFields, PaidMore
  <2> QED
    BY <1>1, <1>3, <2>1, <2>2, WalkAssumption, WalkTo
<1>5. CASE n \notin Dirs /\ ~Exists(n)
  BY <1>5 DEF WalkStart, WalkFails, WalkInd
<1>6. CASE n \notin Dirs /\ Exists(n) /\ NodeSize(n) > ScanBytes
  <2> DEFINE w == [walk EXCEPT !.scanned = 1]
  <2>0. w = WalkState(t, xs, 1, b, tr)
    BY <1>2 DEF WalkState
  <2>1a. Walked(Stopped(w))
    BY <1>6 DEF WalkStart
  <2> HIDE DEF w
  <2>3. PICK yes \in BOOLEAN : Stopped(w) = WalkState(<<>>, xs, 1, b, yes)
    BY <2>0, WalkStopped
  <2>1. Walked(WalkState(<<>>, xs, 1, b, yes))
    BY <2>1a, <2>3
  <2>2. Paid(WalkState(<<>>, xs, 1, b, yes), readIn)
    BY <1>1, <1>3, WalkFields, PaidMore
  <2>4. 0 \in Nat /\ 0 <= ScanBytes /\ 1 <= request.scan
    BY <1>1, WalkAssumption
  <2> QED
    BY <1>1, <1>3, <2>1, <2>2, <2>4, WalkTo
<1>7. CASE n \notin Dirs /\ Exists(n) /\ ~(NodeSize(n) > ScanBytes)
  <2> DEFINE x == Item(n)
             ys == <<x>>
  <2> DEFINE w1 == [walk EXCEPT !.scanned = 1]
             w2 == [w1 EXCEPT !.bytes = NodeSize(n)]
             w3 == [w2 EXCEPT !.items = ys]
  <2>0. Walked(w3)
    BY <1>7 DEF WalkStart
  <2>0a. w1 = WalkState(t, xs, 1, b, tr)
    BY <1>2 DEF WalkState
  <2> HIDE DEF w1
  <2>0b. w2 = WalkState(t, xs, 1, NodeSize(n), tr)
    BY <2>0a DEF WalkState
  <2> HIDE DEF w2
  <2>0c. w3 = WalkState(t, ys, 1, NodeSize(n), tr)
    BY <2>0b DEF WalkState
  <2>1. Walked(WalkState(t, ys, 1, NodeSize(n), tr))
    BY <2>0, <2>0c
  <2>2. x.size = NodeSize(n) /\ ys = Append(<<>>, x)
    BY DEF Item
  <2> HIDE DEF ys, x
  <2>3. Paid(WalkState(t, ys, 1, NodeSize(n), tr), readIn) /\ Items(ys)
    <3> DEFINE v == WalkState(t, ys, 1, NodeSize(n), tr)
    <3>1. v.items = Append(walk.items, x) /\ v.bytes = walk.bytes + x.size /\ x.size \in Nat
          /\ v.items = ys
      BY <1>0, <1>1, <1>3, <2>2, WalkFields
    <3> HIDE DEF v
    <3>2. Paid(v, readIn) /\ Items(v.items)
      <4>1. readIn \in Nat /\ WalkOK(walk, request.scan) /\ Paid(walk, readIn)
        BY <1>1
      <4> QED
        BY <3>1, <4>1, PaidAppend
    <3> QED
      BY <3>1, <3>2 DEF v
  <2>4. NodeSize(n) <= ScanBytes
    BY <1>0, <1>7, WalkAssumption
  <2> QED
    BY <1>0, <1>1, <1>3, <2>1, <2>3, <2>4, WalkTo
<1> QED
  BY <1>4, <1>5, <1>6, <1>7

\* The directory tree does not matter to the budgets, only that the record of
\* the walk keeps all but what is to do.
LEMMA OpenStep ==
  ASSUME WalkInd, OpenDirectory \/ MoreEntries
  PROVE  WalkInd'
<1>1. /\ WalkOK(walk, request.scan) /\ Paid(walk, readIn) /\ stage = "walk" /\ readIn \in Nat
      /\ walk.bytes \in Nat /\ walk.bytes <= ScanBytes
  BY DEF WalkInd, OpenDirectory, MoreEntries, Doing, WalkOK
<1>2. PICK t, xs, s, b, tr : walk = WalkState(t, xs, s, b, tr)
  BY <1>1, WalkShape
<1>3. /\ s \in Nat /\ s <= request.scan /\ tr \in BOOLEAN /\ Items(xs) /\ b \in Nat /\ b <= ScanBytes
      /\ walk.items = xs /\ walk.bytes = b
  BY <1>1, <1>2, WalkFields DEF WalkOK
<1>4. \E u : \E tt \in BOOLEAN : Walked(WalkState(u, xs, s, b, tt))
  <2>1. PICK yes \in BOOLEAN : Stopped(walk) = WalkState(<<>>, xs, s, b, yes)
    BY <1>2, WalkStopped
  <2>2. ASSUME NEW u, Walked([walk EXCEPT !.todo = u]) PROVE Walked(WalkState(u, xs, s, b, tr))
    <3>1. [walk EXCEPT !.todo = u] = WalkState(u, xs, s, b, tr)
      BY <1>2 DEF WalkState
    <3> QED
      BY <2>2, <3>1
  <2>3. Walked(Stopped(walk)) \/ \E u : Walked([walk EXCEPT !.todo = u])
    <3>1. CASE MoreEntries
      BY <3>1 DEF MoreEntries
    <3>2. CASE OpenDirectory
      BY <3>2 DEF OpenDirectory
    <3> QED
      BY <3>1, <3>2
  <2> QED
    BY <1>3, <2>1, <2>2, <2>3
<1>5. PICK u : \E tt \in BOOLEAN : Walked(WalkState(u, xs, s, b, tt))
  BY <1>4
<1>6. PICK tt \in BOOLEAN : Walked(WalkState(u, xs, s, b, tt))
  BY <1>5
<1>7. Paid(WalkState(u, xs, s, b, tt), readIn)
  BY <1>1, <1>3, WalkFields, PaidMore
<1> QED
  BY <1>1, <1>3, <1>6, <1>7, WalkTo

\* The loop of visit keeps WalkInd: it counts an entry before it takes it.
LEMMA VisitStep ==
  ASSUME TreeOK, WalkInd, VisitEntry
  PROVE  WalkInd'
<1> DEFINE n == Head(walk.todo).node
           size == NodeSize(n)
           x == Item(n)
           seen == [walk EXCEPT !.scanned = @ + 1]
           paid == [seen EXCEPT !.bytes = @ + size]
           counted == [paid EXCEPT !.todo = Tail(@)]
           kept == [counted EXCEPT !.items = Append(@, x)]
           listed == IF Ignored(request.rules, n) THEN counted ELSE kept
           opened == [listed EXCEPT !.todo = <<Open(n, Head(walk.todo).depth)>> \o @]
<1>0. size \in Nat /\ x.size = size
  BY NodeSizeNat DEF Item
<1>1. /\ WalkOK(walk, request.scan) /\ Paid(walk, readIn) /\ stage = "walk" /\ readIn \in Nat
  BY DEF WalkInd, VisitEntry, Doing
<1>2. PICK t, xs, s, b, tr : walk = WalkState(t, xs, s, b, tr)
  BY <1>1, WalkShape
<1>3. /\ s \in Nat /\ s <= request.scan /\ tr \in BOOLEAN /\ Items(xs) /\ b \in Nat /\ b <= ScanBytes
      /\ walk.items = xs /\ walk.bytes = b /\ walk.scanned = s /\ request.scan \in Nat
  BY <1>1, <1>2, WalkFields DEF WalkOK, WalkInd
<1>4. IF walk.scanned >= request.scan THEN Walked(Stopped(walk))
      ELSE IF ~Exists(n) THEN WalkFails
      ELSE IF walk.bytes + size > ScanBytes THEN Walked(Stopped(seen))
      ELSE Walked(counted) \/ Walked(opened) \/ Walked(listed)
  BY DEF VisitEntry
<1> DEFINE s1 == s + 1
           b1 == b + size
<1>5. seen = WalkState(t, xs, s1, b, tr)
  BY <1>2 DEF WalkState
<1> HIDE DEF seen, s1
<1>6. paid = WalkState(t, xs, s1, b1, tr)
  BY <1>5 DEF WalkState
<1> HIDE DEF paid, b1
<1>7. counted = WalkState(Tail(t), xs, s1, b1, tr)
  <2>0. paid.todo = t
    BY <1>6, WalkFields
  <2> DEFINE u == Tail(t)
  <2>1. counted = [paid EXCEPT !.todo = u]
    BY <2>0
  <2> HIDE DEF counted, u
  <2>2. counted = WalkState(u, xs, s1, b1, tr)
    BY <1>6, <2>1 DEF WalkState
  <2> QED
    BY <2>2 DEF u
<1> HIDE DEF counted, x
<1>8. kept = WalkState(Tail(t), Append(xs, x), s1, b1, tr)
  <2>0. counted.items = xs
    BY <1>7, WalkFields
  <2> DEFINE ys == Append(xs, x)
             u == Tail(t)
  <2>1. kept = [counted EXCEPT !.items = ys]
    BY <2>0
  <2>1a. counted = WalkState(u, xs, s1, b1, tr)
    BY <1>7
  <2> HIDE DEF kept, ys, u
  <2>2. kept = WalkState(u, ys, s1, b1, tr)
    BY <2>1, <2>1a DEF WalkState
  <2> QED
    BY <2>2 DEF ys, u
<1> HIDE DEF kept
<1>9. \E ys \in {xs, Append(xs, x)} : listed = WalkState(Tail(t), ys, s1, b1, tr)
  BY <1>7, <1>8
<1>10. \E u : \E ys \in {xs, Append(xs, x)} : opened = WalkState(u, ys, s1, b1, tr)
  <2>1. PICK ys \in {xs, Append(xs, x)} : listed = WalkState(Tail(t), ys, s1, b1, tr)
    BY <1>9
  <2> DEFINE tl == Tail(t)
             u == <<Open(n, Head(walk.todo).depth)>> \o tl
  <2>1b. listed = WalkState(tl, ys, s1, b1, tr)
    BY <2>1
  <2> HIDE DEF listed, tl
  <2>0. listed.todo = tl
    BY <2>1b, WalkFields
  <2>1a. opened = [listed EXCEPT !.todo = u]
    BY <2>0
  <2> HIDE DEF opened, u
  <2>2. opened = WalkState(u, ys, s1, b1, tr)
    BY <2>1b, <2>1a DEF WalkState
  <2> QED
    BY <2>2
<1> HIDE DEF listed, opened, size, n
<1>10a. s1 = s + 1 /\ b1 = b + size
  BY DEF s1, b1
<1>11. ASSUME NEW u, NEW ys \in {xs, Append(xs, x)}, walk.scanned < request.scan,
              b1 <= ScanBytes, Walked(WalkState(u, ys, s1, b1, tr))
       PROVE  WalkInd'
  <2> DEFINE v == WalkState(u, ys, s1, b1, tr)
  <2>1. v.items = ys /\ v.bytes = b1
    BY WalkFields
  <2> HIDE DEF v
  <2>2. CASE ys = xs
    <3>1. Paid(v, readIn)
      BY <1>0, <1>1, <1>3, <1>10a, <2>1, <2>2, PaidMore
    <3>2. s1 \in Nat /\ s1 <= request.scan /\ b1 \in Nat
      BY <1>0, <1>3, <1>10a, <1>11
    <3> QED
      BY <1>1, <1>3, <1>11, <2>2, <3>1, <3>2, WalkTo DEF v
  <2>3. CASE ys = Append(xs, x)
    <3>1. v.items = Append(walk.items, x) /\ v.bytes = walk.bytes + x.size /\ x.size \in Nat
      BY <1>0, <1>3, <1>10a, <2>1, <2>3
    <3>2. Paid(v, readIn) /\ Items(v.items)
      BY <1>1, <3>1, PaidAppend
    <3>3. s1 \in Nat /\ s1 <= request.scan /\ b1 \in Nat /\ Items(ys)
      BY <1>0, <1>3, <1>10a, <1>11, <2>1, <3>2
    <3> QED
      BY <1>1, <1>3, <1>11, <3>2, <3>3, WalkTo DEF v
  <2> QED
    BY <2>2, <2>3
<1>12. CASE s >= request.scan
  <2>1. PICK yes \in BOOLEAN : Stopped(walk) = WalkState(<<>>, xs, s, b, yes)
    BY <1>2, WalkStopped
  <2>2. Walked(WalkState(<<>>, xs, s, b, yes))
    BY <1>3, <1>4, <1>12, <2>1
  <2>3. Paid(WalkState(<<>>, xs, s, b, yes), readIn)
    BY <1>1, <1>3, WalkFields, PaidSame
  <2> QED
    BY <1>1, <1>3, <2>2, <2>3, WalkTo
<1>13. CASE ~(s >= request.scan) /\ ~Exists(n)
  BY <1>3, <1>4, <1>13 DEF WalkFails, WalkInd
<1>14. CASE ~(s >= request.scan) /\ Exists(n) /\ b1 > ScanBytes
  <2>1. PICK yes \in BOOLEAN : Stopped(seen) = WalkState(<<>>, xs, s1, b, yes)
    BY <1>5, WalkStopped
  <2>2. Walked(WalkState(<<>>, xs, s1, b, yes))
    BY <1>3, <1>4, <1>10a, <1>14, <2>1
  <2>3. Paid(WalkState(<<>>, xs, s1, b, yes), readIn)
    BY <1>1, <1>3, WalkFields, PaidSame
  <2>4. s1 \in Nat /\ s1 <= request.scan
    BY <1>3, <1>10a, <1>14
  <2> QED
    BY <1>1, <1>3, <2>2, <2>3, <2>4, WalkTo
<1>15. CASE ~(s >= request.scan) /\ Exists(n) /\ ~(b1 > ScanBytes)
  <2>1. Walked(counted) \/ Walked(opened) \/ Walked(listed)
    BY <1>3, <1>4, <1>10a, <1>15
  <2>2. walk.scanned < request.scan /\ b1 <= ScanBytes
    BY <1>0, <1>3, <1>10a, <1>15, WalkAssumption
  <2>3. CASE Walked(counted)
    BY <1>7, <1>11, <2>2, <2>3
  <2>4. CASE Walked(opened)
    <3>1. PICK u : \E ys \in {xs, Append(xs, x)} : opened = WalkState(u, ys, s1, b1, tr)
      BY <1>10
    <3> QED
      BY <1>11, <2>2, <2>4, <3>1
  <2>5. CASE Walked(listed)
    BY <1>9, <1>11, <2>2, <2>5
  <2> QED
    BY <2>1, <2>3, <2>4, <2>5
<1> QED
  BY <1>12, <1>13, <1>14, <1>15

-----------------------------------------------------------------------------
(* Answers. *)

\* An answer that is trimmed fits, or it is empty.
LEMMA AnswerFits ==
  ASSUME NEW E, NEW xs, xs \in Seq(E), NEW tr, Answer(xs, tr)
  PROVE  /\ found' \in Seq(E) /\ Len(found') <= Len(xs)
         /\ AnswerSize(found', cut') <= ModelBytes \/ found' = <<>>
<1> DEFINE Keeps(k) == AnswerSize(SubSeq(xs, 1, k), TRUE) <= ModelBytes
           K == {0} \cup {k \in 1..(Len(xs) - 1) : Keeps(k)}
           m == Max(K)
<1>1. found' = IF AnswerSize(xs, tr) <= ModelBytes THEN xs ELSE SubSeq(xs, 1, m)
  BY DEF Answer, Trimmed
<1>2. cut' = (tr \/ Len(found') < Len(xs))
  BY DEF Answer
<1>2a. Len(xs) \in Nat
  OBVIOUS
<1> HIDE DEF m
<1>3. CASE AnswerSize(xs, tr) <= ModelBytes
  <2>1. found' = xs
    BY <1>1, <1>3
  <2>2. cut' <=> tr
    <3>1. ~(Len(found') < Len(xs))
      BY <1>2a, <2>1
    <3> QED
      BY <1>2, <3>1, Zenon
  <2>3. AnswerSize(xs, cut') = AnswerSize(xs, tr)
    BY <2>2 DEF AnswerSize
  <2> QED
    BY <1>3, <2>1, <2>3
<1>4. CASE ~(AnswerSize(xs, tr) <= ModelBytes)
  <2>1. Len(xs) \in Nat
    OBVIOUS
  <2> HIDE DEF Keeps
  <2>2a. \A k \in K : k \in Int /\ k <= Len(xs)
    BY <2>1
  <2>2. K \subseteq Int /\ K # {} /\ (\A k \in K : k <= Len(xs)) /\ Len(xs) \in Int
    BY <2>1, <2>2a
  <2> HIDE DEF K
  <2>3. m \in K
    BY <2>2, MaxOf DEF m
  <2>4. m = 0 \/ (m \in 1..(Len(xs) - 1) /\ Keeps(m))
    BY <2>3 DEF K
  <2>5. found' = SubSeq(xs, 1, m)
    BY <1>1, <1>4
  <2>6. CASE m = 0
    BY <2>1, <2>5, <2>6
  <2>7. CASE m # 0
    <3>1. found' \in Seq(E) /\ Len(found') = m /\ m < Len(xs) /\ m \in Nat
      BY <2>1, <2>4, <2>5, <2>7
    <3>2. cut' = TRUE
      BY <1>2, <2>1, <3>1
    <3>3. AnswerSize(found', TRUE) <= ModelBytes
      BY <2>4, <2>5, <2>7 DEF Keeps
    <3>4. AnswerSize(found', cut') = AnswerSize(found', TRUE)
      BY <3>2 DEF AnswerSize
    <3>5. Len(found') <= Len(xs)
      BY <2>1, <3>1
    <3>6. AnswerSize(found', cut') <= ModelBytes
      BY <3>3, <3>4
    <3> QED
      BY <3>1, <3>5, <3>6
  <2> QED
    BY <2>6, <2>7
<1> QED
  BY <1>3, <1>4

\* An answer keeps WalkInd, if a search has no more matches than it may.
LEMMA AnswerStep ==
  ASSUME WalkInd, stage \in {"walk", "search"}, NEW E, NEW xs, xs \in Seq(E), NEW tr, Answer(xs, tr),
         request.tool = "search" => Len(xs) <= SearchMatches
  PROVE  WalkInd'
<1>1. /\ stage' = "done" /\ request' = request /\ walk' = walk /\ used' = used /\ readIn' = readIn
  BY DEF Answer
<1>2. /\ found' \in Seq(E) /\ Len(found') <= Len(xs)
      /\ AnswerSize(found', cut') <= ModelBytes \/ found' = <<>>
  BY AnswerFits
<1>3. AnswerSize(found, cut)' = AnswerSize(found', cut')
  BY <1>1 DEF AnswerSize, EntrySize
<1>4. request.tool = "search" => Len(found') <= SearchMatches
  <2>1. Len(found') \in Nat /\ Len(xs) \in Nat /\ SearchMatches \in Nat
    BY <1>2, WalkAssumption
  <2> QED
    BY <1>2, <2>1
<1> QED
  BY <1>1, <1>2, <1>3, <1>4 DEF WalkInd

-----------------------------------------------------------------------------
(* The matches of a search. *)

\* A set of positions has a k-th member.
HasKth(T, k) == \E i \in T : Cardinality({j \in T : j <= i}) = k

LEMMA KthMember ==
  ASSUME NEW N \in Nat, NEW T, T \subseteq 1..N, NEW k, k \in 1..Cardinality(T)
  PROVE  HasKth(T, k)
<1> DEFINE Upto_(m) == {j \in T : j <= m}
           U == {m \in Nat : Cardinality(Upto_(m)) >= k}
<1>0. \A j \in T : j \in Nat /\ 1 <= j /\ j <= N
  OBVIOUS
<1>1. IsFiniteSet(T) /\ Cardinality(T) \in Nat
  <2>1. IsFiniteSet(1..N)
    BY FS_Interval
  <2>2. IsFiniteSet(T)
    BY <2>1, FS_Subset
  <2> QED
    BY <2>2, FS_CardinalityType
<1>2. \A m : IsFiniteSet(Upto_(m)) /\ Cardinality(Upto_(m)) \in Nat
  <2>1. \A m : Upto_(m) \subseteq T
    OBVIOUS
  <2> HIDE DEF Upto_
  <2> QED
    BY <1>1, <2>1, FS_Subset, FS_CardinalityType
<1>3. N \in U
  <2>1. Upto_(N) = T
    BY <1>0
  <2> QED
    BY <1>1, <2>1
<1>4. PICK m \in U : \A y \in U : m <= y
  <2> HIDE DEF U
  <2>1. U \subseteq Nat
    BY DEF U
  <2> QED
    BY <1>3, <2>1, Smallest
<1>5. m \in Nat /\ Cardinality(Upto_(m)) >= k
  BY <1>4
<1>6. m # 0
  <2>0. \A j \in T : ~(j <= 0)
    BY <1>0
  <2>1. Upto_(0) = {}
    BY <2>0
  <2>2. Cardinality(Upto_(0)) = 0
    BY <2>1, FS_EmptySet
  <2> QED
    BY <1>1, <1>5, <2>2
<1>7. m - 1 \in Nat /\ ~(Cardinality(Upto_(m - 1)) >= k)
  <2>1. m - 1 \in Nat
    BY <1>5, <1>6
  <2>2. ~(m <= m - 1)
    BY <1>5
  <2>3. m - 1 \notin U
    BY <1>4, <2>2
  <2> QED
    BY <2>1, <2>3
<1>8. m \in T
  <2> SUFFICES ASSUME m \notin T PROVE FALSE
    OBVIOUS
  <2>1. \A j \in T : j <= m <=> j <= m - 1
    BY <1>0, <1>5
  <2>2. Upto_(m) = Upto_(m - 1)
    BY <2>1
  <2> QED
    BY <1>5, <1>7, <2>2
<1>9. Upto_(m) = Upto_(m - 1) \cup {m} /\ m \notin Upto_(m - 1)
  <2>1. \A j \in T : j <= m <=> j <= m - 1 \/ j = m
    BY <1>0, <1>5
  <2>2. ~(m <= m - 1)
    BY <1>5
  <2> QED
    BY <1>8, <2>1, <2>2
<1>10. Cardinality(Upto_(m)) = Cardinality(Upto_(m - 1)) + 1
  <2> HIDE DEF Upto_
  <2> QED
    BY <1>2, <1>9, FS_AddElement
<1>11. Cardinality(Upto_(m)) = k
  <2> DEFINE a == Cardinality(Upto_(m))
             b == Cardinality(Upto_(m - 1))
  <2>0. k \in Nat
    BY <1>1
  <2>1. a \in Nat /\ b \in Nat /\ a = b + 1 /\ a >= k /\ ~(b >= k)
    <3> HIDE DEF Upto_
    <3> QED
      BY <1>2, <1>5, <1>7, <1>10
  <2> HIDE DEF a, b
  <2>2. a = k
    BY <2>0, <2>1
  <2> QED
    BY <2>2 DEF a
<1>12. \E i \in T : Cardinality({j \in T : j <= i}) = k
  BY <1>8, <1>11
<1> HIDE DEF Upto_, U
<1> QED
  BY <1>12 DEF HasKth

\* The line of the k-th hit is a line of the file.
LEMMA HitLineOf ==
  ASSUME NEW c \in Contents, NEW k,
         k \in 1..Cardinality({i \in DOMAIN c.lines : c.lines[i].spans > 0})
  PROVE  HitLine(c, k) \in DOMAIN c.lines
<1> DEFINE lines == {i \in DOMAIN c.lines : c.lines[i].spans > 0}
           size == Len(c.lines)
<1>1. lines \subseteq 1..size /\ size \in Nat /\ lines \subseteq DOMAIN c.lines
  BY LinesOf
<1>2. HitLine(c, k) = CHOOSE i \in lines : Cardinality({j \in lines : j <= i}) = k
  BY DEF HitLine, Kth
<1>3. k \in 1..Cardinality(lines)
  OBVIOUS
<1> HIDE DEF lines, size
<1>4. HasKth(lines, k)
  BY <1>1, <1>3, KthMember
<1>5. HitLine(c, k) \in lines
  BY <1>2, <1>4 DEF HasKth
<1> QED
  BY <1>1, <1>5

\* What a match costs is a natural number.
LEMMA MatchCost ==
  ASSUME NEW n, NEW c \in Contents, NEW i \in DOMAIN c.lines, request.context \in {0, 1}
  PROVE  MatchOf(n, c, i).cost \in Nat
<1> DEFINE first == IF request.context < i THEN i - request.context ELSE 1
           last == Min({i + request.context, Len(c.lines)})
           F == [j \in first..last |-> c.lines[j].w + 1]
<1>1. Len(c.lines) \in Nat /\ i \in 1..Len(c.lines) /\ DOMAIN c.lines = 1..Len(c.lines)
  BY LinesOf
<1>2. first \in Int /\ first >= 1
  BY <1>1
<1>3. last \in Int /\ last <= Len(c.lines)
  <2> DEFINE a == i + request.context
             b == Len(c.lines)
  <2>1. a \in Int /\ b \in Int
    BY <1>1
  <2>2. last = Min({a, b})
    OBVIOUS
  <2> HIDE DEF a, b, last
  <2>3. last = IF a <= b THEN a ELSE b
    BY <2>1, <2>2, MinOf
  <2>4. last \in Int /\ last <= b
    BY <2>1, <2>3
  <2> QED
    BY <2>4 DEF b
<1>4. MatchOf(n, c, i).cost = PathBytes + SumFunction(F)
  BY DEF MatchOf
<1> HIDE DEF first, last
<1>5. first..last \subseteq DOMAIN c.lines
  BY <1>1, <1>2, <1>3
<1>6. F \in [first..last -> Nat]
  BY <1>5, LinesOf
<1>7. IsFiniteSet(first..last)
  BY <1>2, <1>3, FS_Interval
<1> HIDE DEF F
<1>8. SumFunction(F) \in Nat
  BY <1>6, <1>7, SumNat
<1> QED
  BY <1>4, <1>8, WalkAssumption

\* The matches that are taken keep to the limits on their number and bytes.
LEMMA HitsWithin ==
  ASSUME NEW n, NEW c \in Contents, request.context \in {0, 1},
         used \in Nat, used <= SearchBytes, Len(found) \in Nat, Len(found) <= SearchMatches
  PROVE  /\ \E E : Hits(n, c).matches \in Seq(E)
         /\ Len(found) + Len(Hits(n, c).matches) <= SearchMatches
         /\ Hits(n, c).used \in Nat /\ Hits(n, c).used <= SearchBytes
<1> DEFINE hits == Cardinality({i \in DOMAIN c.lines : c.lines[i].spans > 0})
           match == [k \in 1..hits |-> MatchOf(n, c, HitLine(c, k))]
           Cost(k) == used + SumFunction([j \in 1..k |-> match[j].cost])
           Fits(k) == Len(found) + k <= SearchMatches /\ Cost(k) <= SearchBytes
           K == {0} \cup {k \in 1..hits : Fits(k)}
           taken == Max(K)
<1>1. Hits(n, c).matches = SubSeq(match, 1, taken) /\ Hits(n, c).used = Cost(taken)
  BY DEF Hits
<1>2. hits \in Nat
  <2>1. IsFiniteSet({i \in DOMAIN c.lines : c.lines[i].spans > 0})
    <3>1. {i \in DOMAIN c.lines : c.lines[i].spans > 0} \subseteq 1..Len(c.lines) /\ Len(c.lines) \in Int
      BY LinesOf
    <3> QED
      BY <3>1, RangeFinite
  <2> QED
    BY <2>1, FS_CardinalityType
<1>3. \A k \in 1..hits : match[k].cost \in Nat
  BY HitLineOf, MatchCost
<1> DEFINE E == {match[k] : k \in 1..hits}
<1>4. match \in Seq(E) /\ Len(match) = hits
  <2> HIDE DEF hits
  <2>1. match \in [1..hits -> E]
    OBVIOUS
  <2> HIDE DEF match, E
  <2> QED
    BY <1>2, <2>1
<1> HIDE DEF hits, match, E
<1>5. \A k \in 0..hits : Cost(k) \in Nat
  <2> TAKE k \in 0..hits
  <2> DEFINE F == [j \in 1..k |-> match[j].cost]
  <2>1. F \in [1..k -> Nat]
    BY <1>2, <1>3
  <2>2. IsFiniteSet(1..k)
    BY <1>2, FS_Interval
  <2>3. SumFunction(F) \in Nat
    <3> HIDE DEF F
    <3> QED
      BY <2>1, <2>2, SumNat
  <2> QED
    BY <2>3
<1>6. Cost(0) = used
  <2> DEFINE F == [j \in 1..0 |-> match[j].cost]
  <2>1. DOMAIN F = {}
    OBVIOUS
  <2>2. SumFunction(F) = 0
    <3> HIDE DEF F
    <3> QED
      BY <2>1, SumEmpty
  <2> QED
    BY <2>2
<1> HIDE DEF Cost
<1>7. taken \in K
  <2>1. K \subseteq Int /\ K # {} /\ (\A k \in K : k <= hits) /\ hits \in Int
    BY <1>2
  <2> HIDE DEF K
  <2> QED
    BY <2>1, MaxOf
<1> HIDE DEF taken
<1>8. taken \in 0..hits /\ (taken # 0 => Fits(taken))
  BY <1>2, <1>7
<1>9. SubSeq(match, 1, taken) \in Seq(E) /\ Len(SubSeq(match, 1, taken)) = taken
  BY <1>2, <1>4, <1>8
<1>10. Len(found) + taken <= SearchMatches /\ Cost(taken) <= SearchBytes /\ Cost(taken) \in Nat
  BY <1>5, <1>6, <1>8
<1> QED
  BY <1>1, <1>9, <1>10

\* A step of the search keeps the budgets if the record of the walk and the
\* matches do.
LEMMA SearchTo ==
  ASSUME WalkInd, stage = "search", stage' = stage, request' = request,
         WalkOK(walk', request.scan), readIn' \in Nat,
         Paid(walk', readIn') \/ Overrun(walk', readIn'),
         \E E : found' \in Seq(E), Len(found') <= SearchMatches,
         used' \in Nat, used' <= SearchBytes
  PROVE  WalkInd'
BY DEF WalkInd

\* A file that search passes over has been paid for, and nothing of it is read.
LEMMA PassOverStep ==
  ASSUME WalkInd, SearchPassesOver
  PROVE  WalkInd'
<1>1. /\ WalkOK(walk, request.scan) /\ stage = "search" /\ walk.items # <<>> /\ readIn \in Nat
      /\ request.tool = "search" /\ Len(found) <= SearchMatches /\ used \in Nat /\ used <= SearchBytes
      /\ \E E : found \in Seq(E)
  BY DEF WalkInd, SearchPassesOver, Searching
<1>2. Paid(walk, readIn)
  BY <1>1 DEF WalkInd, Overrun
<1>3. PICK t, xs, s, b, tr : walk = WalkState(t, xs, s, b, tr)
  BY <1>1, WalkShape
<1>4. walk.items = xs /\ walk.bytes = b
  BY <1>3, WalkFields
<1>5. /\ walk' = [walk EXCEPT !.items = Tail(@)]
      /\ UNCHANGED <<request, stage, found, used, readIn>>
  BY DEF SearchPassesOver, SkipItem
<1> DEFINE ys == Tail(xs)
<1>6. walk' = WalkState(t, ys, s, b, tr)
  <2>1. walk' = [walk EXCEPT !.items = ys]
    BY <1>4, <1>5
  <2> HIDE DEF ys
  <2> QED
    BY <1>3, <2>1 DEF WalkState
<1> HIDE DEF ys
<1>7. Paid(walk', readIn) /\ Items(ys)
  <2> DEFINE v == WalkState(t, ys, s, b, tr)
  <2>0. v.items = ys /\ v.bytes = b
    BY WalkFields
  <2>1. v.items = Tail(walk.items) /\ v.bytes = walk.bytes + 0 /\ v.items = ys
    <3>1. walk.bytes \in Nat
      BY <1>1 DEF WalkOK
    <3>2. ys = Tail(walk.items)
      BY <1>4 DEF ys
    <3> HIDE DEF v
    <3> QED
      BY <1>4, <2>0, <3>1, <3>2
  <2>2. 0 <= Head(walk.items).size + 0
    <3>1. PICK E : xs \in Seq(E) /\ \A e \in E : e.size \in Nat
      BY <1>1, <1>4 DEF WalkOK, Items
    <3>2. Head(xs) \in E
      BY <1>1, <1>4, <3>1
    <3> QED
      BY <1>4, <3>1, <3>2
  <2> HIDE DEF v
  <2>3. Paid(v, readIn + 0) /\ Items(v.items)
    BY <1>1, <1>2, <2>1, <2>2, PaidTail
  <2>4. readIn + 0 = readIn
    BY <1>1
  <2> QED
    BY <1>6, <2>1, <2>3, <2>4 DEF v
<1>8. WalkOK(walk', request.scan)
  <2>1. /\ s \in Nat /\ s <= request.scan /\ b \in Nat /\ b <= ScanBytes /\ tr \in BOOLEAN
    BY <1>1, <1>3, WalkFields DEF WalkOK
  <2>2. WalkOK(WalkState(t, ys, s, b, tr), request.scan)
    BY <1>7, <2>1 DEF WalkOK, WalkState
  <2> QED
    BY <1>6, <2>2
<1> QED
  BY <1>1, <1>5, <1>7, <1>8, SearchTo

\* What a file grew by since the walk is counted too, and ends the search when the limit is met.
LEMMA SearchFileStep ==
  ASSUME TreeOK, WalkInd, SearchFile
  PROVE  WalkInd'
<1> DEFINE item == Head(walk.items)
           n == item.node
           raw == Raw(n)
           growth == IF raw > item.size THEN raw - item.size ELSE 0
<1>1. /\ WalkOK(walk, request.scan) /\ stage = "search" /\ walk.items # <<>> /\ readIn \in Nat
      /\ request.tool = "search" /\ Len(found) <= SearchMatches /\ used \in Nat /\ used <= SearchBytes
      /\ \E E : found \in Seq(E)
      /\ request.context \in {0, 1} /\ n \in Files
  BY DEF WalkInd, SearchFile, Searching, Readable, Regular
<1>2. Paid(walk, readIn)
  BY <1>1 DEF WalkInd, Overrun
<1>3. PICK t, xs, s, b, tr : walk = WalkState(t, xs, s, b, tr)
  BY <1>1, WalkShape
<1>4. /\ walk.items = xs /\ walk.bytes = b
      /\ s \in Nat /\ s <= request.scan /\ b \in Nat /\ b <= ScanBytes /\ tr \in BOOLEAN
  BY <1>1, <1>3, WalkFields DEF WalkOK
<1>5. item.size \in Nat
  <2>1. PICK E : xs \in Seq(E) /\ \A e \in E : e.size \in Nat
    BY <1>1, <1>4 DEF WalkOK, Items
  <2>2. Head(xs) \in E
    BY <1>1, <1>4, <2>1
  <2> QED
    BY <1>4, <2>1, <2>2
<1>6. raw \in Nat /\ raw <= WholeFileBytes + 1
  <2>1. NodeSize(n) \in Nat /\ WholeFileBytes + 1 \in Nat
    BY NodeSizeNat, TreeAssumption
  <2>2. raw = IF NodeSize(n) <= WholeFileBytes + 1 THEN NodeSize(n) ELSE WholeFileBytes + 1
    BY <2>1, MinOf DEF Raw
  <2> HIDE DEF raw
  <2> QED
    BY <2>1, <2>2
<1>7. growth \in Nat /\ raw <= item.size + growth
  <2> HIDE DEF item, raw
  <2> QED
    BY <1>5, <1>6, SMTT(30)
<1>8. IF ~Exists(n) THEN WalkFails
      ELSE /\ readIn' = readIn + raw
           /\ IF walk.bytes + growth > ScanBytes
              THEN /\ walk' = [walk EXCEPT !.truncated = TRUE, !.items = <<>>]
                   /\ UNCHANGED <<request, stage, found, used>>
              ELSE /\ walk' = [walk EXCEPT !.bytes = @ + growth, !.items = Tail(@)]
                   /\ UNCHANGED <<request, stage>>
                   /\ IF raw > WholeFileBytes \/ content[n].binary
                      THEN UNCHANGED <<found, used>>
                      ELSE /\ found' = found \o Hits(n, content[n]).matches
                           /\ used' = Hits(n, content[n]).used
  BY DEF SearchFile
<1> HIDE DEF growth, raw
<1>9. CASE ~Exists(n)
  BY <1>8, <1>9 DEF WalkFails, WalkInd
<1>10. CASE Exists(n) /\ walk.bytes + growth > ScanBytes
  <2>1. /\ readIn' = readIn + raw /\ walk' = [walk EXCEPT !.truncated = TRUE, !.items = <<>>]
        /\ UNCHANGED <<request, stage, found, used>>
    BY <1>8, <1>10
  <2> DEFINE yes == TRUE
             w == [walk EXCEPT !.truncated = yes]
  <2>2. walk' = [w EXCEPT !.items = <<>>]
    BY <2>1
  <2>3. yes \in BOOLEAN /\ yes
    OBVIOUS
  <2> HIDE DEF yes
  <2>4. w = WalkState(t, xs, s, b, yes)
    BY <1>3 DEF WalkState
  <2> HIDE DEF w
  <2>5. walk' = WalkState(t, <<>>, s, b, yes)
    BY <2>2, <2>4 DEF WalkState
  <2>6. Items(<<>>)
    <3>1. PICK E : xs \in Seq(E) /\ \A e \in E : e.size \in Nat
      BY <1>1, <1>4 DEF WalkOK, Items
    <3>2. << >> \in Seq(E)
      OBVIOUS
    <3> QED
      BY <3>1, <3>2 DEF Items
  <2>7. WalkOK(walk', request.scan)
    <3>1. WalkOK(WalkState(t, <<>>, s, b, yes), request.scan)
      BY <1>4, <2>3, <2>6 DEF WalkOK, WalkState
    <3> QED
      BY <2>5, <3>1
  <2>8. Overrun(walk', readIn')
    <3>1. walk'.items = <<>> /\ walk'.bytes = b /\ walk'.truncated = yes
      BY <2>5, WalkFields
    <3>2. readIn <= b
      BY <1>1, <1>2, <1>4, PaidWithin
    <3>3. readIn' <= b + WholeFileBytes + 1
      BY <1>1, <1>4, <1>6, <2>1, <3>2, TreeAssumption
    <3> QED
      BY <2>3, <3>1, <3>3 DEF Overrun
  <2>9. readIn' \in Nat
    BY <1>1, <1>6, <2>1
  <2> QED
    BY <1>1, <2>1, <2>7, <2>8, <2>9, SearchTo
<1>11. CASE Exists(n) /\ ~(walk.bytes + growth > ScanBytes)
  <2>1. /\ readIn' = readIn + raw /\ walk' = [walk EXCEPT !.bytes = @ + growth, !.items = Tail(@)]
        /\ UNCHANGED <<request, stage>>
        /\ IF raw > WholeFileBytes \/ content[n].binary
           THEN UNCHANGED <<found, used>>
           ELSE /\ found' = found \o Hits(n, content[n]).matches
                /\ used' = Hits(n, content[n]).used
    BY <1>8, <1>11
  <2> DEFINE ys == Tail(xs)
             b1 == b + growth
             w == [walk EXCEPT !.bytes = b1]
  <2>2. walk' = [w EXCEPT !.items = ys]
    BY <1>4, <2>1
  <2>2a. b1 \in Nat /\ b1 <= ScanBytes
    BY <1>4, <1>7, <1>11, WalkAssumption
  <2>2b. b1 = walk.bytes + growth /\ ys = Tail(walk.items)
    BY <1>4
  <2> HIDE DEF ys, b1
  <2>3. w = WalkState(t, xs, s, b1, tr)
    BY <1>3 DEF WalkState
  <2> HIDE DEF w
  <2> DEFINE v == WalkState(t, ys, s, b1, tr)
  <2>4. walk' = v
    BY <2>2, <2>3 DEF WalkState
  <2>5. v.items = ys /\ v.bytes = b1
    BY WalkFields
  <2> HIDE DEF v
  <2>6. Paid(v, readIn + raw) /\ Items(v.items)
    <3>1. v.items = Tail(walk.items) /\ v.bytes = walk.bytes + growth
      BY <2>2b, <2>5
    <3> QED
      BY <1>1, <1>2, <1>6, <1>7, <3>1, PaidTail
  <2>7. WalkOK(v, request.scan)
    BY <1>4, <2>2a, <2>5, <2>6 DEF WalkOK, WalkState, v
  <2>8. readIn' \in Nat
    BY <1>1, <1>6, <2>1
  <2>9. /\ \E E : found' \in Seq(E)
        /\ Len(found') <= SearchMatches
        /\ used' \in Nat /\ used' <= SearchBytes
    <3>1. CASE raw > WholeFileBytes \/ content[n].binary
      BY <1>1, <2>1, <3>1
    <3>2. CASE ~(raw > WholeFileBytes \/ content[n].binary)
      <4>1. content[n] \in Contents
        <5>1. n \in Files /\ Exists(n)
          BY <1>1, <1>11
        <5> HIDE DEF n
        <5> QED
          BY <1>1, <5>1 DEF TreeOK, Exists
      <4> DEFINE h == Hits(n, content[n])
      <4>2. found' = found \o h.matches /\ used' = h.used
        BY <2>1, <3>2
      <4>3. PICK D : found \in Seq(D)
        BY <1>1
      <4>4. Len(found) \in Nat
        BY <4>3
      <4>5. /\ \E E : h.matches \in Seq(E)
            /\ Len(found) + Len(h.matches) <= SearchMatches
            /\ h.used \in Nat /\ h.used <= SearchBytes
        BY <1>1, <4>1, <4>4, HitsWithin
      <4> DEFINE ms == h.matches
      <4> HIDE DEF ms, h
      <4>6. PICK E : ms \in Seq(E)
        BY <4>5 DEF ms
      <4>7. found' = found \o ms
        BY <4>2 DEF ms
      <4>8. found \in Seq(D \cup E) /\ ms \in Seq(D \cup E)
        BY <4>3, <4>6
      <4>9. found \o ms \in Seq(D \cup E) /\ Len(found \o ms) = Len(found) + Len(ms)
        BY <4>8
      <4> QED
        BY <4>2, <4>5, <4>7, <4>9 DEF ms
    <3> QED
      BY <3>1, <3>2
  <2> QED
    BY <1>1, <2>1, <2>4, <2>6, <2>7, <2>8, <2>9, SearchTo
<1> QED
  BY <1>9, <1>10, <1>11

\* The answers of list, find and search keep WalkInd.
LEMMA AnswersStep ==
  ASSUME WalkInd, ListAnswer \/ FindAnswer \/ SearchAnswer
  PROVE  WalkInd'
<1>1. CASE ListAnswer
  <2> DEFINE a == Len(walk.items)
             m == Min({a, ListEntries})
             xs == SubSeq(walk.items, 1, m)
  <2>1. stage = "walk" /\ request.tool = "list" /\ WalkOK(walk, request.scan)
    BY <1>1 DEF ListAnswer, WalkDone, WalkInd
  <2>2. PICK E : walk.items \in Seq(E)
    BY <2>1 DEF WalkOK, Items
  <2>3. a \in Nat /\ ListEntries \in Nat
    BY <2>2, WalkAssumption
  <2>4. m \in 0..a
    <3> HIDE DEF a
    <3>1. m = IF a <= ListEntries THEN a ELSE ListEntries
      BY <2>3, MinOf
    <3> HIDE DEF m
    <3> QED
      BY <2>3, <3>1
  <2>5. xs \in Seq(E)
    <3> HIDE DEF m
    <3> QED
      BY <2>2, <2>3, <2>4
  <2>6. PICK tr : Answer(xs, tr)
    BY <1>1 DEF ListAnswer
  <2> HIDE DEF xs
  <2> QED
    BY <2>1, <2>5, <2>6, AnswerStep
<1>2. CASE FindAnswer
  <2>1. /\ stage = "walk" /\ request.tool = "find" /\ stage' = "done"
        /\ UNCHANGED <<request, walk, used, readIn>>
    BY <1>2, Zenon DEF FindAnswer, WalkDone
  <2> QED
    BY <2>1 DEF WalkInd
<1>3. CASE SearchAnswer
  <2>1. stage = "search" /\ request.tool = "search" /\ Len(found) <= SearchMatches
        /\ \E E : found \in Seq(E)
    BY <1>3 DEF SearchAnswer, WalkInd
  <2>2. PICK E : found \in Seq(E)
    BY <2>1
  <2>3. PICK tr : Answer(found, tr)
    BY <1>3 DEF SearchAnswer
  <2> QED
    BY <2>1, <2>2, <2>3, AnswerStep
<1> QED
  BY <1>1, <1>2, <1>3

\* Every step keeps WalkInd.
LEMMA WalkStep ==
  ASSUME TreeOK, WalkInd, [Next]_vars
  PROVE  WalkInd'
<1>1. CASE WalkNext
  <2>1. CASE WalkStart
    BY <2>1, WalkStartStep
  <2>2. CASE OpenDirectory \/ MoreEntries
    BY <2>2, OpenStep
  <2>3. CASE VisitEntry
    BY <2>3, VisitStep
  <2>4. CASE ListAnswer \/ FindAnswer \/ SearchAnswer
    BY <2>4, AnswersStep
  <2>5. CASE SearchBegin
    BY <2>5 DEF SearchBegin, WalkDone, WalkInd
  <2>6. CASE SearchPassesOver
    BY <2>6, PassOverStep
  <2>7. CASE SearchFile
    BY <2>7, SearchFileStep
  <2>8. CASE WalkCancelled
    BY <2>8 DEF WalkCancelled, WalkFails, WalkInd
  <2> QED
    BY <1>1, <2>1, <2>2, <2>3, <2>4, <2>5, <2>6, <2>7, <2>8 DEF WalkNext
<1>2. CASE UNCHANGED walkVars
  <2>1. UNCHANGED <<request, stage, walk, found, used, cut, readIn>>
    BY <1>2 DEF walkVars
  <2>2. AnswerSize(found, cut)' = AnswerSize(found, cut)
    BY <2>1 DEF AnswerSize, EntrySize
  <2> QED
    BY <2>1, <2>2 DEF WalkInd
<1> QED
  BY <1>1, <1>2 DEF Next, vars, OthersEdit, Returned

\* Whatever others edit meanwhile, List, Find and Search keep to the limits of
\* the walk, and what they read and answer to the bytes accounted for (walk,
\* Search, mcpSearch).
THEOREM WalksKeepBudgets == Spec => []WalkBudgets
<1>1. Init => TreeOK /\ WalkInd
  BY WalkIndInit DEF Init, TreeInit, TreeOK
<1>2. TreeOK /\ WalkInd /\ [Next]_vars => TreeOK' /\ WalkInd'
  BY TreeStep, WalkStep
<1>3. WalkInd => WalkBudgets
  <2> SUFFICES ASSUME WalkInd, stage \notin {"off", "failed"} PROVE WalkBudgets
    BY DEF WalkBudgets
  <2>1. readIn <= walk.bytes + IF walk.truncated THEN WholeFileBytes + 1 ELSE 0
    <3>1. walk.bytes \in Nat /\ WholeFileBytes \in Nat /\ readIn \in Nat
      BY TreeAssumption DEF WalkInd, WalkOK
    <3>2. CASE Paid(walk, readIn)
      <4>1. readIn <= walk.bytes
        BY <3>1, <3>2, PaidWithin DEF WalkInd
      <4> QED
        BY <3>1, <4>1
    <3>3. CASE Overrun(walk, readIn)
      BY <3>1, <3>3 DEF Overrun
    <3> QED
      BY <3>2, <3>3 DEF WalkInd
  <2> QED
    BY <2>1 DEF WalkInd, WalkOK, WalkBudgets
<1> QED
  BY <1>1, <1>2, <1>3, PTL DEF Spec

-----------------------------------------------------------------------------
(* Cutting a page. *)

Shrinks(a, b, T, d, f) == f = [e \in a..b |-> IF e \in T THEN e ELSE f[d[e]]]

\* A search that goes down, but not below a, until it is in T is defined.
LEMMA ShrinkExists ==
  ASSUME NEW a \in Int, NEW b \in Int, a <= b, NEW T, a \in T,
         NEW d, \A e \in a..b : e \notin T => d[e] \in a..(e - 1)
  PROVE  \E f : Shrinks(a, b, T, d, f)
<1> DEFINE Bad == {n \in Nat : a + n <= b /\ ~\E f : Shrinks(a, a + n, T, d, f)}
<1>1. 0 \notin Bad
  <2> DEFINE f == [e \in a..a |-> e]
  <2>1. f = [e \in a..a |-> IF e \in T THEN e ELSE f[d[e]]]
    OBVIOUS
  <2> HIDE DEF f
  <2>2. Shrinks(a, a + 0, T, d, f)
    BY <2>1 DEF Shrinks
  <2> QED
    BY <2>2
<1>2. ASSUME NEW n \in Nat \ {0}, n \in Bad PROVE n - 1 \in Bad
  <2> SUFFICES ASSUME n - 1 \notin Bad PROVE FALSE
    OBVIOUS
  <2> DEFINE c == a + n - 1
  <2>1. a + n <= b /\ n - 1 \in Nat /\ a + (n - 1) = c /\ c <= b /\ c \in Int /\ a + n = c + 1
    BY <1>2
  <2>2. PICK g : Shrinks(a, c, T, d, g)
    BY <2>1
  <2>2a. g = [e \in a..c |-> IF e \in T THEN e ELSE g[d[e]]]
    BY <2>2 DEF Shrinks
  <2> DEFINE h == [e \in a..(c + 1) |-> IF e \in T THEN e ELSE g[d[e]]]
  <2> HIDE DEF c
  <2>3. \A e \in a..c : h[e] = g[e]
    BY <2>1, <2>2a
  <2>4. \A e \in a..(c + 1) : e \notin T => d[e] \in a..c
    BY <2>1
  <2>5. h = [e \in a..(c + 1) |-> IF e \in T THEN e ELSE h[d[e]]]
    BY <2>3, <2>4
  <2> HIDE DEF h
  <2>6. Shrinks(a, a + n, T, d, h)
    BY <2>1, <2>5 DEF Shrinks
  <2> QED
    BY <1>2, <2>6
<1>3. Bad = {}
  <2> SUFFICES ASSUME Bad # {} PROVE FALSE
    OBVIOUS
  <2>1. PICK n \in Bad : \A m \in Bad : n <= m
    BY Smallest
  <2>2. n \in Nat \ {0}
    BY <1>1
  <2>3. n - 1 \in Bad
    BY <1>2, <2>2
  <2> QED
    BY <2>1, <2>2, <2>3
<1>4. b - a \in Nat /\ a + (b - a) = b /\ b <= b
  OBVIOUS
<1>5. \E f : Shrinks(a, a + (b - a), T, d, f)
  BY <1>3, <1>4
<1> QED
  BY <1>4, <1>5

\* It ends in T, and not above where it began.
LEMMA ShrinkEnds ==
  ASSUME NEW a \in Int, NEW b \in Int, NEW T, a \in T,
         NEW d, \A e \in a..b : e \notin T => d[e] \in a..(e - 1),
         NEW f, Shrinks(a, b, T, d, f)
  PROVE  \A e \in a..b : f[e] \in T /\ f[e] \in a..e
<1> DEFINE Bad == {n \in Nat : a + n \in a..b /\ ~(f[a + n] \in T /\ f[a + n] \in a..(a + n))}
<1>0. \A e \in a..b : f[e] = IF e \in T THEN e ELSE f[d[e]]
  BY DEF Shrinks
<1>1. Bad = {}
  <2> SUFFICES ASSUME Bad # {} PROVE FALSE
    OBVIOUS
  <2>1. PICK n \in Bad : \A m \in Bad : n <= m
    BY Smallest
  <2> DEFINE e == a + n
  <2>2. n \in Nat /\ e \in a..b /\ ~(f[e] \in T /\ f[e] \in a..e) /\ e \in Int /\ e = a + n
    BY <2>1
  <2> HIDE DEF e
  <2>3. e \notin T
    BY <1>0, <2>2
  <2>4. d[e] \in a..(e - 1) /\ f[e] = f[d[e]]
    BY <1>0, <2>2, <2>3
  <2> DEFINE m == d[e] - a
  <2>5. m \in Nat /\ a + m = d[e] /\ m < n /\ a + m \in a..b
    BY <2>2, <2>4
  <2> HIDE DEF m
  <2>6. m \notin Bad
    <3> HIDE DEF Bad
    <3> SUFFICES ASSUME m \in Bad PROVE FALSE
      OBVIOUS
    <3>1. n <= m
      BY <2>1
    <3> QED
      BY <2>2, <2>5, <3>1
  <2>7. f[d[e]] \in T /\ f[d[e]] \in a..d[e]
    BY <2>5, <2>6
  <2> QED
    BY <2>2, <2>4, <2>7
<1>2. ASSUME NEW e \in a..b PROVE f[e] \in T /\ f[e] \in a..e
  <2>1. e - a \in Nat /\ a + (e - a) = e
    OBVIOUS
  <2>2. e - a \notin Bad
    BY <1>1
  <2> QED
    BY <2>1, <2>2
<1> QED
  BY <1>2

\* What a page has of its file: a range of its units.
Ranged(p) ==
  /\ p.of \in Contents
  /\ p.from \in Nat \ {0} /\ p.to \in Nat
  /\ p.from - 1 <= p.to /\ p.to <= Units(p.of)

\* A file has a natural number of lines or bytes.
LEMMA UnitsNat ==
  ASSUME NEW c \in Contents
  PROVE  Units(c) \in Nat
BY SizeNat, LinesOf DEF Units

\* The encoded size of a page, or of its beginning, but for the metadata.
LEMMA JsonIs ==
  ASSUME NEW p, Ranged(p), NEW e \in (p.from - 1)..p.to
  PROVE  \E b \in Nat : \A q : \A k \in BOOLEAN :
           q.of = p.of /\ q.from = p.from =>
             JsonSize(q, e, k) = Envelope + (IF k THEN Meta ELSE 0) + b
<1> DEFINE F == [i \in p.from..e |-> 2 * p.of.lines[i].w + 1]
           c == p.of
<1>1. p.from \in Nat \ {0} /\ p.to \in Nat /\ c \in Contents /\ e \in Int /\ p.from - 1 <= e /\ e <= Units(c)
  BY UnitsNat DEF Ranged
<1>3. CASE c.binary
  <2> DEFINE x == e - p.from + 3
  <2>1. x \in Nat
    BY <1>1
  <2> HIDE DEF x
  <2>2. 4 * (x \div 3) \in Nat
    BY <2>1
  <2>3. ASSUME NEW q, NEW k \in BOOLEAN, q.of = p.of, q.from = p.from
        PROVE  JsonSize(q, e, k) = Envelope + (IF k THEN Meta ELSE 0) + 4 * (x \div 3)
    BY <1>3, <2>3 DEF JsonSize, x
  <2> QED
    BY <2>2, <2>3
<1>4. CASE ~c.binary
  <2>1. p.from..e \subseteq DOMAIN c.lines
    BY <1>1, <1>4, LinesOf DEF Units
  <2>2. F \in [p.from..e -> Nat]
    BY <1>1, <2>1, LinesOf, SMTT(30)
  <2>3. IsFiniteSet(p.from..e)
    <3>1. p.from \in Int /\ e \in Int
      BY <1>1
    <3> QED
      BY <3>1, FS_Interval
  <2>4. SumFunction(F) \in Nat
    <3> HIDE DEF F
    <3> QED
      BY <2>2, <2>3, SumNat
  <2>5. ASSUME NEW q, NEW k \in BOOLEAN, q.of = p.of, q.from = p.from
        PROVE  JsonSize(q, e, k) = Envelope + (IF k THEN Meta ELSE 0) + SumFunction(F)
    BY <1>4, <2>5 DEF JsonSize
  <2> HIDE DEF F
  <2> QED
    BY <2>4, <2>5
<1> QED
  BY <1>3, <1>4

\* The size of an encoded page is a natural number.
LEMMA JsonNat ==
  ASSUME NEW p, Ranged(p), NEW e \in (p.from - 1)..p.to, NEW k \in BOOLEAN
  PROVE  JsonSize(p, e, k) \in Nat
<1>1. PICK b \in Nat : JsonSize(p, e, k) = Envelope + (IF k THEN Meta ELSE 0) + b
  BY JsonIs
<1>2. Envelope \in Nat /\ Meta \in Nat
  BY TreeAssumption
<1> QED
  BY <1>1, <1>2

\* The metadata of a truncation is all that it adds.
LEMMA CutCosts ==
  ASSUME NEW p, Ranged(p), NEW e \in (p.from - 1)..p.to,
         NEW q, q.of = p.of, q.from = p.from, NEW j \in BOOLEAN, NEW k \in BOOLEAN
  PROVE  JsonSize(q, e, k) <= JsonSize(p, e, j) + Meta
<1>1. PICK b \in Nat :
        /\ JsonSize(p, e, j) = Envelope + (IF j THEN Meta ELSE 0) + b
        /\ JsonSize(q, e, k) = Envelope + (IF k THEN Meta ELSE 0) + b
  BY JsonIs
<1>2. Envelope \in Nat /\ Meta \in Nat
  BY TreeAssumption
<1> QED
  BY <1>1, <1>2

\* Where FitEnd cuts a page.
LEMMA FitEndIs ==
  ASSUME NEW p, Ranged(p), p.truncated \in BOOLEAN, NEW room \in Int
  PROVE  LET e == FitEnd(p, room)
         IN /\ e \in (p.from - 1)..p.to
            /\ e = p.from - 1 \/ JsonSize(p, e, p.truncated) <= room
            /\ e < p.to => ~(JsonSize(p, p.to, p.truncated) <= room)
            /\ ~p.of.binary /\ e = p.from - 1 /\ p.from <= p.to =>
                 ~(JsonSize(p, p.from, p.truncated) <= room)
<1> DEFINE Fits(e) == JsonSize(p, e, p.truncated) <= room
           a == p.from - 1
           b == p.to
           end == FitEnd(p, room)
<1>1. a \in Nat /\ b \in Nat /\ a <= b
  BY DEF Ranged
<1>2. CASE p.of.binary
  <2> DEFINE T == {e \in a..b : Fits(e) \/ e = a}
             Step(e) == LET over == JsonSize(p, e, p.truncated) - room
                          IN Min({(over * 3) \div 4 + 1, e - p.from + 1})
             d == [e \in a..b |-> e - Step(e)]
             f == CHOOSE f : f = [e \in a..b |-> IF Fits(e) \/ e = p.from - 1 THEN e
                                                 ELSE f[e - Step(e)]]
  <2>1. end = f[b]
    BY <1>2 DEF FitEnd
  <2>2. a \in T /\ T \subseteq a..b
    BY <1>1
  <2>3. ASSUME NEW e \in a..b, e \notin T PROVE d[e] \in a..(e - 1)
    <3> DEFINE over == JsonSize(p, e, p.truncated) - room
               y == (over * 3) \div 4 + 1
               z == e - p.from + 1
    <3>1. ~Fits(e) /\ e # a
      BY <2>3
    <3>2. over \in Nat \ {0}
      <4>1. JsonSize(p, e, p.truncated) \in Nat
        BY JsonNat
      <4> QED
        BY <3>1, <4>1
    <3>3. z \in Nat \ {0} /\ e - z = a
      BY <1>1, <3>1 DEF Ranged
    <3>4. y \in Nat \ {0}
      <4> DEFINE x == over * 3
      <4>1. x \in Nat
        BY <3>2
      <4> HIDE DEF x
      <4>2. x \div 4 \in Nat
        BY <4>1
      <4> QED
        BY <4>2 DEF x
    <3>5. d[e] = e - Min({y, z})
      OBVIOUS
    <3> HIDE DEF over, y, z
    <3>6. Min({y, z}) = IF y <= z THEN y ELSE z
      BY <3>3, <3>4, MinOf
    <3>7. Min({y, z}) \in 1..z
      BY <3>3, <3>4, <3>6
    <3> DEFINE m == Min({y, z})
    <3>8. m \in 1..z /\ d[e] = e - m
      BY <3>5, <3>7
    <3> HIDE DEF m, d
    <3> QED
      BY <1>1, <3>3, <3>8
  <2>4. f = CHOOSE g : Shrinks(a, b, T, d, g)
    <3>1. ASSUME NEW g
          PROVE  (g = [e \in a..b |-> IF Fits(e) \/ e = p.from - 1 THEN e ELSE g[e - Step(e)]])
                 <=> Shrinks(a, b, T, d, g)
      <4>1. \A e \in a..b : (e \in T <=> Fits(e) \/ e = p.from - 1) /\ d[e] = e - Step(e)
        OBVIOUS
      <4> HIDE DEF T, d, Fits, Step
      <4>2. [e \in a..b |-> IF Fits(e) \/ e = p.from - 1 THEN e ELSE g[e - Step(e)]]
              = [e \in a..b |-> IF e \in T THEN e ELSE g[d[e]]]
        BY <4>1
      <4> QED
        BY <4>2 DEF Shrinks
    <3> HIDE DEF T, d, Fits, Step
    <3> QED
      BY <3>1
  <2> HIDE DEF T, d, Fits, Step
  <2>5. Shrinks(a, b, T, d, f)
    <3> HIDE DEF f, a, b
    <3>1. \E g : Shrinks(a, b, T, d, g)
      <4>1. a \in Int /\ b \in Int /\ a <= b /\ a \in T
        BY <1>1, <2>2
      <4>2. \A e \in a..b : e \notin T => d[e] \in a..(e - 1)
        BY <2>3
      <4> QED
        BY <4>1, <4>2, ShrinkExists
    <3> QED
      BY <2>4, <3>1
  <2> HIDE DEF f
  <2>6. f[b] \in T /\ f[b] \in a..b
    <3> HIDE DEF a, b
    <3>1. a \in Int /\ b \in Int /\ a <= b /\ a \in T
      BY <1>1, <2>2
    <3>2. \A e \in a..b : e \notin T => d[e] \in a..(e - 1)
      BY <2>3
    <3>3. \A e \in a..b : f[e] \in T /\ f[e] \in a..e
      BY <2>5, <3>1, <3>2, ShrinkEnds
    <3>4. b \in a..b
      BY <3>1
    <3> QED
      BY <3>3, <3>4
  <2>7. end < b => ~Fits(b)
    <3> SUFFICES ASSUME Fits(b) PROVE ~(end < b)
      OBVIOUS
    <3>1. b \in T
      BY <1>1 DEF T
    <3>2. f[b] = b
      BY <1>1, <2>5, <3>1 DEF Shrinks
    <3> QED
      BY <1>1, <2>1, <3>2
  <2> QED
    BY <1>2, <2>1, <2>6, <2>7 DEF T, Fits
<1>3. CASE ~p.of.binary
  <2> DEFINE K == {e \in a..b : e = a \/ Fits(e)}
  <2>1. end = Max(K)
    BY <1>3 DEF FitEnd, Greatest
  <2> HIDE DEF Fits, end
  <2>2. K \subseteq Int /\ K # {} /\ (\A e \in K : e <= b) /\ b \in Int
    BY <1>1
  <2>3. end \in K /\ \A e \in K : e <= end
    <3> HIDE DEF K
    <3> QED
      BY <2>1, <2>2, MaxOf
  <2>4. end \in a..b /\ (end = a \/ Fits(end))
    BY <2>3
  <2>5. end < b => ~Fits(b)
    BY <1>1, <2>3
  <2>6. end = a /\ p.from <= b => ~Fits(p.from)
    <3>1. p.from \in Nat /\ p.from = a + 1
      BY DEF Ranged
    <3> QED
      BY <1>1, <2>3, <3>1
  <2> QED
    BY <1>3, <2>4, <2>5, <2>6 DEF Fits, end
<1> QED
  BY <1>2, <1>3

PageOf(a, c, f, t, x, k) ==
  [path |-> a, of |-> c, from |-> f, to |-> t, next |-> x, truncated |-> k]

\* A page before it is cut: nothing but the lines and bytes asked for limits it.
Uncut(p) ==
  /\ p = PageOf(p.path, p.of, p.from, p.to, p.next, p.truncated)
  /\ Ranged(p)
  /\ p.truncated \in BOOLEAN /\ (p.truncated <=> p.to < Units(p.of))
  /\ p.next = IF p.to < Units(p.of) THEN p.to + 1 ELSE 0

\* A page as it is answered says where to go on, and if there is nothing more.
GoodPage(p) ==
  /\ Ranged(p)
  /\ p.next = IF p.to < Units(p.of) THEN p.to + 1 ELSE 0
  /\ p.to < Units(p.of) => p.truncated

\* Where the page that is asked for with an offset begins.
Start(c, first) == IF first - 1 > Units(c) THEN Units(c) + 1 ELSE first

\* The sum over one number.
LEMMA SumOne ==
  ASSUME NEW a \in Int, NEW F, F \in [a..a -> Nat]
  PROVE  SumFunction(F) = F[a]
<1> DEFINE G == [i \in {} |-> 0]
           S == a..a
<1>1. SumFunction(G) = 0
  <2>1. DOMAIN G = {}
    OBVIOUS
  <2> HIDE DEF G
  <2> QED
    BY <2>1, SumEmpty
<1>2. IsFiniteSet(S)
  BY FS_Interval
<1>3. a \in S /\ S \ {a} = {} /\ F \in [S -> Nat] /\ F[a] \in Nat
  OBVIOUS
<1>4. G \in [{} -> Nat] /\ \A y \in {} : G[y] = F[y]
  OBVIOUS
<1> HIDE DEF S, G
<1>5. Without(S, F, a, {}, G)
  BY <1>2, <1>3, <1>4 DEF Without
<1>6. SumFunction(F) = SumFunction(G) + F[a]
  BY <1>5, SumInsert
<1> QED
  BY <1>1, <1>3, <1>6

\* The window of lines that Read returns: at most up to the end, and empty only
\* if its first line is too long.
LEMMA WindowIs ==
  ASSUME NEW c \in Contents, ~c.binary, NEW first \in Nat \ {0}, first <= Len(c.lines),
         NEW lines \in Nat \ {0}
  PROVE  /\ LineWindow(c, first, lines) \in (first - 1)..Len(c.lines)
         /\ LineWindow(c, first, lines) = first - 1 => c.lines[first].w > ReadBytes
<1> DEFINE F(e) == [i \in first..e |-> c.lines[i].w + IF i > first THEN 1 ELSE 0]
           Fits(e) == e - first + 1 <= lines /\ SumFunction(F(e)) <= ReadBytes
           n == Len(c.lines)
           K == {e \in (first - 1)..n : e = first - 1 \/ Fits(e)}
           end == LineWindow(c, first, lines)
<1>1. n \in Nat /\ first <= n /\ DOMAIN c.lines = 1..n
  BY LinesOf
<1>2. end = Max(K)
  BY DEF LineWindow, Greatest
<1> HIDE DEF Fits, end
<1>3. K \subseteq Int /\ K # {} /\ (\A e \in K : e <= n) /\ n \in Int
  <2> HIDE DEF n
  <2>1. first - 1 \in (first - 1)..n /\ \A e \in (first - 1)..n : e \in Int /\ e <= n
    BY <1>1
  <2>2. first - 1 \in K /\ \A e \in K : e \in (first - 1)..n
    BY <2>1
  <2> HIDE DEF K
  <2>3. \A e \in K : e \in Int /\ e <= n
    BY <2>1, <2>2
  <2> QED
    BY <1>1, <2>2, <2>3
<1>4. end \in K /\ \A e \in K : e <= end
  <2> HIDE DEF K, n
  <2> QED
    BY <1>2, <1>3, MaxOf
<1>5. ASSUME end = first - 1 PROVE c.lines[first].w > ReadBytes
  <2>1. first \in (first - 1)..n
    BY <1>1
  <2>2. ~Fits(first)
    BY <1>4, <1>5, <2>1
  <2> DEFINE G == F(first)
  <2>3. c.lines[first].w \in Nat
    BY <1>1, LinesOf
  <2>4. \A i \in first..first : i = first
    OBVIOUS
  <2>5. G \in [first..first -> Nat] /\ G[first] = c.lines[first].w
    BY <2>3, <2>4
  <2>6. SumFunction(G) = c.lines[first].w
    <3>1. first \in Int
      OBVIOUS
    <3> HIDE DEF G
    <3>2. SumFunction(G) = G[first]
      BY <2>5, <3>1, SumOne
    <3> QED
      BY <2>5, <3>2
  <2>7. first - first + 1 <= lines
    OBVIOUS
  <2>8. ~(SumFunction(G) <= ReadBytes)
    BY <2>2, <2>7 DEF Fits
  <2>9. ReadBytes \in Nat
    BY ReadAssumption
  <2> DEFINE w == c.lines[first].w
  <2>10. w \in Nat /\ ~(w <= ReadBytes)
    BY <2>3, <2>6, <2>8
  <2> HIDE DEF w
  <2>11. w > ReadBytes
    BY <2>9, <2>10
  <2> QED
    BY <2>11 DEF w
<1>6. end \in (first - 1)..n
  BY <1>4
<1> QED
  BY <1>5, <1>6 DEF end

\* What Read answers before it is cut: a range of the units from the first one asked for, which is
\* empty only at the end of the file or at a line that no page can hold.
LEMMA PageIs ==
  ASSUME NEW c \in Contents, NEW first \in Nat \ {0}, NEW lines \in Nat \ {0}
  PROVE  LET p == Page(c, first, lines)
         IN /\ Uncut(p) /\ p.of = c
            /\ p.from = Start(c, first)
            /\ first > Units(c) => p.to = Units(c)
            /\ first <= Units(c) /\ ~c.binary /\ p.to = p.from - 1 => c.lines[p.from].w > ReadBytes
<1> DEFINE size == Units(c)
           start == Start(c, first)
           end == IF first > size THEN start - 1
                  ELSE IF c.binary THEN Min({start - 1 + ReadBytes, size})
                  ELSE LineWindow(c, first, lines)
           more == end < size
           p == Page(c, first, lines)
<1>1. p = [path |-> 0, of |-> c, from |-> start, to |-> end,
           next |-> IF more THEN end + 1 ELSE 0, truncated |-> more]
  BY DEF Page, Start
<1>2. size \in Nat /\ more \in BOOLEAN
  BY UnitsNat
<1>3. start \in Nat \ {0} /\ (first <= size => start = first) /\ (first > size => start = size + 1)
  BY <1>2 DEF Start
<1>4. end \in (start - 1)..size /\ (first > size => end = size)
      /\ (first <= size /\ ~c.binary /\ end = start - 1 => c.lines[start].w > ReadBytes)
  <2>1. CASE first > size
    BY <1>2, <1>3, <2>1
  <2>2. CASE ~(first > size) /\ c.binary
    <3> DEFINE y == start - 1 + ReadBytes
    <3>1. y \in Nat /\ y >= start
      BY <1>3, ReadAssumption
    <3>2. end = Min({y, size})
      BY <2>2
    <3> HIDE DEF y, end, size, start
    <3>3. end = IF y <= size THEN y ELSE size
      BY <1>2, <3>1, <3>2, MinOf
    <3> QED
      BY <1>2, <1>3, <2>2, <3>1, <3>3
  <2>3. CASE ~(first > size) /\ ~c.binary
    <3>1. size = Len(c.lines) /\ end = LineWindow(c, first, lines) /\ start = first
      BY <1>2, <1>3, <2>3 DEF Units
    <3> QED
      BY <1>2, <2>3, <3>1, WindowIs
  <2> QED
    BY <2>1, <2>2, <2>3
<1> DEFINE next == IF end < size THEN end + 1 ELSE 0
<1>5. next = IF end < size THEN end + 1 ELSE 0
  OBVIOUS
<1>6. more <=> end < size
  OBVIOUS
<1>7. p = [path |-> 0, of |-> c, from |-> start, to |-> end, next |-> next, truncated |-> more]
  BY <1>1
<1> HIDE DEF start, end, next, more, p
<1>8. p.path = 0 /\ p.of = c /\ p.from = start /\ p.to = end /\ p.next = next /\ p.truncated = more
  BY <1>7
<1>9. p = PageOf(p.path, p.of, p.from, p.to, p.next, p.truncated)
  BY <1>7, <1>8 DEF PageOf
<1>10. Ranged(p)
  BY <1>2, <1>3, <1>4, <1>8 DEF Ranged
<1>11. Uncut(p)
  BY <1>2, <1>5, <1>6, <1>8, <1>9, <1>10 DEF Uncut
<1> QED
  BY <1>4, <1>8, <1>11 DEF p, start

\* Fit cuts a page at its end and says where to go on.
LEMMA FitIs ==
  ASSUME NEW p, Uncut(p), NEW budget \in Nat
  PROVE  LET q == Fit(p, budget)
             room == IF budget > Headroom THEN budget - Headroom ELSE budget
         IN /\ GoodPage(q) /\ q.path = p.path /\ q.of = p.of /\ q.from = p.from
            /\ q.to \in (p.from - 1)..p.to
            /\ q.truncated \in BOOLEAN
            /\ q = PageOf(q.path, q.of, q.from, q.to, q.next, q.truncated)
            /\ q.truncated <=> p.truncated \/ ~(JsonSize(p, p.to, p.truncated) <= room)
            /\ q.to = p.from - 1 \/ JsonSize(p, q.to, p.truncated) <= room
            /\ q.to = p.to => q.next = p.next
            /\ ~p.of.binary /\ q.to = p.from - 1 /\ p.from <= p.to =>
                 ~(JsonSize(p, p.from, p.truncated) <= room)
<1> DEFINE room == IF budget > Headroom THEN budget - Headroom ELSE budget
           end == FitEnd(p, room)
           over == JsonSize(p, p.to, p.truncated) > room
           next == IF end < p.to THEN end + 1 ELSE p.next
           cutoff == p.truncated \/ over
           q == Fit(p, budget)
<1>1. Headroom \in Nat
  BY ReadAssumption
<1>2. room \in Int
  BY <1>1
<1>3. Ranged(p) /\ p.from \in Nat \ {0} /\ p.to \in Nat /\ p.from - 1 <= p.to /\ p.to <= Units(p.of)
      /\ Units(p.of) \in Nat
  BY UnitsNat DEF Uncut, Ranged
<1>4. q = [p EXCEPT !.to = end, !.next = next, !.truncated = cutoff]
  BY DEF Fit
<1> DEFINE p1 == [p EXCEPT !.to = end]
           p2 == [p1 EXCEPT !.next = next]
           p3 == [p2 EXCEPT !.truncated = cutoff]
<1>5. q = p3
  BY <1>4
<1>6. cutoff \in BOOLEAN /\ (cutoff <=> p.truncated \/ over)
  BY DEF Uncut
<1>7. next = IF end < p.to THEN end + 1 ELSE p.next
  OBVIOUS
<1>8. /\ end \in (p.from - 1)..p.to
      /\ end = p.from - 1 \/ JsonSize(p, end, p.truncated) <= room
      /\ end < p.to => ~(JsonSize(p, p.to, p.truncated) <= room)
      /\ ~p.of.binary /\ end = p.from - 1 /\ p.from <= p.to =>
           ~(JsonSize(p, p.from, p.truncated) <= room)
  <2> HIDE DEF room, end
  <2> QED
    BY <1>2, <1>3, FitEndIs DEF end, Uncut
<1>9. over <=> ~(JsonSize(p, p.to, p.truncated) <= room)
  <2> DEFINE y == JsonSize(p, p.to, p.truncated)
  <2>0. p.to \in (p.from - 1)..p.to
    BY <1>3
  <2>1. y \in Nat
    BY <1>3, <2>0, JsonNat DEF Uncut
  <2> HIDE DEF y, room
  <2>2. y > room <=> ~(y <= room)
    BY <1>2, <2>1
  <2> QED
    BY <2>2 DEF y
<1> HIDE DEF room, end, over, next, cutoff, q
<1>10. p = PageOf(p.path, p.of, p.from, p.to, p.next, p.truncated)
  BY DEF Uncut
<1>11. p1 = PageOf(p.path, p.of, p.from, end, p.next, p.truncated)
  BY <1>10 DEF PageOf
<1> HIDE DEF p1
<1>12. p2 = PageOf(p.path, p.of, p.from, end, next, p.truncated)
  BY <1>11 DEF PageOf
<1> HIDE DEF p2
<1>13. p3 = PageOf(p.path, p.of, p.from, end, next, cutoff)
  BY <1>12 DEF PageOf
<1>14. q.path = p.path /\ q.of = p.of /\ q.from = p.from /\ q.to = end /\ q.next = next
       /\ q.truncated = cutoff
  BY <1>5, <1>13 DEF PageOf
<1>20. q = PageOf(q.path, q.of, q.from, q.to, q.next, q.truncated)
  BY <1>5, <1>13, <1>14
<1> HIDE DEF p3
<1>15. Ranged(q)
  BY <1>3, <1>8, <1>14 DEF Ranged
<1>16. next = IF end < Units(p.of) THEN end + 1 ELSE 0
  <2>1. p.next = IF p.to < Units(p.of) THEN p.to + 1 ELSE 0
    BY DEF Uncut
  <2> QED
    BY <1>3, <1>7, <1>8, <2>1
<1>17. end < Units(p.of) => cutoff
  <2>1. p.to < Units(p.of) => p.truncated
    BY DEF Uncut
  <2>2. CASE end < p.to
    BY <1>6, <1>8, <1>9, <2>2
  <2>3. CASE ~(end < p.to)
    <3>1. end = p.to
      BY <1>3, <1>8, <2>3
    <3> QED
      BY <1>6, <2>1, <3>1
  <2> QED
    BY <2>2, <2>3
<1>18. GoodPage(q)
  BY <1>14, <1>15, <1>16, <1>17 DEF GoodPage
<1>19. q.to = p.to => q.next = p.next
  BY <1>3, <1>7, <1>14
<1> QED
  BY <1>6, <1>8, <1>9, <1>14, <1>18, <1>19, <1>20 DEF room, q

-----------------------------------------------------------------------------
(* Pages. *)

\* A page as a client keeps it.
KeptPage ==
  {p \in [path : Files, of : Contents, from : Nat, to : Nat, next : Nat, truncated : BOOLEAN] :
     GoodPage(p)}

\* A budget with room for the metadata is kept.
InBudget(p, budget) == PageBytes(p) <= budget \/ p.to < p.from

\* The lines that no page can hold.
Excused(p) ==
  \/ p.of.binary
  \/ p.of.lines[p.from].w > ReadBytes
  \/ Envelope + Meta + 2 * p.of.lines[p.from].w + 1 + Headroom > ModelBytes

\* The encoded size of one line.
LEMMA JsonOne ==
  ASSUME NEW p, Ranged(p), ~p.of.binary, p.from <= p.to, NEW k \in BOOLEAN
  PROVE  /\ p.of.lines[p.from].w \in Nat
         /\ JsonSize(p, p.from, k) = Envelope + (IF k THEN Meta ELSE 0) + 2 * p.of.lines[p.from].w + 1
<1> DEFINE c == p.of
           a == p.from
           w == c.lines[a].w
           F == [i \in a..a |-> 2 * c.lines[i].w + 1]
<1>1. c \in Contents /\ a \in Nat \ {0} /\ a <= Units(c) /\ Units(c) \in Nat
  BY UnitsNat DEF Ranged
<1>2. a \in DOMAIN c.lines
  BY <1>1, LinesOf DEF Units
<1>3. w \in Nat
  BY <1>1, <1>2, LinesOf
<1>4. F \in [a..a -> Nat] /\ F[a] = 2 * w + 1 /\ a \in Int
  <2>1. \A i \in a..a : i = a
    BY <1>1
  <2> QED
    BY <1>1, <1>3, <2>1
<1>5. JsonSize(p, a, k) = Envelope + (IF k THEN Meta ELSE 0) + SumFunction(F)
  BY DEF JsonSize
<1> HIDE DEF F
<1>6. SumFunction(F) = F[a]
  BY <1>4, SumOne
<1>7. Envelope \in Nat /\ Meta \in Nat
  BY TreeAssumption
<1> HIDE DEF w
<1>8. JsonSize(p, a, k) = Envelope + (IF k THEN Meta ELSE 0) + 2 * w + 1
  BY <1>3, <1>4, <1>5, <1>6, <1>7
<1> QED
  BY <1>3, <1>8 DEF w

\* What one call of Read answers, cut to a budget.
LEMMA AnswerIs ==
  ASSUME paths[1] \in Files, NEW c \in Contents, NEW first \in Nat \ {0},
         NEW lines \in Nat \ {0}, NEW budget \in Nat
  PROVE  LET q == Fit(Got(Page(c, first, lines)), budget)
         IN /\ q \in KeptPage /\ q.path = paths[1] /\ q.of = c /\ q.from = Start(c, first)
            /\ Headroom < budget => InBudget(q, budget)
            /\ budget = ModelBytes /\ q.next # 0 /\ q.next <= first => Excused(q)
<1> DEFINE p0 == Page(c, first, lines)
           p == Got(p0)
           q == Fit(p, budget)
           room == IF budget > Headroom THEN budget - Headroom ELSE budget
<1>1. /\ Uncut(p0) /\ p0.of = c /\ p0.from = Start(c, first)
      /\ first > Units(c) => p0.to = Units(c)
      /\ first <= Units(c) /\ ~c.binary /\ p0.to = p0.from - 1 => c.lines[p0.from].w > ReadBytes
  BY PageIs
<1> HIDE DEF p0
<1>2. p = PageOf(paths[1], p0.of, p0.from, p0.to, p0.next, p0.truncated)
  <2>1. p0 = PageOf(p0.path, p0.of, p0.from, p0.to, p0.next, p0.truncated)
    BY <1>1 DEF Uncut
  <2>2. p = [p0 EXCEPT !.path = paths[1]]
    BY DEF Got
  <2> HIDE DEF p
  <2> QED
    BY <2>1, <2>2 DEF PageOf
<1> HIDE DEF p
<1>3. /\ p.path = paths[1] /\ p.of = c /\ p.from = p0.from /\ p.to = p0.to /\ p.next = p0.next
      /\ p.truncated = p0.truncated
  BY <1>1, <1>2 DEF PageOf
<1>4. Uncut(p)
  <2>1. p = PageOf(p.path, p.of, p.from, p.to, p.next, p.truncated)
    BY <1>1, <1>2, <1>3
  <2> QED
    BY <1>1, <1>3, <2>1 DEF Uncut, Ranged
<1>5. /\ GoodPage(q) /\ q.path = p.path /\ q.of = p.of /\ q.from = p.from
      /\ q.to \in (p.from - 1)..p.to
      /\ q.truncated \in BOOLEAN
      /\ q = PageOf(q.path, q.of, q.from, q.to, q.next, q.truncated)
      /\ q.to = p.from - 1 \/ JsonSize(p, q.to, p.truncated) <= room
      /\ ~p.of.binary /\ q.to = p.from - 1 /\ p.from <= p.to =>
           ~(JsonSize(p, p.from, p.truncated) <= room)
  BY <1>4, FitIs
<1> HIDE DEF q
<1>6. q \in KeptPage
  <2>1. q.of \in Contents /\ q.from \in Nat /\ q.to \in Nat
    BY <1>5 DEF GoodPage, Ranged
  <2>2. q.next \in Nat
    BY <1>5, <2>1 DEF GoodPage
  <2>3. q.path \in Files
    BY <1>3, <1>5
  <2>4. q \in [path : Files, of : Contents, from : Nat, to : Nat, next : Nat, truncated : BOOLEAN]
    BY <1>5, <2>1, <2>2, <2>3 DEF PageOf
  <2> QED
    BY <1>5, <2>4 DEF KeptPage
<1>7. Ranged(p) /\ p.truncated \in BOOLEAN /\ p.from \in Nat \ {0} /\ p.to \in Nat
      /\ p.from - 1 <= p.to /\ p.to <= Units(c) /\ Units(c) \in Nat
  BY <1>3, <1>4, UnitsNat DEF Uncut, Ranged
<1>8. Headroom \in Nat /\ Meta \in Nat /\ Envelope \in Nat /\ Meta <= Headroom
  BY ReadAssumption, TreeAssumption
<1>9. Headroom < budget => InBudget(q, budget)
  <2> DEFINE x == JsonSize(p, q.to, p.truncated)
             y == PageBytes(q)
  <2>1. x \in Nat
    BY <1>5, <1>7, JsonNat
  <2>2. y \in Nat /\ y <= x + Meta
    <3>1. Ranged(q) /\ q.to \in (q.from - 1)..q.to
      BY <1>5 DEF GoodPage, Ranged
    <3>2. JsonSize(q, q.to, q.truncated) \in Nat
      BY <1>5, <3>1, JsonNat
    <3>3. JsonSize(q, q.to, q.truncated) <= x + Meta
      BY <1>5, <1>7, CutCosts
    <3> QED
      BY <3>2, <3>3 DEF PageBytes
  <2>3. q.to = p.from - 1 \/ x <= room
    BY <1>5
  <2> HIDE DEF x, y
  <2>4. Headroom < budget => y <= budget \/ q.to = p.from - 1
    BY <1>8, <2>1, <2>2, <2>3
  <2>5. q.to = p.from - 1 => q.to < q.from
    BY <1>5, <1>7
  <2> QED
    BY <2>4, <2>5 DEF InBudget, y
<1>10. ASSUME budget = ModelBytes, q.next # 0, q.next <= first PROVE Excused(q)
  <2>1. q.next = q.to + 1 /\ q.to < Units(c)
    BY <1>3, <1>5, <1>10 DEF GoodPage
  <2>2. q.to \in Nat /\ q.to \in (p.from - 1)..p.to
    BY <1>5, <1>7
  <2>3. p.from = Start(c, first)
    BY <1>1, <1>3
  <2>4. first <= Units(c)
    BY <1>1, <1>3, <1>7, <2>1, <2>2, <2>3 DEF Start
  <2>5. p.from = first /\ q.to = p.from - 1
    BY <1>7, <1>10, <2>1, <2>2, <2>3, <2>4 DEF Start
  <2>6. CASE c.binary
    BY <1>3, <1>5, <2>6 DEF Excused
  <2>7. CASE ~c.binary /\ p.to = p.from - 1
    <3>1. c.lines[p.from].w > ReadBytes
      BY <1>1, <1>3, <2>4, <2>7
    <3> QED
      BY <1>3, <1>5, <3>1 DEF Excused
  <2>8. CASE ~c.binary /\ p.to # p.from - 1
    <3> DEFINE w == c.lines[p.from].w
    <3>1. p.from <= p.to
      BY <1>7, <2>8
    <3>2. w \in Nat /\ JsonSize(p, p.from, p.truncated) =
                         Envelope + (IF p.truncated THEN Meta ELSE 0) + 2 * w + 1
      BY <1>3, <1>7, <2>8, <3>1, JsonOne
    <3>3. ~(JsonSize(p, p.from, p.truncated) <= room)
      BY <1>3, <1>5, <2>5, <2>8, <3>1
    <3> HIDE DEF w
    <3>4. Envelope + Meta + 2 * w + 1 + Headroom > ModelBytes
      BY <1>8, <1>10, <3>2, <3>3
    <3> QED
      BY <1>3, <1>5, <3>4 DEF Excused, w
  <2> QED
    BY <2>6, <2>7, <2>8
<1>11. q.path = paths[1] /\ q.of = c /\ q.from = Start(c, first)
  BY <1>1, <1>3, <1>5
<1> QED
  BY <1>6, <1>9, <1>10, <1>11 DEF q, p, p0

\* The offset that follows the first so many answers.
NextOffset(i) == IF i = 0 THEN 1 ELSE pages[i].next

\* The answers so far follow one another. Nothing is asked for after the last.
PageInd ==
  mode = "page" =>
    /\ pages \in Seq(KeptPage)
    /\ paths \in Seq(Files) /\ paths # <<>>
    /\ limit \in Nat \ {0}
    /\ outcome = "going" => offset = NextOffset(Len(pages)) /\ offset \in Nat \ {0}
    /\ \A i \in DOMAIN pages :
         /\ NextOffset(i - 1) \in Nat \ {0}
         /\ pages[i].from = Start(pages[i].of, NextOffset(i - 1))
    /\ Headroom < ModelBytes => \A i \in DOMAIN pages : InBudget(pages[i], ModelBytes)
    /\ outcome = "done" => pages # <<>> /\ pages[Len(pages)].next = 0
    /\ outcome = "stalled" => pages # <<>> /\ Excused(pages[Len(pages)])

\* read_many counts what it has before it takes one more.
BatchInd ==
  mode = "batch" =>
    /\ pages \in Seq(KeptPage)
    /\ paths \in Seq(Files)
    /\ limit \in Nat \ {0}
    /\ offset = 1
    /\ pages = <<>> \/ Total(pages) + Reserve <= ModelBytes

\* The clients of read and read_many start with nothing.
LEMMA PagesInit == Init => PageInd /\ BatchInd
<1> SUFFICES ASSUME Init PROVE PageInd /\ BatchInd
  OBVIOUS
<1>1. mode = "off" \/ mode = "repo" \/ ReadsInit("page") \/ ReadsInit("batch")
  BY DEF Init, ReadsOff, ReadsInit
<1>2. CASE ReadsInit("page")
  <2>1. PICK n \in Nat \ {0} : paths \in [1..n -> Files]
    BY <1>2 DEF ReadsInit
  <2>2. paths \in Seq(Files) /\ paths # <<>>
    BY <2>1
  <2>3. mode = "page" /\ pages = <<>> /\ limit \in Nat \ {0} /\ offset = 1 /\ outcome = "going"
    BY <1>2 DEF ReadsInit
  <2> QED
    BY <2>2, <2>3 DEF PageInd, BatchInd, NextOffset
<1>3. CASE ReadsInit("batch")
  <2>1. PICK n \in 1..MaxPaths : paths \in [1..n -> Files]
    BY <1>3 DEF ReadsInit
  <2>2. paths \in Seq(Files)
    BY <2>1, ReadAssumption
  <2>3. mode = "batch" /\ pages = <<>> /\ limit \in Nat \ {0} /\ offset = 1
    BY <1>3, SMTT(30) DEF ReadsInit
  <2> QED
    BY <2>2, <2>3 DEF PageInd, BatchInd
<1> QED
  BY <1>1, <1>2, <1>3 DEF PageInd, BatchInd

\* A client takes one more page.
LEMMA PageTaken ==
  ASSUME TreeOK, PageInd, mode = "page", outcome = "going", ReadPage
  PROVE  PageInd'
<1> DEFINE c == content[paths[1]]
           n == Len(pages)
           q == Fit(Got(Page(c, offset, limit)), ModelBytes)
<1>1. /\ pages \in Seq(KeptPage) /\ paths \in Seq(Files) /\ paths # <<>> /\ limit \in Nat \ {0}
      /\ offset = NextOffset(n) /\ offset \in Nat \ {0} /\ n \in Nat
  BY DEF PageInd
<1>2. paths[1] \in Files
  BY <1>1
<1>3. c \in Contents
  <2>1. c \in Contents \cup {NoFile}
    BY <1>2 DEF TreeOK
  <2> QED
    BY <2>1 DEF ReadPage, Unreadable
<1>4. ModelBytes \in Nat
  BY TreeAssumption
<1>5. /\ pages' = Append(pages, q)
      /\ \/ q.next = 0 /\ outcome' = "done"
         \/ q.next # 0 /\ q.next <= offset /\ outcome' = "stalled"
         \/ q.next # 0 /\ ~(q.next <= offset) /\ outcome' = "going" /\ offset' = q.next
      /\ mode' = mode /\ paths' = paths /\ limit' = limit
  BY DEF ReadPage
<1> HIDE DEF q
<1>6. /\ q \in KeptPage /\ q.of = c /\ q.from = Start(c, offset)
      /\ Headroom < ModelBytes => InBudget(q, ModelBytes)
      /\ q.next # 0 /\ q.next <= offset => Excused(q)
  <2> HIDE DEF c
  <2> QED
    BY <1>1, <1>2, <1>3, <1>4, AnswerIs DEF q
<1>7. q.next \in Nat
  BY <1>6 DEF KeptPage
<1> DEFINE ps == Append(pages, q)
<1>8. ps \in Seq(KeptPage) /\ Len(ps) = n + 1 /\ ps # <<>> /\ ps[n + 1] = q /\ DOMAIN ps = 1..(n + 1)
      /\ \A i \in 1..n : ps[i] = pages[i]
  BY <1>1, <1>6
<1>8a. pages' = ps
  BY <1>5
<1> HIDE DEF ps
<1>9. ASSUME NEW i \in 1..(n + 1)
      PROVE  (i = n + 1 /\ ps[i] = q /\ NextOffset(i - 1)' = offset)
             \/ (i \in DOMAIN pages /\ ps[i] = pages[i] /\ NextOffset(i - 1)' = NextOffset(i - 1))
  <2> DEFINE m == i - 1
  <2>1. m \in Nat /\ m <= n /\ (m = 0 \/ m \in 1..n)
    BY <1>1
  <2>2. NextOffset(m)' = NextOffset(m)
    BY <1>8, <1>8a, <2>1 DEF NextOffset
  <2>3. CASE i = n + 1
    BY <1>1, <1>8, <2>2, <2>3
  <2>4. CASE i # n + 1
    BY <1>1, <1>8, <2>2, <2>4
  <2> QED
    BY <2>3, <2>4
<1>10. \A i \in 1..(n + 1) :
         /\ NextOffset(i - 1)' \in Nat \ {0}
         /\ ps[i].from = Start(ps[i].of, NextOffset(i - 1)')
         /\ Headroom < ModelBytes => InBudget(ps[i], ModelBytes)
  <2> SUFFICES ASSUME NEW i \in 1..(n + 1)
               PROVE  /\ NextOffset(i - 1)' \in Nat \ {0}
                      /\ ps[i].from = Start(ps[i].of, NextOffset(i - 1)')
                      /\ Headroom < ModelBytes => InBudget(ps[i], ModelBytes)
    OBVIOUS
  <2>1. CASE i = n + 1 /\ ps[i] = q /\ NextOffset(i - 1)' = offset
    BY <1>1, <1>6, <2>1
  <2>2. CASE i \in DOMAIN pages /\ ps[i] = pages[i] /\ NextOffset(i - 1)' = NextOffset(i - 1)
    BY <2>2 DEF PageInd
  <2> QED
    BY <1>9, <2>1, <2>2
<1>11. outcome' = "going" => offset' = NextOffset(Len(pages))' /\ offset' \in Nat \ {0}
  <2>1. Len(pages)' = n + 1 /\ pages'[n + 1] = q /\ n + 1 # 0
    BY <1>1, <1>8, <1>8a
  <2>2. NextOffset(Len(pages))' = q.next
    BY <2>1 DEF NextOffset
  <2> QED
    BY <1>5, <1>7, <2>2
<1>12. \A i \in DOMAIN pages' :
         /\ NextOffset(i - 1)' \in Nat \ {0}
         /\ pages'[i].from = Start(pages'[i].of, NextOffset(i - 1)')
  BY <1>8, <1>8a, <1>10
<1>13. Headroom < ModelBytes => \A i \in DOMAIN pages' : InBudget(pages'[i], ModelBytes)
  BY <1>8, <1>8a, <1>10
<1>14. /\ outcome' = "done" => pages'[Len(pages')].next = 0
       /\ outcome' = "stalled" => Excused(pages'[Len(pages')])
  BY <1>5, <1>6, <1>8, <1>8a
<1>15. pages' \in Seq(KeptPage) /\ pages' # <<>>
  BY <1>8, <1>8a
<1> HIDE DEF n
<1> QED
  BY <1>1, <1>5, <1>11, <1>12, <1>13, <1>14, <1>15
  DEF PageInd, InBudget, PageBytes, JsonSize, Excused, Start, Units, SizeOf

\* The size of a batch is a natural number.
LEMMA TotalNat ==
  ASSUME NEW ps, ps \in Seq(KeptPage)
  PROVE  Total(ps) \in Nat
<1> DEFINE F == [i \in DOMAIN ps |-> PageBytes(ps[i])]
<1>1. Len(ps) \in Nat /\ DOMAIN ps = 1..Len(ps) /\ \A i \in DOMAIN ps : ps[i] \in KeptPage
  BY ElementsOf
<1>2. ASSUME NEW i \in DOMAIN ps PROVE PageBytes(ps[i]) \in Nat
  <2> DEFINE p == ps[i]
  <2>1. p \in KeptPage
    BY <1>1
  <2> HIDE DEF p
  <2>2. Ranged(p) /\ p.truncated \in BOOLEAN /\ p.to \in (p.from - 1)..p.to
    BY <2>1 DEF KeptPage, GoodPage, Ranged
  <2>3. PageBytes(p) \in Nat
    BY <2>2, JsonNat DEF PageBytes
  <2> QED
    BY <2>3 DEF p
<1>3. F \in [DOMAIN ps -> Nat]
  BY <1>2
<1>4. IsFiniteSet(DOMAIN ps)
  <2>1. DOMAIN ps \subseteq 1..Len(ps) /\ Len(ps) \in Int
    BY <1>1
  <2> QED
    BY <2>1, RangeFinite
<1>5. SumFunction(F) \in Nat
  <2> HIDE DEF F
  <2> QED
    BY <1>3, <1>4, SumNat
<1>6. Envelope \in Nat
  BY TreeAssumption
<1>7. Total(ps) = Envelope + SumFunction(F)
  BY DEF Total
<1> HIDE DEF F
<1> QED
  BY <1>5, <1>6, <1>7

\* Every step keeps PageInd: the next offset is that of the last page.
LEMMA PageStep ==
  ASSUME TreeOK, PageInd, [Next]_vars
  PROVE  PageInd'
<1> SUFFICES ASSUME mode' = "page" PROVE PageInd'
  BY DEF PageInd
<1>0. mode = "page"
  BY DEF Next, vars, readVars, ReadsNext, ReadStat, ReadFailsLate, ReadPage, BatchPage, RepoStat,
         RepoRead, ReadCancelled, Fail, Answered, OthersEdit, Returned
<1>1. CASE ReadPage
  <2>1. outcome = "going"
    BY <1>1 DEF ReadPage, Reading
  <2> QED
    BY <1>0, <1>1, <2>1, PageTaken
<1>2. CASE UNCHANGED <<mode, paths, limit, offset, pages>> /\ outcome' \in {outcome, "failed"}
  <2>1. \A i : NextOffset(i)' = NextOffset(i)
    BY <1>2 DEF NextOffset
  <2>2. Len(pages)' = Len(pages)
    BY <1>2
  <2>3. NextOffset(Len(pages))' = NextOffset(Len(pages))
    BY <1>2, <2>1
  <2>4. outcome' = "going" => outcome = "going"
    BY <1>2
  <2> QED
    BY <1>0, <1>2, <2>1, <2>3, <2>4
    DEF PageInd, InBudget, PageBytes, JsonSize, Excused, Start, Units, SizeOf
<1>3. ~ReadPage => UNCHANGED <<mode, paths, limit, offset, pages>> /\ outcome' \in {outcome, "failed"}
  BY <1>0 DEF Next, vars, readVars, ReadsNext, ReadStat, ReadFailsLate, BatchPage, RepoStat,
              RepoRead, ReadCancelled, Reading, Fail, OthersEdit, Returned
<1> QED
  BY <1>1, <1>2, <1>3

\* Every step keeps BatchInd: a page is added only while there is room for it.
LEMMA BatchStep ==
  ASSUME TreeOK, BatchInd, [Next]_vars
  PROVE  BatchInd'
<1> SUFFICES ASSUME mode' = "batch" PROVE BatchInd'
  BY DEF BatchInd
<1>0. mode = "batch"
  BY DEF Next, vars, readVars, ReadsNext, ReadStat, ReadFailsLate, ReadPage, BatchPage, RepoStat,
         RepoRead, ReadCancelled, Fail, Answered, OthersEdit, Returned
<1>1. CASE BatchPage
  <2> DEFINE c == content[paths[1]]
             payload == IF ModelBytes > Reserve THEN ModelBytes - Reserve ELSE 0
             left == IF payload > Total(pages) THEN payload - Total(pages) ELSE 0
             q == Fit(Got(Page(c, offset, limit)), left)
             ps == Append(pages, q)
             enough == left >= Reserve /\ Total(ps) <= payload
  <2>1. /\ pages \in Seq(KeptPage) /\ paths \in Seq(Files) /\ limit \in Nat \ {0} /\ offset = 1
        /\ pages = <<>> \/ Total(pages) + Reserve <= ModelBytes
    BY <1>0 DEF BatchInd
  <2>2. paths # <<>> /\ ~Unreadable(paths[1])
    BY <1>1 DEF BatchPage, Reading
  <2>3. paths[1] \in Files
    BY <2>1, <2>2
  <2>4. c \in Contents
    <3>1. c \in Contents \cup {NoFile}
      BY <2>3 DEF TreeOK
    <3> QED
      BY <2>2, <3>1 DEF Unreadable
  <2>5. ModelBytes \in Nat \ {0} /\ Reserve \in Nat
    BY TreeAssumption, ReadAssumption
  <2>6. payload \in Nat /\ Total(pages) \in Nat
    BY <2>1, <2>5, TotalNat
  <2>7. left \in Nat
    BY <2>6
  <2>8. /\ pages' = IF enough THEN ps ELSE pages
        /\ paths' = IF enough THEN Tail(paths) ELSE paths
        /\ limit' = limit /\ offset' = offset
    BY <1>1 DEF BatchPage
  <2>9. q \in KeptPage
    <3>1. offset \in Nat \ {0} /\ limit \in Nat \ {0}
      BY <2>1
    <3> HIDE DEF c, left, q
    <3> QED
      BY <2>3, <2>4, <2>7, <3>1, AnswerIs DEF q
  <2> HIDE DEF q, left, c
  <2>10a. ps \in Seq(KeptPage)
    BY <2>1, <2>9
  <2>10. Total(ps) \in Nat
    <3> HIDE DEF ps
    <3> QED
      BY <2>10a, TotalNat
  <2> HIDE DEF ps
  <2>11. enough => Total(ps) + Reserve <= ModelBytes
    <3>1. Total(pages) \in Nat /\ Total(ps) \in Nat
      BY <2>6, <2>10
    <3>2. enough => ModelBytes > Reserve
      BY <2>5, <2>6, <3>1 DEF left
    <3> QED
      BY <2>5, <3>1, <3>2
  <2>12. paths' \in Seq(Files)
    BY <2>1, <2>2, <2>8
  <2>13. pages' = <<>> \/ Total(pages)' + Reserve <= ModelBytes
    <3>1. CASE enough
      <4>1. Total(pages)' = Total(ps)
        BY <2>8, <3>1 DEF Total, PageBytes, JsonSize
      <4> QED
        BY <2>11, <3>1, <4>1
    <3>2. CASE ~enough
      <4>1. Total(pages)' = Total(pages) /\ pages' = pages
        BY <2>8, <3>2 DEF Total, PageBytes, JsonSize
      <4>2. pages = <<>> \/ Total(pages) + Reserve <= ModelBytes
        BY <2>1, Zenon
      <4> QED
        BY <4>1, <4>2, Zenon
    <3> QED
      BY <3>1, <3>2
  <2>14. pages' \in Seq(KeptPage)
    BY <2>1, <2>8, <2>10a
  <2> QED
    BY <2>1, <2>8, <2>12, <2>13, <2>14 DEF BatchInd
<1>2. CASE UNCHANGED <<mode, paths, limit, offset, pages>>
  BY <1>0, <1>2 DEF BatchInd, Total, PageBytes, JsonSize
<1>3. ~BatchPage => UNCHANGED <<mode, paths, limit, offset, pages>>
  BY <1>0 DEF Next, vars, readVars, ReadsNext, ReadStat, ReadFailsLate, ReadPage, RepoStat,
              RepoRead, ReadCancelled, Reading, Fail, OthersEdit, Returned
<1> QED
  BY <1>1, <1>2, <1>3

\* A client that follows next_offset sees each unit of an unchanged content once
\* and in order, and all of them when there is no more (Read, fitMCPRead).
THEOREM PagesComposed == Spec => []PagesCompose
<1>1. Init => TreeOK /\ PageInd
  BY PagesInit DEF Init, TreeInit, TreeOK
<1>2. TreeOK /\ PageInd /\ [Next]_vars => TreeOK' /\ PageInd'
  BY TreeStep, PageStep
<1>3. PageInd => PagesCompose
  <2> DEFINE c == pages[1].of
             n == Len(pages)
             size == Units(c)
  <2> SUFFICES ASSUME PageInd, mode = "page", pages # <<>>, \A i \in DOMAIN pages : pages[i].of = c
               PROVE  /\ pages[1].from = 1
                      /\ \A i \in 2..n : pages[i].from = pages[i - 1].to + 1
                      /\ \A i \in DOMAIN pages :
                           pages[i].to < Units(pages[i].of) =>
                             pages[i].truncated /\ pages[i].next = pages[i].to + 1
                      /\ outcome = "done" => Last(pages).to = size
    BY DEF PagesCompose
  <2>1. pages \in Seq(KeptPage) /\ n \in Nat \ {0} /\ DOMAIN pages = 1..n
    BY DEF PageInd
  <2>2. \A i \in 1..n : pages[i] \in KeptPage /\ pages[i].of = c
    BY <2>1
  <2>3. c \in Contents
    BY <2>1, <2>2 DEF KeptPage
  <2>4. size \in Nat
    BY <2>3, UnitsNat
  <2>5. \A i \in 1..n :
          /\ pages[i].from \in Nat /\ pages[i].to \in Nat /\ pages[i].to <= size
          /\ pages[i].next = IF pages[i].to < size THEN pages[i].to + 1 ELSE 0
          /\ pages[i].to < size => pages[i].truncated
    BY <2>2 DEF KeptPage, GoodPage, Ranged
  <2>6. \A i \in 1..n : NextOffset(i - 1) \in Nat \ {0} /\ pages[i].from = Start(c, NextOffset(i - 1))
    BY <2>1, <2>2 DEF PageInd
  <2> HIDE DEF c, n, size
  <2>7. pages[1].from = 1
    BY <2>1, <2>4, <2>6 DEF NextOffset, Start, size
  <2>8. ASSUME NEW i \in 2..n PROVE pages[i].from = pages[i - 1].to + 1
    <3>1. i \in 1..n /\ i - 1 \in 1..n /\ i - 1 # 0
      BY <2>1
    <3>2. NextOffset(i - 1) = pages[i - 1].next /\ pages[i - 1].next # 0
      BY <2>6, <3>1 DEF NextOffset
    <3>3. pages[i - 1].next = pages[i - 1].to + 1 /\ pages[i - 1].to < size /\ pages[i - 1].to \in Nat
      BY <2>5, <3>1, <3>2
    <3>4. pages[i].from = Start(c, pages[i - 1].next)
      BY <2>6, <3>1, <3>2
    <3> QED
      BY <2>4, <3>3, <3>4 DEF Start, size
  <2>9. ASSUME outcome = "done" PROVE Last(pages).to = size
    <3>1. Last(pages) = pages[n] /\ n \in 1..n
      BY <2>1 DEF Last, n
    <3>2. pages[n].next = 0
      BY <2>9 DEF PageInd, n
    <3> QED
      BY <2>4, <2>5, <3>1, <3>2
  <2>10. \A i \in DOMAIN pages :
          pages[i].to < Units(pages[i].of) => pages[i].truncated /\ pages[i].next = pages[i].to + 1
    BY <2>1, <2>2, <2>5 DEF size
  <2> QED
    BY <2>7, <2>8, <2>9, <2>10
<1> QED
  BY <1>1, <1>2, <1>3, PTL DEF Spec

\* Where the budget of an answer exceeds what is set aside for the metadata, no
\* answer with content is over it; a client stalls only at a line that no page
\* can hold, and read_many keeps its reserve (fitMCPRead, mcpReadMany).
THEOREM PagesAreCut ==
  ASSUME Headroom < ModelBytes
  PROVE  Spec => []PagesFit
<1>1. Init => TreeOK /\ PageInd /\ BatchInd
  BY PagesInit DEF Init, TreeInit, TreeOK
<1>2. TreeOK /\ PageInd /\ BatchInd /\ [Next]_vars => TreeOK' /\ PageInd' /\ BatchInd'
  BY TreeStep, PageStep, BatchStep
<1>3. PageInd /\ BatchInd => PagesFit
  BY DEF PageInd, BatchInd, PagesFit, InBudget, Excused, Last
<1> QED
  BY <1>1, <1>2, <1>3, PTL DEF Spec

\* A sequence, whatever of.
IsSequence(s) == \E E : s \in Seq(E)

\* One sequence after another.
LEMMA Joined ==
  ASSUME NEW E, NEW a \in Seq(E), NEW b \in Seq(E)
  PROVE  /\ a \o b \in Seq(E) /\ Len(a \o b) = Len(a) + Len(b)
         /\ Len(a) \in Nat /\ Len(b) \in Nat /\ DOMAIN (a \o b) = 1..(Len(a) + Len(b))
         /\ \A i \in 1..(Len(a) + Len(b)) : (a \o b)[i] = IF i <= Len(a) THEN a[i] ELSE b[i - Len(a)]
OBVIOUS

\* Sets of a finite set that grow strictly, one for each member and with it: the
\* k-th of them has k members.
LEMMA RankOnto ==
  ASSUME NEW T, IsFiniteSet(T), NEW B \in [T -> SUBSET T],
         \A i \in T : i \in B[i],
         \A i, j \in T : i # j => (B[i] \subseteq B[j] /\ j \notin B[i]) \/ (B[j] \subseteq B[i] /\ i \notin B[j])
  PROVE  /\ Cardinality(T) \in Nat
         /\ \A i \in T : Cardinality(B[i]) \in 1..Cardinality(T)
         /\ \A i, j \in T : i # j => Cardinality(B[i]) # Cardinality(B[j])
         /\ \A k \in 1..Cardinality(T) : \E i \in T : Cardinality(B[i]) = k
<1> DEFINE n == Cardinality(T)
           f == [i \in T |-> Cardinality(B[i])]
<1>1. n \in Nat
  BY FS_CardinalityType
<1>2. \A i \in T : IsFiniteSet(B[i]) /\ Cardinality(B[i]) \in Nat /\ Cardinality(B[i]) <= n
  BY FS_Subset, FS_CardinalityType
<1>3. \A i \in T : Cardinality(B[i]) \in 1..n
  <2> TAKE i \in T
  <2>1. Cardinality(B[i]) # 0
    BY <1>2, FS_EmptySet
  <2> QED
    BY <1>1, <1>2, <2>1
<1>4. ASSUME NEW i \in T, NEW j \in T, i # j PROVE f[i] # f[j]
  <2>1. \A x, y \in T : B[x] \subseteq B[y] /\ y \notin B[x] => Cardinality(B[x]) # Cardinality(B[y])
    <3> SUFFICES ASSUME NEW x \in T, NEW y \in T, B[x] \subseteq B[y], y \notin B[x],
                        Cardinality(B[x]) = Cardinality(B[y])
                 PROVE  FALSE
      OBVIOUS
    <3>1. B[x] = B[y]
      BY <1>2, FS_Subset
    <3> QED
      BY <3>1
  <2> QED
    BY <1>4, <2>1
<1>5. ASSUME NEW k \in 1..n, \A i \in T : f[i] # k PROVE FALSE
  <2> DEFINE U == (1..n) \ {k}
  <2>1. IsFiniteSet(1..n) /\ Cardinality(1..n) = n
    BY <1>1, FS_Interval
  <2>2. IsFiniteSet(U) /\ Cardinality(U) = n - 1
    BY <2>1, FS_RemoveElement
  <2>3. f \in [T -> U]
    BY <1>3, <1>5
  <2> HIDE DEF U, f
  <2>4. Cardinality(U) < Cardinality(T)
    BY <1>1, <2>2
  <2> QED
    BY <1>4, <2>2, <2>3, <2>4, FS_PigeonHole
<1>6. \A k \in 1..n : \E i \in T : f[i] = k
  BY <1>5
<1> QED
  BY <1>1, <1>3, <1>4, <1>6

\* A finite set of numbers, in order.
LEMMA AscendingIs ==
  ASSUME NEW T, IsFiniteSet(T), T \subseteq Nat
  PROVE  /\ Cardinality(T) \in Nat
         /\ Ascending(T) \in [1..Cardinality(T) -> T]
         /\ Ascending(T) \in Seq(T) /\ Len(Ascending(T)) = Cardinality(T)
         /\ \A i, j \in 1..Cardinality(T) : i < j => Ascending(T)[i] < Ascending(T)[j]
         /\ \A x \in T : \E k \in 1..Cardinality(T) : Ascending(T)[k] = x
         /\ \A k \in 1..Cardinality(T) : Cardinality({m \in T : m <= Ascending(T)[k]}) = k
<1> DEFINE n == Cardinality(T)
           s == Ascending(T)
           B == [i \in T |-> {m \in T : m <= i}]
<1>1. \A i \in T : i \in B[i] /\ B[i] \in SUBSET T
  OBVIOUS
<1>2. ASSUME NEW i \in T, NEW j \in T, i < j
      PROVE  B[i] \subseteq B[j] /\ j \notin B[i] /\ i \in B[j]
  <2>1. i \in Nat /\ j \in Nat /\ ~(j <= i) /\ i <= j
    BY <1>2
  <2>2. ASSUME NEW m \in T, m <= i PROVE m <= j
    <3>1. m \in Nat
      OBVIOUS
    <3> QED
      BY <2>1, <2>2, <3>1
  <2> QED
    BY <2>1, <2>2
<1>2a. \A i, j \in T : i # j => i < j \/ j < i
  <2> SUFFICES ASSUME NEW i \in T, NEW j \in T, i # j PROVE i < j \/ j < i
    OBVIOUS
  <2>1. i \in Nat /\ j \in Nat
    OBVIOUS
  <2> QED
    BY <2>1
<1>3. /\ n \in Nat
      /\ \A i \in T : Cardinality(B[i]) \in 1..n
      /\ \A i, j \in T : i # j => Cardinality(B[i]) # Cardinality(B[j])
      /\ \A k \in 1..n : \E i \in T : Cardinality(B[i]) = k
  <2>1. B \in [T -> SUBSET T]
    OBVIOUS
  <2>2. \A i, j \in T : i # j => (B[i] \subseteq B[j] /\ j \notin B[i]) \/ (B[j] \subseteq B[i] /\ i \notin B[j])
    BY <1>2, <1>2a
  <2> HIDE DEF B
  <2> QED
    BY <1>1, <2>1, <2>2, RankOnto
<1>4. \A k \in 1..n : s[k] = CHOOSE i \in T : Cardinality({m \in T : m <= i}) = k
  BY DEF Ascending, Kth
<1>5. ASSUME NEW k \in 1..n PROVE s[k] \in T /\ Cardinality(B[s[k]]) = k
  <2>1. \E i \in T : Cardinality({m \in T : m <= i}) = k
    BY <1>3
  <2>2. s[k] \in T /\ Cardinality({m \in T : m <= s[k]}) = k
    BY <1>4, <2>1
  <2> QED
    BY <2>2
<1>6. s = [k \in 1..n |-> s[k]]
  BY DEF Ascending
<1>7. s \in [1..n -> T]
  <2> HIDE DEF s
  <2> QED
    BY <1>5, <1>6
<1>7a. \A k \in 1..n : Cardinality({m \in T : m <= s[k]}) = k
  BY <1>5
<1> HIDE DEF n, s
<1>8. s \in Seq(T) /\ Len(s) = n
  BY <1>3, <1>7
<1>9. \A x \in T : \E k \in 1..n : s[k] = x
  <2> TAKE x \in T
  <2>1. Cardinality(B[x]) \in 1..n
    BY <1>3
  <2>2. s[Cardinality(B[x])] = x
    BY <1>3, <1>5, <2>1
  <2> QED
    BY <2>1, <2>2
<1>10. ASSUME NEW i \in 1..n, NEW j \in 1..n, i < j PROVE s[i] < s[j]
  <2> SUFFICES ASSUME ~(s[i] < s[j]) PROVE FALSE
    OBVIOUS
  <2>0. s[i] \in T /\ s[j] \in T /\ s[i] \in Nat /\ s[j] \in Nat
    BY <1>5
  <2>1. B[s[j]] \subseteq B[s[i]]
    <3>1. s[j] <= s[i]
      BY <2>0
    <3>2. ASSUME NEW m \in T, m <= s[j] PROVE m <= s[i]
      <4>1. m \in Nat
        OBVIOUS
      <4> QED
        BY <2>0, <3>1, <3>2, <4>1
    <3> QED
      BY <2>0, <3>2
  <2>2. IsFiniteSet(B[s[i]])
    <3>1. B[s[i]] \in SUBSET T
      BY <1>1, <2>0
    <3> HIDE DEF B
    <3> QED
      BY <3>1, FS_Subset
  <2>3. Cardinality(B[s[j]]) <= Cardinality(B[s[i]])
    <3> HIDE DEF B
    <3> QED
      BY <2>1, <2>2, FS_Subset
  <2> QED
    BY <1>3, <1>5, <1>10, <2>3
<1> QED
  BY <1>3, <1>7, <1>7a, <1>8, <1>9, <1>10 DEF n, s

-----------------------------------------------------------------------------
(* The directories above a node. *)

\* A node comes after the directory it is in.
LEMMA ParentIs ==
  ASSUME NEW n \in Nodes
  PROVE  /\ n \in Nat /\ n # 0 /\ Tree[n].parent \in Nat /\ Tree[n].parent < n
         /\ Tree[n].parent \in Dirs /\ Tree[n].parent \in Nodes \cup {0}
<1>1. n \in Nat \ {0} /\ Tree[n].parent \in Dirs \cap 0..(n - 1)
  BY TreeAssumption
<1> QED
  BY <1>1 DEF Dirs

\* What holds of the root, and of a node if it does of its directory, holds of all.
LEMMA FromRoot ==
  ASSUME NEW S, 0 \in S, \A n \in Nodes : Tree[n].parent \in S => n \in S
  PROVE  Nodes \cup {0} \subseteq S
<1> DEFINE Bad == (Nodes \cup {0}) \ S
<1> SUFFICES ASSUME Bad # {} PROVE FALSE
  OBVIOUS
<1>1. Bad \subseteq Nat
  BY ParentIs
<1>2. PICK n \in Bad : \A m \in Bad : n <= m
  <2> HIDE DEF Bad
  <2> QED
    BY <1>1, Smallest
<1>3. n \in Nodes /\ Tree[n].parent \notin S
  OBVIOUS
<1>4. Tree[n].parent \in Bad /\ n \in Nat /\ Tree[n].parent \in Nat /\ Tree[n].parent < n
  BY <1>3, ParentIs
<1> QED
  BY <1>2, <1>4

Below(N) == {n \in Nodes \cup {0} : n <= N}
AboveTo(N, g) ==
  g = [n \in Below(N) |-> IF n = 0 THEN {} ELSE {Tree[n].parent} \cup g[Tree[n].parent]]

\* The recursion of Above is well-founded.
LEMMA AboveIs ==
  Above = [n \in Nodes \cup {0} |-> IF n = 0 THEN {} ELSE {Tree[n].parent} \cup Above[Tree[n].parent]]
<1> DEFINE Bad == {N \in Nat : ~\E g : AboveTo(N, g)}
<1>1. 0 \notin Bad
  <2> DEFINE g == [n \in Below(0) |-> {}]
  <2>1. \A n \in Below(0) : n = 0
    BY ParentIs DEF Below
  <2>2. AboveTo(0, g)
    BY <2>1 DEF AboveTo
  <2> QED
    BY <2>2
<1>2. ASSUME NEW N \in Nat, N \notin Bad PROVE N + 1 \notin Bad
  <2>1. PICK g : AboveTo(N, g)
    BY <1>2
  <2> DEFINE h == [n \in Below(N + 1) |->
                     IF n \in Below(N) THEN g[n] ELSE {Tree[n].parent} \cup g[Tree[n].parent]]
  <2>2. ASSUME NEW n \in Below(N + 1), n # 0 PROVE Tree[n].parent \in Below(N) /\ Tree[n].parent \in Below(N + 1)
    <3>1. n \in Nodes /\ n <= N + 1
      BY <2>2 DEF Below
    <3>2. n \in Nat /\ Tree[n].parent \in Nat /\ Tree[n].parent < n /\ Tree[n].parent \in Nodes \cup {0}
      BY <3>1, ParentIs
    <3>3. Tree[n].parent <= N /\ Tree[n].parent <= N + 1
      BY <3>1, <3>2
    <3> QED
      BY <3>2, <3>3 DEF Below
  <2>3. 0 \in Below(N)
    BY DEF Below
  <2>4. \A n \in Below(N) : g[n] = IF n = 0 THEN {} ELSE {Tree[n].parent} \cup g[Tree[n].parent]
    BY <2>1 DEF AboveTo
  <2>5. \A n \in Below(N + 1) : h[n] = IF n = 0 THEN {} ELSE {Tree[n].parent} \cup h[Tree[n].parent]
    BY <2>2, <2>3, <2>4
  <2>6. h = [n \in Below(N + 1) |-> h[n]]
    OBVIOUS
  <2> HIDE DEF h
  <2>7. AboveTo(N + 1, h)
    BY <2>5, <2>6 DEF AboveTo
  <2> QED
    BY <2>7
<1>3. Bad = {}
  <2> SUFFICES ASSUME Bad # {} PROVE FALSE
    OBVIOUS
  <2>1. PICK n \in Bad : \A m \in Bad : n <= m
    BY Smallest
  <2>2. n \in Nat /\ n # 0
    BY <1>1
  <2>3. n - 1 \in Nat /\ n - 1 \notin Bad
    BY <2>1, <2>2
  <2> QED
    BY <1>2, <2>2, <2>3
<1>4. PICK N \in Nat : \A n \in Nodes : n <= N
  <2>1. IsFiniteSet(Nodes) /\ Nodes \subseteq Nat
    BY TreeAssumption
  <2>2. CASE Nodes = {}
    BY <2>2
  <2>3. CASE Nodes # {}
    <3> DEFINE s == Ascending(Nodes)
               k == Cardinality(Nodes)
    <3>1. /\ k \in Nat /\ s \in [1..k -> Nodes]
          /\ \A i, j \in 1..k : i < j => s[i] < s[j]
          /\ \A x \in Nodes : \E i \in 1..k : s[i] = x
      BY <2>1, AscendingIs
    <3> HIDE DEF s, k
    <3>2. k \in 1..k
      BY <2>3, <3>1
    <3>3. ASSUME NEW n \in Nodes PROVE n <= s[k]
      <4>1. PICK i \in 1..k : s[i] = n
        BY <3>1
      <4>2. i = k \/ i < k
        BY <3>2
      <4>3. n \in Nat /\ s[k] \in Nat /\ (n = s[k] \/ n < s[k])
        BY <2>1, <3>1, <3>2, <4>1, <4>2
      <4> QED
        BY <4>3
    <3> QED
      BY <2>1, <3>1, <3>2, <3>3
  <2> QED
    BY <2>2, <2>3
<1>5. Below(N) = Nodes \cup {0}
  BY <1>4 DEF Below
<1>6. PICK g : AboveTo(N, g)
  BY <1>3
<1>7. g = [n \in Nodes \cup {0} |-> IF n = 0 THEN {} ELSE {Tree[n].parent} \cup g[Tree[n].parent]]
  BY <1>5, <1>6 DEF AboveTo
<1> QED
  BY <1>7 DEF Above

\* Above a node is its directory, and what is above that.
LEMMA AboveStep ==
  /\ Above[0] = {} /\ Upto(0) = {0}
  /\ \A n \in Nodes : Above[n] = Upto(Tree[n].parent) /\ Above[n] = {Tree[n].parent} \cup Above[Tree[n].parent]
<1>1. \A n \in Nodes \cup {0} :
        Above[n] = IF n = 0 THEN {} ELSE {Tree[n].parent} \cup Above[Tree[n].parent]
  BY AboveIs, Zenon
<1>2. Above[0] = {} /\ Upto(0) = {0}
  BY <1>1 DEF Upto
<1>3. ASSUME NEW n \in Nodes PROVE Above[n] = {Tree[n].parent} \cup Above[Tree[n].parent]
  <2>1. n # 0 /\ n \in Nodes \cup {0}
    BY ParentIs
  <2> QED
    BY <1>1, <2>1, Zenon
<1>4. \A n \in Nodes : {Tree[n].parent} \cup Above[Tree[n].parent] = Upto(Tree[n].parent)
  BY DEF Upto
<1> QED
  BY <1>2, <1>3, <1>4, Zenon

\* What is above a node are directories before it, the root with them.
LEMMA AboveIn ==
  ASSUME NEW n \in Nodes \cup {0}
  PROVE  /\ \A d \in Above[n] : d \in Dirs /\ d \in Nodes \cup {0} /\ d \in Nat /\ d < n
         /\ n # 0 => 0 \in Above[n]
         /\ n \notin Above[n]
<1> DEFINE Good(m) == /\ \A d \in Above[m] : d \in Dirs /\ d \in Nodes \cup {0} /\ d \in Nat /\ d < m
                      /\ m # 0 => 0 \in Above[m]
           S == {m \in Nodes \cup {0} : Good(m)}
<1>1. 0 \in S
  BY AboveStep
<1>2. ASSUME NEW m \in Nodes, Tree[m].parent \in S PROVE m \in S
  <2> DEFINE p == Tree[m].parent
  <2>1. /\ Above[m] = {p} \cup Above[p]
        /\ m \in Nat /\ p \in Nat /\ p < m /\ p \in Dirs /\ p \in Nodes \cup {0}
    BY AboveStep, ParentIs
  <2>2. /\ \A d \in Above[p] : d \in Dirs /\ d \in Nodes \cup {0} /\ d \in Nat /\ d < p
        /\ p # 0 => 0 \in Above[p]
    BY <1>2
  <2> HIDE DEF p
  <2>3. \A d \in Above[m] : d \in Dirs /\ d \in Nodes \cup {0} /\ d \in Nat /\ d < m
    BY <2>1, <2>2
  <2>4. 0 \in Above[m]
    BY <2>1, <2>2
  <2> QED
    BY <2>3, <2>4
<1>3. Nodes \cup {0} \subseteq S
  <2> HIDE DEF S
  <2> QED
    BY <1>1, <1>2, FromRoot
<1>4. Good(n)
  BY <1>3
<1>5. n \notin Above[n]
  <2>1. ~(n < n)
    BY ParentIs
  <2> QED
    BY <1>4, <2>1
<1> QED
  BY <1>4, <1>5

\* What is above a directory is above what the directory is above.
LEMMA AboveAbove ==
  ASSUME NEW n \in Nodes \cup {0}, NEW m \in Above[n]
  PROVE  Above[m] \subseteq Above[n]
<1> DEFINE S == {x \in Nodes \cup {0} : \A y \in Above[x] : Above[y] \subseteq Above[x]}
<1>1. 0 \in S
  BY AboveStep
<1>2. ASSUME NEW x \in Nodes, Tree[x].parent \in S PROVE x \in S
  BY <1>2, AboveStep
<1>3. Nodes \cup {0} \subseteq S
  <2> HIDE DEF S
  <2> QED
    BY <1>1, <1>2, FromRoot
<1> QED
  BY <1>3

\* Of two nodes on the path to a third, the first is above the other.
LEMMA OnePath ==
  ASSUME NEW n \in Nodes \cup {0}, NEW x \in Upto(n), NEW y \in Upto(n)
  PROVE  x = y \/ x \in Above[y] \/ y \in Above[x]
<1> DEFINE S == {z \in Nodes \cup {0} : \A u, v \in Upto(z) : u = v \/ u \in Above[v] \/ v \in Above[u]}
<1>1. 0 \in S
  BY AboveStep
<1>2. ASSUME NEW z \in Nodes, Tree[z].parent \in S PROVE z \in S
  BY <1>2, AboveStep DEF Upto
<1>3. Nodes \cup {0} \subseteq S
  <2> HIDE DEF S
  <2> QED
    BY <1>1, <1>2, FromRoot
<1> QED
  BY <1>3

\* Two nodes of one directory have nothing below them in common.
LEMMA SiblingsApart ==
  ASSUME NEW n \in Nodes \cup {0}, NEW x \in Nodes, NEW y \in Nodes,
         Tree[x].parent = Tree[y].parent, x \in Upto(n), y \in Upto(n)
  PROVE  x = y
<1>1. ASSUME NEW a \in Nodes, NEW b \in Nodes, Tree[a].parent = Tree[b].parent, a \in Above[b]
      PROVE  FALSE
  <2> DEFINE p == Tree[a].parent
  <2>1. a \in {p} \cup Above[p] /\ p \in Nodes \cup {0} /\ p \in Nat /\ a \in Nat /\ p < a
    BY <1>1, AboveStep, ParentIs
  <2> HIDE DEF p
  <2>2. a < p
    BY <2>1, AboveIn
  <2> QED
    BY <2>1, <2>2
<1> QED
  BY <1>1, OnePath

\* On the path from a directory to a node below it the first is an entry of it.
LEMMA EntryAbove ==
  ASSUME NEW n \in Nodes \cup {0}, NEW d \in Above[n]
  PROVE  \E c \in Nodes : c \in Upto(n) /\ Tree[c].parent = d
<1> DEFINE S == {x \in Nodes \cup {0} : \A y \in Above[x] : \E c \in Nodes : c \in Upto(x) /\ Tree[c].parent = y}
<1>1. 0 \in S
  BY AboveStep
<1>2. ASSUME NEW x \in Nodes, Tree[x].parent \in S PROVE x \in S
  BY <1>2, AboveStep DEF Upto
<1>3. Nodes \cup {0} \subseteq S
  <2> HIDE DEF S
  <2> QED
    BY <1>1, <1>2, FromRoot
<1> QED
  BY <1>3

-----------------------------------------------------------------------------
(* What List, Find and Search answer: no node is lost on the way. *)

\* The nodes that a task of the walk will come to.
Covers(t, n) ==
  \/ t.op = "entry" /\ t.node \in Upto(n)
  \/ t.op = "open" /\ t.node \in Above[n]

\* The nodes on the way from the start to a node.
Way(m) == {x \in Upto(m) : request.start \in Above[x]}

Reached(t) ==
  \/ t.op = "more"
  \/ /\ t.op = "open" /\ t.node \in Dirs /\ t.node \in Nodes \cup {0}
     /\ request.start \in Upto(t.node) /\ t.depth = Cardinality(Way(t.node))
  \/ /\ t.op = "entry" /\ t.node \in Nodes
     /\ request.start \in Above[t.node] /\ t.depth = Cardinality(Way(t.node))

Lists(xs, n) == \E k \in DOMAIN xs : xs[k].node = n

\* The tasks have nothing in common, neither with each other nor with the items.
Apart(todo) ==
  \A n \in Nodes : \A i, j \in DOMAIN todo : Covers(todo[i], n) /\ Covers(todo[j], n) => i = j
ApartFrom(todo, xs) == \A k \in DOMAIN xs : \A i \in DOMAIN todo : ~Covers(todo[i], xs[k].node)

ItemsOnce(xs) ==
  /\ IsSequence(xs)
  /\ \A k \in DOMAIN xs : /\ xs[k].node \in Nodes
                          /\ xs[k].node \notin touched => xs[k].size = NodeSize(xs[k].node)
  /\ \A i, j \in DOMAIN xs : i # j => xs[i].node # xs[j].node

\* What the walk should come to is an item, or a task will come to it.
Complete(todo, xs) ==
  (\A i \in DOMAIN todo : todo[i].op # "more") =>
    \A n \in Nodes \ touched :
      Exists(n) /\ Eligible(n) => Lists(xs, n) \/ \E i \in DOMAIN todo : Covers(todo[i], n)

Walking(todo, xs, truncated) ==
  /\ IsSequence(todo)
  /\ \A i \in DOMAIN todo : Reached(todo[i])
  /\ ItemsOnce(xs)
  /\ Apart(todo) /\ ApartFrom(todo, xs)
  /\ ~truncated => Complete(todo, xs)

HitsShown(n, ms) ==
  \A l \in DOMAIN content[n].lines :
    content[n].lines[l].spans > 0 => \E i \in DOMAIN ms : ms[i].node = n /\ ms[i].line = l

\* A match shows a file that is no longer an item, and no line twice.
Matching(xs, ms, truncated, stop) ==
  /\ ItemsOnce(xs)
  /\ IsSequence(ms)
  /\ \A i, j \in DOMAIN ms : i # j => ms[i].node # ms[j].node \/ ms[i].line # ms[j].line
  /\ \A i \in DOMAIN ms : ~Lists(xs, ms[i].node)
  /\ ~truncated /\ ~stop =>
       \A n \in Nodes \ touched :
         Exists(n) /\ Eligible(n) /\ Searchable(n) => Lists(xs, n) \/ HitsShown(n, ms)

WalkTree ==
  stage \notin {"off", "failed"} =>
    /\ request.start \in Nodes \cup {0} /\ request.depth \in Nat
    /\ stage = "start" => walk.todo = <<>> /\ walk.items = <<>>
    /\ stage \in {"start", "walk"} => found = <<>> /\ cut = FALSE
    /\ stage = "walk" => Walking(walk.todo, walk.items, walk.truncated)
    /\ stage = "search" => Matching(walk.items, found, walk.truncated, cut)
    /\ NothingLostSilently

\* A walk starts with nothing lost.
LEMMA WalkTreeInit == Init => WalkTree
<1> SUFFICES ASSUME Init, stage \notin {"off", "failed"} PROVE WalkTree
  BY DEF WalkTree
<1>1. WalkInit
  BY DEF Init, WalkOff
<1>2. /\ request \in Requests /\ stage = "start" /\ found = <<>> /\ cut = FALSE
      /\ walk = [todo |-> <<>>, items |-> <<>>, scanned |-> 0, bytes |-> 0, truncated |-> FALSE]
  BY <1>1 DEF WalkInit
<1>3. request.start \in Nodes \cup {0} /\ request.depth \in WalkDepths \cup {Cardinality(Nodes)}
  BY <1>2 DEF Requests
<1>4. request.depth \in Nat
  <2>1. IsFiniteSet(Nodes) /\ WalkDepths \subseteq Nat
    BY TreeAssumption, WalkAssumption
  <2> QED
    BY <1>3, <2>1, FS_CardinalityType
<1>5. NothingLostSilently
  BY <1>2 DEF NothingLostSilently
<1>6. walk.todo = <<>> /\ walk.items = <<>>
  BY <1>2
<1> QED
  BY <1>2, <1>3, <1>4, <1>5, <1>6 DEF WalkTree

\* A list w is a list u with others, v, in the place of its first.
Replaced(w, v, u) ==
  /\ IsSequence(w) /\ Len(v) \in Nat /\ DOMAIN w \subseteq Nat
  /\ Head(u) = u[1] /\ 1 \in DOMAIN u
  /\ \A i \in DOMAIN v : i \in DOMAIN w /\ w[i] = v[i]
  /\ \A i \in DOMAIN u : i # 1 => \E j \in DOMAIN w : w[j] = u[i]
  /\ \A i \in DOMAIN w :
       \/ i \in DOMAIN v /\ w[i] = v[i]
       \/ /\ i \notin DOMAIN v /\ i - Len(v) \in Nat
          /\ i - Len(v) + 1 \in DOMAIN u /\ i - Len(v) + 1 # 1 /\ w[i] = u[i - Len(v) + 1]

\* The first of a list of tasks is replaced by others.
LEMMA HeadReplaced ==
  ASSUME NEW u, NEW v, IsSequence(u), IsSequence(v), u # <<>>, NEW w, w = v \o Tail(u)
  PROVE  Replaced(w, v, u)
<1> DEFINE t == Tail(u)
<1>0. w = v \o t
  OBVIOUS
<1>0a. PICK D : u \in Seq(D)
  BY DEF IsSequence
<1>0b. PICK E : v \in Seq(E)
  BY DEF IsSequence
<1>1. /\ Len(u) \in Nat \ {0} /\ Len(v) \in Nat /\ DOMAIN u = 1..Len(u) /\ DOMAIN v = 1..Len(v)
      /\ t \in Seq(D) /\ Len(t) = Len(u) - 1 /\ Head(u) = u[1]
  BY <1>0a, <1>0b
<1>2. \A i \in 1..(Len(u) - 1) : t[i] = u[i + 1]
  BY <1>0a
<1> HIDE DEF t
<1>3. v \in Seq(D \cup E) /\ t \in Seq(D \cup E)
  BY <1>0b, <1>1
<1>4a. /\ v \o t \in Seq(D \cup E) /\ Len(v \o t) = Len(v) + Len(t) /\ DOMAIN (v \o t) = 1..(Len(v) + Len(t))
       /\ \A i \in 1..(Len(v) + Len(t)) : (v \o t)[i] = IF i <= Len(v) THEN v[i] ELSE t[i - Len(v)]
  BY <1>3, Joined
<1>4b. Len(v) + Len(t) = Len(v) + Len(u) - 1
  BY <1>1
<1>4. w \in Seq(D \cup E) /\ Len(w) = Len(v) + Len(u) - 1 /\ DOMAIN w = 1..(Len(v) + Len(u) - 1)
  BY <1>0, <1>4a, <1>4b, Zenon
<1>5. \A i \in 1..(Len(v) + Len(u) - 1) : w[i] = IF i <= Len(v) THEN v[i] ELSE t[i - Len(v)]
  BY <1>0, <1>4a, <1>4b, Zenon
<1>6. \A i \in DOMAIN v : i \in DOMAIN w /\ w[i] = v[i]
  BY <1>1, <1>4, <1>5
<1>7. ASSUME NEW i \in DOMAIN u, i # 1 PROVE \E j \in DOMAIN w : w[j] = u[i]
  <2> DEFINE j == Len(v) + i - 1
  <2>1. j \in DOMAIN w /\ ~(j <= Len(v)) /\ j - Len(v) = i - 1 /\ i - 1 \in 1..(Len(u) - 1) /\ (i - 1) + 1 = i
    BY <1>1, <1>4, <1>7
  <2>2. w[j] = t[i - 1] /\ t[i - 1] = u[i]
    BY <1>2, <1>4, <1>5, <2>1
  <2> QED
    BY <2>1, <2>2
<1>8. ASSUME NEW i \in DOMAIN w, i \notin DOMAIN v
      PROVE  i - Len(v) \in Nat /\ i - Len(v) + 1 \in DOMAIN u /\ i - Len(v) + 1 # 1 /\ w[i] = u[i - Len(v) + 1]
  <2>1. ~(i <= Len(v)) /\ i - Len(v) \in 1..(Len(u) - 1)
    BY <1>1, <1>4, <1>8
  <2>2. w[i] = t[i - Len(v)] /\ t[i - Len(v)] = u[i - Len(v) + 1]
    BY <1>2, <1>4, <1>5, <2>1
  <2> QED
    BY <1>1, <2>1, <2>2
<1>9. 1 \in DOMAIN u /\ IsSequence(w) /\ DOMAIN w \subseteq Nat
  BY <1>1, <1>4 DEF IsSequence
<1> QED
  BY <1>1, <1>6, <1>7, <1>8, <1>9 DEF Replaced

\* The first task is replaced by tasks for a part of what it would come to.
LEMMA TaskReplaced ==
  ASSUME NEW u, NEW v, NEW xs, IsSequence(u), IsSequence(v), u # <<>>,
         \A i \in DOMAIN u : Reached(u[i]), \A i \in DOMAIN v : Reached(v[i]),
         Apart(u), ApartFrom(u, xs), \A k \in DOMAIN xs : xs[k].node \in Nodes,
         \A n \in Nodes : \A i \in DOMAIN v : Covers(v[i], n) => Covers(Head(u), n),
         Apart(v), NEW w, w = v \o Tail(u)
  PROVE  /\ \A i \in DOMAIN w : Reached(w[i])
         /\ Apart(w)
         /\ ApartFrom(w, xs)
<1>0. Replaced(w, v, u)
  BY HeadReplaced
<1>1. /\ Len(v) \in Nat /\ DOMAIN w \subseteq Nat
      /\ Head(u) = u[1] /\ 1 \in DOMAIN u
      /\ \A i \in DOMAIN w :
           \/ i \in DOMAIN v /\ w[i] = v[i]
           \/ /\ i \notin DOMAIN v /\ i - Len(v) \in Nat
              /\ i - Len(v) + 1 \in DOMAIN u /\ i - Len(v) + 1 # 1 /\ w[i] = u[i - Len(v) + 1]
  BY <1>0 DEF Replaced
<1>2. \A i \in DOMAIN w : Reached(w[i])
  BY <1>1
<1>3. ASSUME NEW n \in Nodes, NEW i \in DOMAIN w, NEW j \in DOMAIN w, Covers(w[i], n), Covers(w[j], n)
      PROVE  i = j
  <2>1. CASE i \in DOMAIN v /\ j \in DOMAIN v
    <3>1. w[i] = v[i] /\ w[j] = v[j]
      BY <1>1, <2>1
    <3> QED
      BY <1>3, <2>1, <3>1 DEF Apart
  <2>2. \A a, b \in DOMAIN w : a \in DOMAIN v /\ Covers(w[a], n) /\ Covers(w[b], n) => b \in DOMAIN v
    <3> SUFFICES ASSUME NEW a \in DOMAIN w, NEW b \in DOMAIN w, a \in DOMAIN v, b \notin DOMAIN v,
                        Covers(w[a], n), Covers(w[b], n)
                 PROVE  FALSE
      OBVIOUS
    <3>1. w[a] = v[a] /\ Covers(u[1], n)
      BY <1>1
    <3>2. b - Len(v) + 1 \in DOMAIN u /\ b - Len(v) + 1 # 1 /\ w[b] = u[b - Len(v) + 1]
      BY <1>1
    <3> QED
      BY <1>1, <3>1, <3>2 DEF Apart
  <2>3. CASE i \notin DOMAIN v /\ j \notin DOMAIN v
    <3>1. /\ i - Len(v) + 1 \in DOMAIN u /\ w[i] = u[i - Len(v) + 1]
          /\ j - Len(v) + 1 \in DOMAIN u /\ w[j] = u[j - Len(v) + 1]
      BY <1>1, <2>3
    <3>2. i - Len(v) + 1 = j - Len(v) + 1
      BY <1>3, <3>1 DEF Apart
    <3>3. i \in Nat /\ j \in Nat
      BY <1>1
    <3> QED
      BY <1>1, <3>2, <3>3
  <2> QED
    BY <1>3, <2>1, <2>2, <2>3
<1>4. ASSUME NEW k \in DOMAIN xs, NEW i \in DOMAIN w, Covers(w[i], xs[k].node) PROVE FALSE
  <2>1. CASE i \in DOMAIN v
    <3>1. Covers(u[1], xs[k].node) /\ 1 \in DOMAIN u
      BY <1>1, <1>4, <2>1
    <3> QED
      BY <3>1 DEF ApartFrom
  <2>2. CASE i \notin DOMAIN v
    <3>1. i - Len(v) + 1 \in DOMAIN u /\ Covers(u[i - Len(v) + 1], xs[k].node)
      BY <1>1, <1>4, <2>2
    <3> QED
      BY <3>1 DEF ApartFrom
  <2> QED
    BY <2>1, <2>2
<1>5. Apart(w) /\ ApartFrom(w, xs)
  BY <1>3, <1>4 DEF Apart, ApartFrom
<1> QED
  BY <1>2, <1>5

\* What a walk should come to depends on the request and the files only.
LEMMA SameEligible ==
  ASSUME request' = request
  PROVE  /\ \A n : Eligible(n)' <=> Eligible(n)
         /\ \A t : Reached(t)' <=> Reached(t)
<1>1. \A n : Unlisted(n)' <=> Unlisted(n)
  BY DEF Unlisted, Explicit
<1>2. \A n : Eligible(n)' <=> Eligible(n)
  BY <1>1 DEF Eligible
<1>3. \A t : Reached(t)' <=> Reached(t)
  BY DEF Reached, Way
<1> QED
  BY <1>2, <1>3

\* A step that leaves the request and the files as they are.
LEMMA SameWalking ==
  ASSUME request' = request, UNCHANGED treeVars,
         NEW todo, NEW xs, NEW tr, Walking(todo, xs, tr)
  PROVE  Walking(todo, xs, tr)'
<1>1. /\ \A n : Eligible(n)' <=> Eligible(n)
      /\ \A t : Reached(t)' <=> Reached(t)
  BY SameEligible
<1>2. touched' = touched /\ content' = content
  BY DEF treeVars
<1>3. \A n : NodeSize(n)' = NodeSize(n) /\ (Exists(n)' <=> Exists(n))
  BY <1>2 DEF NodeSize, Exists
<1>4. ItemsOnce(xs)'
  BY <1>2, <1>3 DEF ItemsOnce, Walking
<1>5. ~tr => Complete(todo, xs)'
  BY <1>1, <1>2, <1>3 DEF Complete, Walking, Lists, Covers
<1>6. Apart(todo)' /\ ApartFrom(todo, xs)'
  BY DEF Apart, ApartFrom, Walking, Covers
<1> QED
  BY <1>1, <1>4, <1>5, <1>6 DEF Walking

\* A step of the walk keeps WalkTree if what it comes to is as it should be.
LEMMA TreeTo ==
  ASSUME WalkTree, stage \in {"start", "walk"}, UNCHANGED treeVars,
         NEW w, Walked(w), Walking(w.todo, w.items, w.truncated)
  PROVE  WalkTree'
<1>1. /\ walk' = w /\ stage' = "walk" /\ request' = request /\ found' = found /\ cut' = cut
  BY DEF Walked
<1>2. Walking(w.todo, w.items, w.truncated)'
  <2> DEFINE todo == w.todo
             xs == w.items
             tr == w.truncated
  <2>1. Walking(todo, xs, tr)
    OBVIOUS
  <2> HIDE DEF todo, xs, tr
  <2>2. Walking(todo, xs, tr)'
    BY <1>1, <2>1, SameWalking
  <2> QED
    BY <2>2 DEF todo, xs, tr
<1>3. Walking(walk.todo, walk.items, walk.truncated)'
  BY <1>1, <1>2
<1>4. NothingLostSilently'
  BY <1>1 DEF NothingLostSilently
<1> QED
  BY <1>1, <1>3, <1>4 DEF WalkTree

\* A walk that stops at a limit says so, and it has nothing left to do.
LEMMA StoppedThere ==
  ASSUME NEW xs, ItemsOnce(xs)
  PROVE  Walking(<<>>, xs, TRUE)
<1> DEFINE e == <<>>
<1>1. IsSequence(e) /\ DOMAIN e = {}
  <2>1. e \in Seq({}) /\ DOMAIN e = {}
    OBVIOUS
  <2> HIDE DEF e
  <2> QED
    BY <2>1 DEF IsSequence
<1> HIDE DEF e
<1>2. Walking(e, xs, TRUE)
  BY <1>1 DEF Walking, Apart, ApartFrom
<1> QED
  BY <1>2 DEF e

\* The same for a walk as it was.
LEMMA StopHere ==
  ASSUME WalkTree, stage \in {"start", "walk"}, UNCHANGED treeVars,
         NEW t, NEW xs, NEW s, NEW b, NEW tr, NEW w, w = WalkState(t, xs, s, b, tr),
         ItemsOnce(xs), Walked(Stopped(w))
  PROVE  WalkTree'
<1> DEFINE yes == TRUE
           v == [w EXCEPT !.truncated = yes]
<1>1. yes = TRUE
  OBVIOUS
<1>2. Stopped(w) = [v EXCEPT !.todo = <<>>]
  BY DEF Stopped
<1> HIDE DEF yes
<1>3. v = WalkState(t, xs, s, b, yes)
  BY WalkMarked
<1> HIDE DEF v
<1> DEFINE x == [v EXCEPT !.todo = <<>>]
<1>4. x = WalkState(<<>>, xs, s, b, yes)
  BY <1>3 DEF WalkState
<1>6. Walked(x)
  BY <1>2
<1> HIDE DEF x
<1>5. x.todo = <<>> /\ x.items = xs /\ x.truncated = yes
  BY <1>4, WalkFields
<1>7. Walking(x.todo, x.items, x.truncated)
  BY <1>1, <1>5, StoppedThere
<1> QED
  BY <1>6, <1>7, TreeTo

\* Nothing is above the start that is below it.
LEMMA StartFirst ==
  ASSUME request.start \in Nodes \cup {0}
  PROVE  /\ Way(request.start) = {}
         /\ \A n \in Nodes \cup {0} : request.start \in Above[n] => n # request.start /\ n \in Nodes
<1>1. \A n \in Nodes \cup {0} : request.start \in Above[n] => n # request.start /\ n \in Nodes
  BY AboveIn, AboveStep
<1>2. ASSUME NEW x \in Way(request.start) PROVE FALSE
  <2>1. x \in Upto(request.start) /\ request.start \in Above[x]
    BY <1>2 DEF Way
  <2>2. x \in Above[request.start] \/ x = request.start
    BY <2>1 DEF Upto
  <2>3. x \in Nodes \cup {0}
    BY <2>2, AboveIn
  <2>4. x # request.start
    BY <1>1, <2>1, <2>3
  <2>5. x \in Nat /\ x < request.start
    BY <2>2, <2>4, AboveIn
  <2>6. request.start \in Nat /\ request.start < x
    BY <2>1, <2>3, AboveIn
  <2> QED
    BY <2>5, <2>6
<1> QED
  BY <1>1, <1>2

\* The way to an entry of a directory is one longer than to the directory.
LEMMA WayOn ==
  ASSUME NEW c \in Nodes, request.start \in Upto(Tree[c].parent)
  PROVE  Way(c) = Way(Tree[c].parent) \cup {c} /\ Cardinality(Way(c)) = Cardinality(Way(Tree[c].parent)) + 1
<1> DEFINE d == Tree[c].parent
<1>1. Above[c] = Upto(d) /\ d \in Nodes \cup {0} /\ d \in Nat /\ c \in Nat /\ d < c
  BY AboveStep, ParentIs
<1>2. Way(c) = Way(d) \cup {c}
  BY <1>1 DEF Way, Upto
<1>3. c \notin Upto(d)
  <2>1. c \notin Above[c]
    BY AboveIn
  <2> QED
    BY <1>1, <2>1
<1>4. c \notin Way(d) /\ Way(d) \subseteq Nodes \cup {0}
  BY <1>1, <1>3, AboveIn DEF Way, Upto
<1>5. IsFiniteSet(Way(d))
  <2>1. IsFiniteSet(Nodes \cup {0})
    BY TreeAssumption, FS_AddElement
  <2> QED
    BY <1>4, <2>1, FS_Subset
<1>6. Cardinality(Way(d) \cup {c}) = Cardinality(Way(d)) + 1
  BY <1>4, <1>5, FS_AddElement
<1> QED
  BY <1>2, <1>6

\* The way to a node is longer than that to a directory above it.
LEMMA WayDown ==
  ASSUME NEW n \in Nodes, NEW d \in Above[n], request.start \in Upto(d)
  PROVE  /\ Cardinality(Way(d)) \in Nat /\ Cardinality(Way(n)) \in Nat
         /\ Cardinality(Way(d)) < Cardinality(Way(n))
<1>1. Above[d] \subseteq Above[n] /\ d \in Nodes \cup {0} /\ n \notin Above[n]
  BY AboveAbove, AboveIn
<1>2. Way(d) \subseteq Way(n) /\ n \in Way(n) /\ n \notin Way(d)
  BY <1>1 DEF Way, Upto
<1>3. Way(n) \subseteq Nodes \cup {0}
  BY AboveIn DEF Way, Upto
<1>4. IsFiniteSet(Way(n))
  <2>1. IsFiniteSet(Nodes \cup {0})
    BY TreeAssumption, FS_AddElement
  <2> QED
    BY <1>3, <2>1, FS_Subset
<1>5. /\ IsFiniteSet(Way(d)) /\ Cardinality(Way(d)) <= Cardinality(Way(n))
      /\ Cardinality(Way(n)) = Cardinality(Way(d)) => Way(n) = Way(d)
  BY <1>2, <1>4, FS_Subset
<1>6. Cardinality(Way(d)) \in Nat /\ Cardinality(Way(n)) \in Nat
  BY <1>4, <1>5, FS_CardinalityType
<1> QED
  BY <1>2, <1>5, <1>6

\* No items.
LEMMA NoItems == ItemsOnce(<<>>) /\ ~ \E n : Lists(<<>>, n)
<1> DEFINE e == <<>>
<1>1. IsSequence(e) /\ DOMAIN e = {}
  <2>1. e \in Seq({}) /\ DOMAIN e = {}
    OBVIOUS
  <2> HIDE DEF e
  <2> QED
    BY <2>1 DEF IsSequence
<1> HIDE DEF e
<1>2. ItemsOnce(e) /\ ~ \E n : Lists(e, n)
  BY <1>1 DEF ItemsOnce, Lists
<1> QED
  BY <1>2 DEF e

\* A single task has nothing in common with another.
LEMMA OneTask ==
  ASSUME NEW o
  PROVE  /\ IsSequence(<<o>>) /\ DOMAIN <<o>> = {1} /\ <<o>>[1] = o
         /\ Apart(<<o>>)
<1> DEFINE u == <<o>>
<1>1. u \in Seq({o}) /\ DOMAIN u = {1} /\ u[1] = o
  OBVIOUS
<1> HIDE DEF u
<1>2. Apart(u)
  BY <1>1 DEF Apart
<1> QED
  BY <1>1, <1>2 DEF u, IsSequence

\* The start of a walk: a directory is opened, anything else is the only item.
LEMMA StartKeepsTree ==
  ASSUME TreeOK, WalkInd, WalkTree, WalkStart, UNCHANGED treeVars
  PROVE  WalkTree'
<1> DEFINE n == request.start
<1>1. /\ WalkOK(walk, request.scan) /\ stage = "start" /\ n \in Nodes \cup {0}
      /\ walk.todo = <<>> /\ walk.items = <<>>
  BY DEF WalkInd, WalkTree, WalkStart
<1>2. PICK t, xs, s, b, tr : walk = WalkState(t, xs, s, b, tr)
  BY <1>1, WalkShape
<1>3. t = <<>> /\ xs = <<>> /\ tr \in BOOLEAN
  BY <1>1, <1>2, WalkFields DEF WalkOK
<1>4. CASE n \in Dirs
  <2> DEFINE o == Open(n, 0)
             u == <<o>>
             w == [walk EXCEPT !.todo = u]
  <2>0. Walked(w)
    BY <1>4 DEF WalkStart
  <2>1. o.op = "open" /\ o.node = n /\ o.depth = 0
    BY DEF Open
  <2>2. Reached(o)
    BY <1>1, <1>4, <2>1, StartFirst, FS_EmptySet DEF Reached, Upto
  <2>3. ASSUME NEW m \in Nodes, Eligible(m) PROVE Covers(o, m)
    <3>1. n \in Above[m]
      BY <1>4, <2>3 DEF Eligible
    <3> QED
      BY <2>1, <3>1 DEF Covers
  <2> HIDE DEF o
  <2>4. /\ IsSequence(u) /\ DOMAIN u = {1} /\ u[1] = o
        /\ Apart(u)
    BY OneTask
  <2> HIDE DEF u
  <2>5. w = WalkState(u, xs, s, b, tr)
    BY <1>2 DEF WalkState
  <2> HIDE DEF w
  <2>6. w.todo = u /\ w.items = <<>> /\ w.truncated = tr
    BY <1>3, <2>5, WalkFields
  <2>7. ApartFrom(u, <<>>)
    <3> DEFINE e == <<>>
    <3>1. DOMAIN e = {}
      OBVIOUS
    <3> HIDE DEF e
    <3>2. ApartFrom(u, e)
      BY <3>1 DEF ApartFrom
    <3> QED
      BY <3>2 DEF e
  <2>8. Complete(u, <<>>)
    BY <2>3, <2>4 DEF Complete
  <2>9. Walking(u, <<>>, tr)
    BY <2>2, <2>4, <2>7, <2>8, NoItems DEF Walking
  <2> QED
    BY <1>1, <2>0, <2>6, <2>9, TreeTo
<1>5. CASE n \notin Dirs /\ ~Exists(n)
  BY <1>5 DEF WalkStart, WalkFails, WalkTree
<1>6. CASE n \notin Dirs /\ Exists(n) /\ NodeSize(n) > ScanBytes
  <2> DEFINE w == [walk EXCEPT !.scanned = 1]
  <2>1. w = WalkState(t, xs, 1, b, tr)
    BY <1>2 DEF WalkState
  <2>2. Walked(Stopped(w))
    BY <1>6 DEF WalkStart
  <2> HIDE DEF w
  <2> QED
    BY <1>1, <1>3, <2>1, <2>2, NoItems, StopHere
<1>7. CASE n \notin Dirs /\ Exists(n) /\ ~(NodeSize(n) > ScanBytes)
  <2> DEFINE x == Item(n)
             ys == <<x>>
             w1 == [walk EXCEPT !.scanned = 1]
             w2 == [w1 EXCEPT !.bytes = NodeSize(n)]
             w3 == [w2 EXCEPT !.items = ys]
  <2>0. Walked(w3)
    BY <1>7 DEF WalkStart
  <2>1. w1 = WalkState(t, xs, 1, b, tr)
    BY <1>2 DEF WalkState
  <2> HIDE DEF w1
  <2>2. w2 = WalkState(t, xs, 1, NodeSize(n), tr)
    BY <2>1 DEF WalkState
  <2> HIDE DEF w2
  <2>3. w3 = WalkState(t, ys, 1, NodeSize(n), tr)
    BY <2>2 DEF WalkState
  <2>4. n \in Nodes /\ x.node = n /\ x.size = NodeSize(n)
    BY <1>1, <1>7 DEF Item, Dirs
  <2>5. ys \in Seq({x}) /\ DOMAIN ys = {1} /\ ys[1] = x
    OBVIOUS
  <2> HIDE DEF w3, x, ys
  <2>6. w3.todo = <<>> /\ w3.items = ys /\ w3.truncated = tr
    BY <1>3, <2>3, WalkFields
  <2>7. ItemsOnce(ys)
    BY <2>4, <2>5 DEF ItemsOnce, IsSequence
  <2>8. ASSUME NEW m \in Nodes, Eligible(m) PROVE Lists(ys, m)
    <3>1. CASE m = n
      BY <2>4, <2>5, <3>1 DEF Lists
    <3>2. CASE m # n
      <4>1. n \in Above[m]
        BY <2>8, <3>2 DEF Eligible
      <4> QED
        BY <1>7, <4>1, AboveIn
    <3> QED
      BY <3>1, <3>2
  <2>9. Walking(<<>>, ys, tr)
    <3> DEFINE e == <<>>
    <3>1. IsSequence(e) /\ DOMAIN e = {}
      <4>1. e \in Seq({}) /\ DOMAIN e = {}
        OBVIOUS
      <4> HIDE DEF e
      <4> QED
        BY <4>1 DEF IsSequence
    <3> HIDE DEF e
    <3>2. Walking(e, ys, tr)
      BY <2>7, <2>8, <3>1 DEF Walking, Apart, ApartFrom, Complete
    <3> QED
      BY <3>2 DEF e
  <2> QED
    BY <1>1, <2>0, <2>6, <2>9, TreeTo
<1> QED
  BY <1>4, <1>5, <1>6, <1>7

\* A directory had more entries than were asked of it.
LEMMA MoreKeepsTree ==
  ASSUME WalkInd, WalkTree, MoreEntries, UNCHANGED treeVars
  PROVE  WalkTree'
<1>1. /\ WalkOK(walk, request.scan) /\ stage = "walk" /\ ItemsOnce(walk.items) /\ Walked(Stopped(walk))
  BY DEF WalkInd, WalkTree, MoreEntries, Doing, Walking
<1>2. PICK t, xs, s, b, tr : walk = WalkState(t, xs, s, b, tr)
  BY <1>1, WalkShape
<1>3. walk.items = xs
  BY <1>2, WalkFields
<1> QED
  BY <1>1, <1>2, <1>3, StopHere

\* The first task is done: what it would come to is an item now, or others will
\* come to it.
LEMMA HeadDone ==
  ASSUME NEW u, NEW v, NEW xs, NEW ys, NEW tr, Walking(u, xs, tr), u # <<>>, Head(u).op # "more",
         IsSequence(v), \A i \in DOMAIN v : Reached(v[i]), Apart(v), ApartFrom(v, ys),
         \A n \in Nodes : \A i \in DOMAIN v : Covers(v[i], n) => Covers(Head(u), n),
         ItemsOnce(ys), \A n \in Nodes : Lists(xs, n) => Lists(ys, n),
         \A n \in Nodes : Lists(ys, n) => Lists(xs, n) \/ Covers(Head(u), n),
         \/ \E i \in DOMAIN v : v[i].op = "more"
         \/ \A n \in Nodes \ touched :
              Exists(n) /\ Eligible(n) /\ Covers(Head(u), n) =>
                Lists(ys, n) \/ \E i \in DOMAIN v : Covers(v[i], n),
         NEW y, y = v \o Tail(u)
  PROVE  Walking(y, ys, tr)
<1>1. /\ \A i \in DOMAIN u : Reached(u[i])
      /\ Apart(u) /\ ApartFrom(u, xs) /\ ItemsOnce(xs) /\ \A i \in DOMAIN xs : xs[i].node \in Nodes
      /\ ~tr => Complete(u, xs)
  BY DEF Walking, ItemsOnce
<1>2. IsSequence(u)
  BY DEF Walking
<1>4. Replaced(y, v, u)
  BY <1>2, HeadReplaced
<1>5. /\ IsSequence(y)
      /\ Head(u) = u[1] /\ 1 \in DOMAIN u
      /\ \A i \in DOMAIN v : i \in DOMAIN y /\ y[i] = v[i]
      /\ \A i \in DOMAIN u : i # 1 => \E j \in DOMAIN y : y[j] = u[i]
      /\ \A i \in DOMAIN y :
           \/ i \in DOMAIN v /\ y[i] = v[i]
           \/ /\ i \notin DOMAIN v /\ i - Len(v) \in Nat
              /\ i - Len(v) + 1 \in DOMAIN u /\ i - Len(v) + 1 # 1 /\ y[i] = u[i - Len(v) + 1]
  BY <1>4 DEF Replaced
<1>6. /\ \A i \in DOMAIN y : Reached(y[i])
      /\ Apart(y)
  BY <1>1, <1>2, TaskReplaced
<1>7. ASSUME NEW k \in DOMAIN ys, NEW i \in DOMAIN y, Covers(y[i], ys[k].node) PROVE FALSE
  <2>1. CASE i \in DOMAIN v
    <3>1. Covers(v[i], ys[k].node)
      BY <1>5, <1>7, <2>1
    <3> QED
      BY <2>1, <3>1 DEF ApartFrom
  <2>2. CASE i \notin DOMAIN v
    <3> DEFINE j == i - Len(v) + 1
               n == ys[k].node
    <3>1. j \in DOMAIN u /\ j # 1 /\ Covers(u[j], n)
      BY <1>5, <1>7, <2>2
    <3>2. n \in Nodes /\ Lists(ys, n)
      BY DEF ItemsOnce, Lists
    <3> HIDE DEF j, n
    <3>3. CASE Lists(xs, n)
      BY <1>1, <3>1, <3>3 DEF Lists, ApartFrom
    <3>4. CASE Covers(Head(u), n)
      BY <1>1, <1>5, <3>1, <3>2, <3>4 DEF Apart
    <3> QED
      BY <3>2, <3>3, <3>4
  <2> QED
    BY <2>1, <2>2
<1>8. ASSUME Complete(u, xs), \A i \in DOMAIN y : y[i].op # "more",
             NEW n \in Nodes \ touched, Exists(n), Eligible(n), ~Lists(ys, n)
      PROVE  \E i \in DOMAIN y : Covers(y[i], n)
  <2>1. \A i \in DOMAIN v : v[i].op # "more"
    BY <1>5, <1>8
  <2>2. \A i \in DOMAIN u : u[i].op # "more"
    <3> TAKE i \in DOMAIN u
    <3>1. CASE i = 1
      BY <1>5, <3>1
    <3>2. CASE i # 1
      <4>1. \E j \in DOMAIN y : y[j] = u[i]
        BY <1>5, <3>2
      <4> QED
        BY <1>8, <4>1
    <3> QED
      BY <3>1, <3>2
  <2>3. ~Lists(xs, n)
    BY <1>8
  <2>4. PICK i \in DOMAIN u : Covers(u[i], n)
    BY <1>8, <2>2, <2>3 DEF Complete
  <2>5. CASE i # 1
    BY <1>5, <2>4, <2>5
  <2>6. CASE i = 1
    <3>1. Covers(Head(u), n)
      BY <1>5, <2>4, <2>6
    <3>2. PICK j \in DOMAIN v : Covers(v[j], n)
      BY <1>8, <2>1, <3>1
    <3> QED
      BY <1>5, <3>2
  <2> QED
    BY <2>5, <2>6
<1>9. ~tr => Complete(y, ys)
  BY <1>1, <1>8 DEF Complete
<1> QED
  BY <1>5, <1>6, <1>7, <1>9 DEF Walking, ApartFrom

\* The tasks for the entries of a directory: all below one of these is theirs.
StandsFor(v, names, d, over) ==
  /\ \A i \in DOMAIN v : Reached(v[i])
  /\ Apart(v)
  /\ \A n \in Nodes : \A i \in DOMAIN v : Covers(v[i], n) => d \in Above[n]
  /\ \A n \in Nodes : (\E i \in DOMAIN names : names[i] \in Upto(n)) => \E i \in DOMAIN v : Covers(v[i], n)
  /\ over => \E i \in DOMAIN v : v[i].op = "more"

\* What the entries of a directory will come to.
LEMMA EntriesOf ==
  ASSUME NEW d, NEW k, NEW names \in Seq(Nodes), NEW over \in BOOLEAN,
         \A i, j \in DOMAIN names : i # j => names[i] # names[j],
         \A i \in DOMAIN names : Tree[names[i]].parent = d,
         request.start \in Upto(d), k = Cardinality(Way(d)),
         NEW v, DOMAIN names \subseteq DOMAIN v, over => \E i \in DOMAIN v : v[i] = More,
         \A i \in DOMAIN v : v[i] = IF i \in DOMAIN names THEN EntryOf(names[i], k + 1) ELSE More
  PROVE  StandsFor(v, names, d, over)
<1>1. \A i \in DOMAIN names : names[i] \in Nodes
  OBVIOUS
<1>6. \A n : EntryOf(n, k + 1).op = "entry" /\ EntryOf(n, k + 1).node = n /\ EntryOf(n, k + 1).depth = k + 1
  BY DEF EntryOf
<1>7. More.op = "more"
  BY DEF More
<1>8. ASSUME NEW i \in DOMAIN names PROVE Reached(EntryOf(names[i], k + 1))
  <2>1. names[i] \in Nodes /\ Tree[names[i]].parent = d
    BY <1>1
  <2>2. Cardinality(Way(names[i])) = k + 1 /\ request.start \in Above[names[i]]
    BY <2>1, WayOn, AboveStep
  <2> QED
    BY <1>6, <2>1, <2>2 DEF Reached
<1>9. \A i \in DOMAIN v : Reached(v[i])
  <2> TAKE i \in DOMAIN v
  <2>1. CASE i \in DOMAIN names
    BY <1>8, <2>1
  <2>2. CASE i \notin DOMAIN names
    BY <1>7, <2>2 DEF Reached
  <2> QED
    BY <2>1, <2>2
<1>10. ASSUME NEW n \in Nodes, NEW i \in DOMAIN v, Covers(v[i], n)
       PROVE  i \in DOMAIN names /\ names[i] \in Upto(n) /\ v[i] = EntryOf(names[i], k + 1)
  <2>1. v[i].op # "more"
    BY <1>10 DEF Covers
  <2>2. i \in DOMAIN names /\ v[i] = EntryOf(names[i], k + 1)
    BY <1>7, <2>1
  <2> QED
    BY <1>6, <1>10, <2>2 DEF Covers
<1>11. ASSUME NEW n \in Nodes, NEW i \in DOMAIN v, Covers(v[i], n) PROVE d \in Above[n]
  <2>1. names[i] \in Nodes /\ names[i] \in Upto(n) /\ Tree[names[i]].parent = d
    BY <1>1, <1>10, <1>11
  <2>2. d \in Above[names[i]]
    BY <2>1, AboveStep
  <2>3. names[i] = n \/ Above[names[i]] \subseteq Above[n]
    BY <2>1, AboveAbove DEF Upto
  <2> QED
    BY <2>2, <2>3
<1>12. Apart(v)
  <2> SUFFICES ASSUME NEW n \in Nodes, NEW i \in DOMAIN v, NEW j \in DOMAIN v,
                      Covers(v[i], n), Covers(v[j], n)
               PROVE  i = j
    BY DEF Apart
  <2>1. i \in DOMAIN names /\ j \in DOMAIN names /\ names[i] \in Upto(n) /\ names[j] \in Upto(n)
    BY <1>10
  <2>2. names[i] \in Nodes /\ names[j] \in Nodes /\ Tree[names[i]].parent = Tree[names[j]].parent
    BY <1>1, <2>1
  <2>3. names[i] = names[j]
    BY <2>1, <2>2, SiblingsApart
  <2> QED
    BY <2>1, <2>3
<1>13. ASSUME NEW n \in Nodes, NEW i \in DOMAIN names, names[i] \in Upto(n)
       PROVE  \E j \in DOMAIN v : Covers(v[j], n)
  <2>1. i \in DOMAIN v /\ v[i] = EntryOf(names[i], k + 1)
    OBVIOUS
  <2>2. Covers(EntryOf(names[i], k + 1), n)
    BY <1>6, <1>13 DEF Covers
  <2> QED
    BY <2>1, <2>2
<1> QED
  BY <1>7, <1>9, <1>11, <1>12, <1>13 DEF StandsFor

\* A directory above a node that is there has an entry that the node is under.
LEMMA ChildFound ==
  ASSUME NEW n \in Nodes, Exists(n), NEW d \in Above[n]
  PROVE  \E c \in Children(d) : c \in Upto(n)
<1>1. PICK c \in Nodes : c \in Upto(n) /\ Tree[c].parent = d
  BY EntryAbove
<1>2. Exists(c)
  <2>1. CASE c = n
    BY <2>1
  <2>2. CASE c # n
    <3>1. c \in Dirs /\ c # 0
      BY <1>1, <2>2, AboveIn, ParentIs DEF Upto
    <3> QED
      BY <3>1 DEF Dirs, Files, Exists
  <2> QED
    BY <2>1, <2>2
<1> QED
  BY <1>1, <1>2 DEF Children

\* The first so many of a set of nodes in the order of their names.
LEMMA FirstNames ==
  ASSUME NEW T, T \subseteq Nodes, NEW r \in Nat, NEW s, s = InNameOrder(T),
         NEW names, names = IF Len(s) > r THEN SubSeq(s, 1, r) ELSE s
  PROVE  /\ names \in Seq(Nodes)
         /\ \A i \in DOMAIN names : names[i] \in T
         /\ \A i, j \in DOMAIN names : i # j => names[i] # names[j]
         /\ Len(s) = Cardinality(T)
         /\ ~(Len(s) > r) => \A x \in T : \E i \in DOMAIN names : names[i] = x
<1> DEFINE n == Cardinality(T)
<1>0. s = Ascending(T)
  BY DEF InNameOrder
<1>1. T \subseteq Nat /\ IsFiniteSet(T)
  BY TreeAssumption, FS_Subset
<1>2. /\ n \in Nat /\ s \in Seq(T) /\ Len(s) = n /\ DOMAIN s = 1..n
      /\ \A i, j \in 1..n : i < j => s[i] < s[j]
      /\ \A x \in T : \E k \in 1..n : s[k] = x
      /\ s \in [1..n -> T]
  <2>1. /\ n \in Nat /\ Ascending(T) \in Seq(T) /\ Len(Ascending(T)) = n
        /\ \A i, j \in 1..n : i < j => Ascending(T)[i] < Ascending(T)[j]
        /\ \A x \in T : \E k \in 1..n : Ascending(T)[k] = x
        /\ Ascending(T) \in [1..n -> T]
    BY <1>1, AscendingIs
  <2> HIDE DEF n
  <2> QED
    BY <1>0, <2>1
<1> HIDE DEF n
<1>3. \A i, j \in 1..n : i # j => s[i] # s[j]
  <2> SUFFICES ASSUME NEW i \in 1..n, NEW j \in 1..n, i # j, s[i] = s[j] PROVE FALSE
    OBVIOUS
  <2>1. i < j \/ j < i
    OBVIOUS
  <2>2. s[i] \in Nat
    BY <1>1, <1>2
  <2> QED
    BY <1>2, <2>1, <2>2
<1>4. CASE Len(s) > r
  <2>1. names \in Seq(T) /\ Len(names) = r /\ DOMAIN names = 1..r /\ r <= n
    BY <1>2, <1>4
  <2>2. \A i \in 1..r : names[i] = s[i] /\ i \in 1..n
    BY <1>2, <1>4, <2>1
  <2>3. names \in Seq(Nodes)
    BY <2>1
  <2> QED
    BY <1>2, <1>3, <1>4, <2>1, <2>2, <2>3 DEF n
<1>5. CASE ~(Len(s) > r)
  <2>1. names = s /\ s \in Seq(Nodes)
    BY <1>2, <1>5
  <2> QED
    BY <1>2, <1>3, <1>5, <2>1 DEF n
<1> QED
  BY <1>4, <1>5

\* A directory is opened: its entries, or the mark that some are left, stand for
\* all that is below it.
LEMMA OpenKeepsTree ==
  ASSUME WalkInd, WalkTree, OpenDirectory, UNCHANGED treeVars
  PROVE  WalkTree'
<1> DEFINE u == walk.todo
           here == Head(u)
           d == here.node
           remaining == request.scan - walk.scanned
           all == Children(d)
<1>1. /\ WalkOK(walk, request.scan) /\ stage = "walk" /\ u # <<>> /\ here.op = "open"
      /\ Walking(u, walk.items, walk.truncated) /\ request.start \in Nodes \cup {0}
      /\ request.scan \in Nat /\ walk.scanned \in Nat
  BY DEF WalkInd, WalkTree, OpenDirectory, Doing, WalkOK
<1>2. PICK t, xs, s, b, tr : walk = WalkState(t, xs, s, b, tr)
  BY <1>1, WalkShape
<1>3. u = t /\ walk.items = xs /\ walk.truncated = tr
  BY <1>2, WalkFields
<1>4. PICK D : u \in Seq(D)
  BY <1>1 DEF Walking, IsSequence
<1>5. here = u[1] /\ 1 \in DOMAIN u
  BY <1>1, <1>4
<1>6. Reached(here)
  BY <1>1, <1>5 DEF Walking
<1>7. d \in Dirs /\ d \in Nodes \cup {0} /\ request.start \in Upto(d) /\ here.depth = Cardinality(Way(d))
  BY <1>1, <1>6 DEF Reached
<1>8. CASE remaining < 1
  <2>1. Walked(Stopped(walk)) /\ ItemsOnce(xs)
    BY <1>1, <1>3, <1>8 DEF OpenDirectory, Walking
  <2> QED
    BY <1>1, <1>2, <2>1, StopHere
<1>9. CASE ~(remaining < 1)
  <2>1. PICK got \in kSubset(Min({remaining + 1, Cardinality(all)}), all) :
          LET sorted == InNameOrder(got)
              overflow == Len(sorted) > remaining
              names == IF overflow THEN SubSeq(sorted, 1, remaining) ELSE sorted
          IN Walked([walk EXCEPT
               !.todo = [i \in DOMAIN names |-> EntryOf(names[i], here.depth + 1)]
                        \o (IF overflow THEN <<More>> ELSE <<>>) \o Tail(@)])
    BY <1>9 DEF OpenDirectory
  <2> DEFINE sorted == InNameOrder(got)
             over == Len(sorted) > remaining
             names == IF over THEN SubSeq(sorted, 1, remaining) ELSE sorted
             a == [i \in DOMAIN names |-> EntryOf(names[i], here.depth + 1)]
             m == IF over THEN <<More>> ELSE <<>>
             v == a \o m
             y == v \o Tail(u)
             w == [walk EXCEPT !.todo = y]
  <2>2. Walked(w)
    BY <2>1
  <2>3. all \subseteq Nodes /\ IsFiniteSet(all) /\ Cardinality(all) \in Nat
        /\ \A c \in all : Tree[c].parent = d
    <3>1. all \subseteq Nodes /\ \A c \in all : Tree[c].parent = d
      BY DEF Children
    <3> QED
      BY <3>1, TreeAssumption, FS_Subset, FS_CardinalityType
  <2>4. got \subseteq all /\ Cardinality(got) = Min({remaining + 1, Cardinality(all)})
    BY DEF kSubset
  <2>5. remaining \in Nat
    BY <1>1, <1>9
  <2>6. ~over => got = all
    <3> DEFINE size == Cardinality(all)
               r1 == remaining + 1
    <3>1. Cardinality(got) = IF r1 <= size THEN r1 ELSE size
      <4>1. r1 \in Int /\ size \in Int /\ Cardinality(got) = Min({r1, size})
        BY <2>3, <2>4, <2>5
      <4> HIDE DEF r1, size
      <4> QED
        BY <4>1, MinOf
    <3>2. Len(sorted) = Cardinality(got)
      <4>1. got \subseteq Nat /\ IsFiniteSet(got)
        BY <2>3, <2>4, TreeAssumption, FS_Subset
      <4> QED
        BY <4>1, AscendingIs DEF InNameOrder
    <3> SUFFICES ASSUME ~over PROVE got = all
      OBVIOUS
    <3>3. ~(Cardinality(got) > remaining)
      BY <3>2
    <3>4. Cardinality(got) = size
      <4> HIDE DEF remaining, size
      <4> QED
        BY <2>3, <2>5, <3>1, <3>3
    <3> QED
      BY <2>3, <2>4, <3>4, FS_Subset
  <2>7. /\ names \in Seq(Nodes)
        /\ \A i \in DOMAIN names : names[i] \in got
        /\ \A i, j \in DOMAIN names : i # j => names[i] # names[j]
        /\ ~over => \A x \in got : \E i \in DOMAIN names : names[i] = x
    <3>1. got \subseteq Nodes
      BY <2>3, <2>4
    <3>2. /\ sorted = InNameOrder(got)
          /\ names = IF Len(sorted) > remaining THEN SubSeq(sorted, 1, remaining) ELSE sorted
          /\ over <=> Len(sorted) > remaining
      OBVIOUS
    <3> HIDE DEF remaining, all, sorted, names, over
    <3> QED
      BY <2>5, <3>1, <3>2, FirstNames, SMTT(30)
  <2> DEFINE yes == over
             E == {EntryOf(n, here.depth + 1) : n \in Nodes} \cup {More}
  <2>8. yes \in BOOLEAN /\ (yes <=> over)
    OBVIOUS
  <2>10. \A i \in DOMAIN names : Tree[names[i]].parent = d
    BY <2>3, <2>4, <2>7
  <2> HIDE DEF over, yes, names, all
  <2>9. a \in Seq(E) /\ Len(a) = Len(names) /\ Len(names) \in Nat /\ DOMAIN names = 1..Len(names)
        /\ \A i \in 1..Len(names) : a[i] = EntryOf(names[i], here.depth + 1)
    <3>1. Len(names) \in Nat /\ DOMAIN names = 1..Len(names)
      BY <2>7
    <3>2. a \in [1..Len(names) -> E]
      BY <2>7, <3>1
    <3> HIDE DEF E
    <3> QED
      BY <3>1, <3>2
  <2>9a. m \in Seq(E) /\ Len(m) = (IF over THEN 1 ELSE 0) /\ \A i \in 1..Len(m) : m[i] = More
    <3> DEFINE o == More
    <3>1. o \in E /\ m = (IF over THEN <<o>> ELSE <<>>) /\ o = More
      OBVIOUS
    <3> HIDE DEF o, m, E
    <3> QED
      BY <3>1
  <2> HIDE DEF a, m, E
  <2>12. /\ v \in Seq(E) /\ DOMAIN v = 1..(Len(names) + IF over THEN 1 ELSE 0)
         /\ \A i \in DOMAIN v : v[i] = IF i <= Len(names) THEN a[i] ELSE m[i - Len(names)]
    <3>1. a \in Seq(E) /\ m \in Seq(E)
      BY <2>9, <2>9a
    <3>2. /\ v \in Seq(E) /\ DOMAIN v = 1..(Len(a) + Len(m))
          /\ \A i \in 1..(Len(a) + Len(m)) : v[i] = IF i <= Len(a) THEN a[i] ELSE m[i - Len(a)]
      BY <3>1, Joined
    <3>3. Len(a) = Len(names) /\ Len(m) = IF over THEN 1 ELSE 0
      BY <2>9, <2>9a
    <3> HIDE DEF v
    <3>4. v \in Seq(E) /\ DOMAIN v = 1..(Len(names) + IF over THEN 1 ELSE 0)
      BY <3>2, <3>3, Zenon
    <3>5. \A i \in DOMAIN v : v[i] = IF i <= Len(names) THEN a[i] ELSE m[i - Len(names)]
      BY <3>2, <3>3
    <3> QED
      BY <3>4, <3>5
  <2> HIDE DEF v
  <2>11a. StandsFor(v, names, d, yes)
    <3> DEFINE k == here.depth
    <3>1. DOMAIN names \subseteq DOMAIN v
      BY <2>9, <2>12
    <3>2. k = Cardinality(Way(d)) /\ request.start \in Upto(d)
      BY <1>7
    <3>3. ASSUME NEW i \in DOMAIN v
          PROVE  v[i] = IF i \in DOMAIN names THEN EntryOf(names[i], k + 1) ELSE More
      <4>1. CASE i \in DOMAIN names
        BY <2>9, <2>12, <4>1
      <4>2. CASE i \notin DOMAIN names
        <5>1. ~(i <= Len(names)) /\ over /\ i - Len(names) \in 1..Len(m)
          BY <2>9, <2>9a, <2>12, <4>2
        <5> QED
          BY <2>9a, <2>12, <4>2, <5>1
      <4> QED
        BY <4>1, <4>2
    <3>4. yes => \E i \in DOMAIN v : v[i] = More
      <4> SUFFICES ASSUME yes PROVE \E i \in DOMAIN v : v[i] = More
        OBVIOUS
      <4>1. Len(names) + 1 \in DOMAIN v /\ Len(names) + 1 \notin DOMAIN names
        BY <2>8, <2>9, <2>12
      <4> QED
        BY <3>3, <4>1
    <3>5. names \in Seq(Nodes) /\ \A i, j \in DOMAIN names : i # j => names[i] # names[j]
      BY <2>7
    <3>6. yes \in BOOLEAN
      BY <2>8
    <3> HIDE DEF k, d
    <3> QED
      BY <2>10, <3>1, <3>2, <3>3, <3>4, <3>5, <3>6, EntriesOf
  <2>11. /\ \A i \in DOMAIN v : Reached(v[i])
         /\ Apart(v)
         /\ \A n \in Nodes : \A i \in DOMAIN v : Covers(v[i], n) => d \in Above[n]
         /\ \A n \in Nodes : (\E i \in DOMAIN names : names[i] \in Upto(n)) => \E i \in DOMAIN v : Covers(v[i], n)
         /\ yes => \E i \in DOMAIN v : v[i].op = "more"
    BY <2>11a DEF StandsFor
  <2>13. \A n \in Nodes : Covers(here, n) <=> d \in Above[n]
    BY <1>1 DEF Covers
  <2>14. ASSUME NEW n \in Nodes \ touched, Exists(n), Covers(here, n), ~over
         PROVE  \E i \in DOMAIN v : Covers(v[i], n)
    <3>1. d \in Above[n]
      BY <2>13, <2>14
    <3>2. PICK c \in all : c \in Upto(n)
      BY <2>14, <3>1, ChildFound DEF all
    <3>3. \E j \in DOMAIN names : names[j] \in Upto(n)
      BY <2>6, <2>7, <2>14, <3>2
    <3> QED
      BY <2>11, <3>3
  <2>15. /\ Walking(u, xs, tr) /\ u # <<>> /\ here.op # "more" /\ IsSequence(v) /\ ItemsOnce(xs)
         /\ \A i \in DOMAIN v : Reached(v[i])
         /\ Apart(v)
         /\ \A n \in Nodes : \A i \in DOMAIN v : Covers(v[i], n) => Covers(here, n)
    BY <1>1, <1>3, <2>11, <2>12, <2>13 DEF IsSequence, Walking
  <2>16. ApartFrom(v, xs)
    <3> SUFFICES ASSUME NEW k \in DOMAIN xs, NEW i \in DOMAIN v, Covers(v[i], xs[k].node) PROVE FALSE
      BY DEF ApartFrom
    <3>1. xs[k].node \in Nodes
      BY <2>15 DEF ItemsOnce
    <3>2. Covers(u[1], xs[k].node)
      BY <1>5, <2>15, <3>1
    <3> QED
      BY <1>5, <2>15, <3>2 DEF Walking, ApartFrom
  <2>17. \/ \E i \in DOMAIN v : v[i].op = "more"
         \/ \A n \in Nodes \ touched :
              Exists(n) /\ Eligible(n) /\ Covers(here, n) =>
                Lists(xs, n) \/ \E i \in DOMAIN v : Covers(v[i], n)
    BY <2>8, <2>11, <2>14
  <2>18. Walking(y, xs, tr)
    <3>1. y = v \o Tail(u)
      OBVIOUS
    <3> HIDE DEF y, u
    <3> QED
      BY <2>15, <2>16, <2>17, <3>1, HeadDone
  <2>19. w = WalkState(y, xs, s, b, tr)
    BY <1>2 DEF WalkState
  <2> HIDE DEF w
  <2>20. Walking(w.todo, w.items, w.truncated)
    BY <2>18, <2>19, WalkFields
  <2> QED
    BY <1>1, <2>2, <2>20, TreeTo
<1> QED
  BY <1>8, <1>9

\* One more item.
LEMMA ItemAdded ==
  ASSUME NEW xs, ItemsOnce(xs), NEW n \in Nodes, ~Lists(xs, n), NEW ys, ys = Append(xs, Item(n))
  PROVE  /\ ItemsOnce(ys)
         /\ \A m : Lists(ys, m) <=> Lists(xs, m) \/ m = n
<1> DEFINE x == Item(n)
<1>1. x.node = n /\ x.size = NodeSize(n)
  BY DEF Item
<1>2. PICK E : xs \in Seq(E)
  BY DEF ItemsOnce, IsSequence
<1>3. ys = Append(xs, x)
  OBVIOUS
<1> HIDE DEF x
<1>4. /\ ys \in Seq(E \cup {x}) /\ Len(xs) \in Nat /\ DOMAIN xs = 1..Len(xs)
      /\ DOMAIN ys = 1..(Len(xs) + 1) /\ ys[Len(xs) + 1] = x
      /\ \A i \in 1..Len(xs) : ys[i] = xs[i]
  <2>1. xs \in Seq(E \cup {x}) /\ x \in E \cup {x}
    BY <1>2
  <2> QED
    BY <1>3, <2>1
<1>5. \A m : Lists(ys, m) <=> Lists(xs, m) \/ m = n
  BY <1>1, <1>4 DEF Lists
<1>6. \A k \in DOMAIN ys : ys[k].node \in Nodes /\ (ys[k].node \notin touched => ys[k].size = NodeSize(ys[k].node))
  <2> TAKE k \in DOMAIN ys
  <2>1. CASE k \in DOMAIN xs
    BY <1>4, <2>1 DEF ItemsOnce
  <2>2. CASE k \notin DOMAIN xs
    <3>1. ys[k] = x
      BY <1>4, <2>2
    <3> QED
      BY <1>1, <3>1
  <2> QED
    BY <2>1, <2>2
<1>7. ASSUME NEW i \in DOMAIN ys, NEW j \in DOMAIN ys, i # j PROVE ys[i].node # ys[j].node
  <2>1. CASE i \in DOMAIN xs /\ j \in DOMAIN xs
    BY <1>4, <1>7, <2>1 DEF ItemsOnce
  <2>2. CASE i \in DOMAIN xs /\ j \notin DOMAIN xs
    <3>1. ys[i] = xs[i] /\ ys[j] = x
      BY <1>4, <2>2
    <3> QED
      BY <1>1, <2>2, <3>1 DEF Lists
  <2>3. CASE i \notin DOMAIN xs /\ j \in DOMAIN xs
    <3>1. ys[i] = x /\ ys[j] = xs[j]
      BY <1>4, <2>3
    <3> QED
      BY <1>1, <2>3, <3>1 DEF Lists
  <2>4. CASE i \notin DOMAIN xs /\ j \notin DOMAIN xs
    BY <1>4, <1>7, <2>4
  <2> QED
    BY <2>1, <2>2, <2>3, <2>4
<1>8. IsSequence(ys)
  BY <1>4 DEF IsSequence
<1> QED
  BY <1>5, <1>6, <1>7, <1>8 DEF ItemsOnce

\* An entry is done: it is an item or not, and a directory is still to be opened
\* or not.
LEMMA EntryDone ==
  ASSUME NEW u, NEW xs, NEW tr, Walking(u, xs, tr), u # <<>>, Head(u).op = "entry",
         NEW n, n = Head(u).node, NEW ys, ys = xs \/ ys = Append(xs, Item(n)),
         NEW o, o.op = "open", o.node = n, o.depth = Head(u).depth,
         NEW v, v = <<>> \/ (v = <<o>> /\ n \in Dirs),
         \A m \in Nodes : Exists(m) /\ Eligible(m) /\ n \in Upto(m) =>
            (m = n /\ ys = Append(xs, Item(n))) \/ (m # n /\ v = <<o>>),
         NEW y, y = v \o Tail(u)
  PROVE  Walking(y, ys, tr)
<1>1. PICK D : u \in Seq(D)
  BY DEF Walking, IsSequence
<1>2. Head(u) = u[1] /\ 1 \in DOMAIN u
  BY <1>1
<1>3. Reached(Head(u))
  BY <1>2 DEF Walking
<1>4. n \in Nodes /\ request.start \in Above[n] /\ Head(u).depth = Cardinality(Way(n))
  BY <1>3 DEF Reached
<1>5. /\ \A m : Covers(Head(u), m) <=> n \in Upto(m)
      /\ \A m : Covers(o, m) <=> n \in Above[m]
      /\ Head(u).op # "more" /\ o.op # "more"
  BY DEF Covers
<1>6. ItemsOnce(xs) /\ ApartFrom(u, xs)
  BY DEF Walking
<1>7. ~Lists(xs, n)
  <2> SUFFICES ASSUME NEW k \in DOMAIN xs, xs[k].node = n PROVE FALSE
    BY DEF Lists
  <2>1. Covers(u[1], xs[k].node)
    BY <1>2, <1>5 DEF Upto
  <2> QED
    BY <1>2, <1>6, <2>1 DEF ApartFrom
<1>8. /\ ItemsOnce(ys)
      /\ \A m : Lists(xs, m) => Lists(ys, m)
      /\ \A m : Lists(ys, m) => Lists(xs, m) \/ m = n
      /\ ys = Append(xs, Item(n)) => Lists(ys, n)
  <2>1. CASE ys = xs /\ ys # Append(xs, Item(n))
    BY <1>6, <2>1
  <2>2. CASE ys = Append(xs, Item(n))
    BY <1>4, <1>6, <1>7, <2>2, ItemAdded
  <2> QED
    BY <2>1, <2>2
<1>9. /\ IsSequence(v) /\ Apart(v)
      /\ \A i \in DOMAIN v : v[i] = o /\ n \in Dirs
      /\ v = <<o>> => \E i \in DOMAIN v : v[i] = o
  <2>1. CASE v = <<>>
    <3> DEFINE e == <<>>
    <3>1. IsSequence(e) /\ DOMAIN e = {}
      <4>1. e \in Seq({}) /\ DOMAIN e = {}
        OBVIOUS
      <4> HIDE DEF e
      <4> QED
        BY <4>1 DEF IsSequence
    <3>2. v = e /\ v # <<o>>
      BY <2>1
    <3> HIDE DEF e
    <3> QED
      BY <3>1, <3>2 DEF Apart
  <2>2. CASE v = <<o>> /\ n \in Dirs
    BY <2>2, OneTask
  <2> QED
    BY <2>1, <2>2
<1>10. \A i \in DOMAIN v : Reached(v[i])
  BY <1>4, <1>9 DEF Reached, Upto
<1>11. \A m \in Nodes : \A i \in DOMAIN v : Covers(v[i], m) => Covers(Head(u), m)
  BY <1>5, <1>9 DEF Upto
<1>12. ApartFrom(v, ys)
  <2> SUFFICES ASSUME NEW k \in DOMAIN ys, NEW i \in DOMAIN v, Covers(v[i], ys[k].node) PROVE FALSE
    BY DEF ApartFrom
  <2> DEFINE m == ys[k].node
  <2>1. m \in Nodes /\ Lists(ys, m) /\ n \in Above[m]
    BY <1>5, <1>8, <1>9 DEF ItemsOnce, Lists
  <2> HIDE DEF m
  <2>2. m # n
    BY <1>4, <2>1, AboveIn
  <2>3. PICK j \in DOMAIN xs : xs[j].node = m
    BY <1>8, <2>1, <2>2 DEF Lists
  <2>4. Covers(u[1], xs[j].node)
    BY <1>2, <1>5, <2>1, <2>3 DEF Upto
  <2> QED
    BY <1>2, <1>6, <2>4 DEF ApartFrom
<1>13. ASSUME NEW m \in Nodes \ touched, Exists(m), Eligible(m), Covers(Head(u), m)
       PROVE  Lists(ys, m) \/ \E i \in DOMAIN v : Covers(v[i], m)
  <2>1. n \in Upto(m)
    BY <1>5, <1>13
  <2>2. CASE m = n /\ ys = Append(xs, Item(n))
    BY <1>8, <2>2
  <2>3. CASE m # n /\ v = <<o>>
    <3>1. n \in Above[m]
      BY <2>1, <2>3 DEF Upto
    <3> QED
      BY <1>5, <1>9, <2>3, <3>1
  <2> QED
    BY <1>13, <2>1, <2>2, <2>3
<1>14. \A m \in Nodes : Lists(ys, m) => Lists(xs, m) \/ Covers(Head(u), m)
  BY <1>5, <1>8 DEF Upto
<1> QED
  BY <1>5, <1>8, <1>9, <1>10, <1>11, <1>12, <1>13, <1>14, HeadDone

\* What the walk should come to is below what is listed, on a way that is not too long.
LEMMA EligibleBelow ==
  ASSUME NEW n \in Nodes, request.start \in Above[n], NEW m \in Nodes, Eligible(m), n \in Upto(m),
         request.depth \in Nat
  PROVE  /\ ~Unlisted(n)
         /\ m = n => ~Ignored(request.rules, n)
         /\ m # n => n \in Dirs /\ Cardinality(Way(n)) < request.depth
<1>1. request.start \in Above[m] /\ m # request.start
  <2>1. request.start \in Above[m]
    <3>1. CASE m = n
      BY <3>1
    <3>2. CASE m # n
      BY <3>2, AboveAbove DEF Upto
    <3> QED
      BY <3>1, <3>2
  <2> QED
    BY <2>1, AboveIn
<1>2. n \in Way(m)
  BY DEF Way
<1>3. Cardinality(Way(m)) <= request.depth /\ (\A x \in Way(m) : ~Unlisted(x)) /\ ~Ignored(request.rules, m)
  BY <1>1 DEF Eligible, Way
<1>4. CASE m # n
  <2>1. n \in Above[m] /\ n \in Dirs
    BY <1>4, AboveIn DEF Upto
  <2>2. /\ Cardinality(Way(n)) \in Nat /\ Cardinality(Way(m)) \in Nat
        /\ Cardinality(Way(n)) < Cardinality(Way(m))
    BY <2>1, WayDown DEF Upto
  <2> QED
    BY <1>2, <1>3, <1>4, <2>1, <2>2
<1> QED
  BY <1>2, <1>3, <1>4

\* The body of visit's loop: a limit stops the walk, an entry in no one's way is
\* passed over, and any other is listed unless it is ignored.
LEMMA VisitKeepsTree ==
  ASSUME WalkInd, WalkTree, VisitEntry, UNCHANGED treeVars
  PROVE  WalkTree'
<1> DEFINE u == walk.todo
           here == Head(u)
           n == here.node
           size == NodeSize(n)
           seen == [walk EXCEPT !.scanned = @ + 1]
           paid == [seen EXCEPT !.bytes = @ + size]
           counted == [seen EXCEPT !.bytes = @ + size, !.todo = Tail(@)]
           kept == Ignored(request.rules, n)
           listed == IF kept THEN counted ELSE [counted EXCEPT !.items = Append(@, Item(n))]
           goesOn == n \in Dirs /\ here.depth < request.depth
           o == Open(n, here.depth)
<1>1. /\ WalkOK(walk, request.scan) /\ stage = "walk" /\ u # <<>> /\ here.op = "entry"
      /\ Walking(u, walk.items, walk.truncated) /\ request.depth \in Nat
  BY DEF WalkInd, WalkTree, VisitEntry, Doing
<1>2. PICK t, xs, s, b, tr : walk = WalkState(t, xs, s, b, tr)
  BY <1>1, WalkShape
<1>3. u = t /\ walk.items = xs /\ walk.truncated = tr /\ walk.scanned = s /\ walk.bytes = b
  BY <1>2, WalkFields
<1>4. Walking(u, xs, tr) /\ ItemsOnce(xs)
  BY <1>1, <1>3 DEF Walking
<1>5. seen = WalkState(t, xs, s + 1, b, tr)
  BY <1>2 DEF WalkState
<1>6. counted = WalkState(Tail(t), xs, s + 1, b + size, tr)
  <2> HIDE DEF seen, size
  <2>1. counted = [[seen EXCEPT !.bytes = @ + size] EXCEPT !.todo = Tail(@)]
    OBVIOUS
  <2>2. paid = WalkState(t, xs, s + 1, b + size, tr)
    BY <1>5 DEF WalkState
  <2>3. counted = [paid EXCEPT !.todo = Tail(@)]
    BY <2>1
  <2> HIDE DEF paid, counted
  <2> QED
    BY <2>2, <2>3 DEF WalkState
<1>7. CASE walk.scanned >= request.scan
  <2>1. Walked(Stopped(walk))
    BY <1>7 DEF VisitEntry
  <2> QED
    BY <1>1, <1>2, <1>4, <2>1, StopHere
<1>8. CASE ~(walk.scanned >= request.scan) /\ ~Exists(n)
  <2>1. stage' = "failed"
    BY <1>8 DEF VisitEntry, WalkFails
  <2> QED
    BY <2>1 DEF WalkTree
<1>9. CASE ~(walk.scanned >= request.scan) /\ Exists(n) /\ walk.bytes + size > ScanBytes
  <2>1. Walked(Stopped(seen))
    BY <1>9 DEF VisitEntry
  <2> HIDE DEF seen
  <2> QED
    BY <1>1, <1>4, <1>5, <2>1, StopHere
<1>10. ASSUME ~(walk.scanned >= request.scan), Exists(n), ~(walk.bytes + size > ScanBytes)
       PROVE  WalkTree'
  <2>1. /\ Unlisted(n) => Walked(counted)
        /\ ~Unlisted(n) /\ goesOn => Walked([listed EXCEPT !.todo = <<o>> \o @])
        /\ ~Unlisted(n) /\ ~goesOn => Walked(listed)
    BY <1>10 DEF VisitEntry
  <2> DEFINE ys == IF Unlisted(n) \/ kept THEN xs ELSE Append(xs, Item(n))
             v == IF ~Unlisted(n) /\ goesOn THEN <<o>> ELSE <<>>
             y == v \o Tail(u)
             w == WalkState(y, ys, s + 1, b + size, tr)
  <2> HIDE DEF seen, counted, goesOn, kept, o, size
  <2>2. listed = WalkState(Tail(t), IF kept THEN xs ELSE Append(xs, Item(n)), s + 1, b + size, tr)
    <3>1. CASE kept
      BY <1>6, <3>1
    <3>2. CASE ~kept
      <4> DEFINE i == Item(n)
      <4>1. listed = [counted EXCEPT !.items = Append(@, i)]
        BY <3>2
      <4> HIDE DEF listed, i
      <4>2. listed = WalkState(Tail(t), Append(xs, i), s + 1, b + size, tr)
        BY <1>6, <4>1 DEF WalkState
      <4> QED
        BY <3>2, <4>2 DEF i
    <3> QED
      BY <3>1, <3>2
  <2>3. Tail(u) = <<>> \o Tail(u)
    <3>1. PICK D : u \in Seq(D)
      BY <1>4 DEF Walking, IsSequence
    <3>2. Tail(u) \in Seq(D)
      BY <1>1, <3>1
    <3> DEFINE tail == Tail(u)
    <3> HIDE DEF tail
    <3>3. tail \in Seq(D) => tail = <<>> \o tail
      OBVIOUS
    <3> QED
      BY <3>2, <3>3 DEF tail
  <2>4. Walked(w)
    <3>1. CASE Unlisted(n)
      <4>1. y = Tail(t) /\ ys = xs
        BY <1>3, <2>3, <3>1
      <4> HIDE DEF y, ys
      <4> QED
        BY <1>6, <2>1, <3>1, <4>1
    <3>2. CASE ~Unlisted(n) /\ ~goesOn
      <4>1. y = Tail(t) /\ ys = IF kept THEN xs ELSE Append(xs, Item(n))
        BY <1>3, <2>3, <3>2
      <4> HIDE DEF y, ys, listed
      <4> QED
        BY <2>1, <2>2, <3>2, <4>1
    <3>3. CASE ~Unlisted(n) /\ goesOn
      <4>1. y = <<o>> \o Tail(t) /\ ys = IF kept THEN xs ELSE Append(xs, Item(n))
        BY <1>3, <3>3
      <4>2. listed = WalkState(Tail(t), ys, s + 1, b + size, tr)
        BY <2>2, <4>1
      <4> HIDE DEF y, ys, listed
      <4> DEFINE todo == <<o>> \o Tail(t)
      <4>3. Walked([listed EXCEPT !.todo = <<o>> \o @])
        BY <2>1, <3>3
      <4>4. listed.todo = Tail(t)
        <5> DEFINE rest == Tail(t)
        <5>1. listed = WalkState(rest, ys, s + 1, b + size, tr)
          BY <4>2
        <5> HIDE DEF rest
        <5>2. listed.todo = rest
          BY <5>1, WalkFields
        <5> QED
          BY <5>2 DEF rest
      <4>5. Walked([listed EXCEPT !.todo = todo])
        BY <4>3, <4>4
      <4> HIDE DEF todo
      <4>6. [listed EXCEPT !.todo = todo] = WalkState(todo, ys, s + 1, b + size, tr)
        BY <4>2 DEF WalkState
      <4>7. y = todo
        BY <1>3, <4>1 DEF todo
      <4> QED
        BY <4>5, <4>6, <4>7
    <3> QED
      BY <3>1, <3>2, <3>3
  <2>5. Reached(here) /\ n \in Nodes /\ request.start \in Above[n] /\ here.depth = Cardinality(Way(n))
    <3>1. PICK D : u \in Seq(D)
      BY <1>4 DEF Walking, IsSequence
    <3>2. Reached(here)
      BY <1>1, <1>4, <3>1 DEF Walking
    <3> QED
      BY <1>1, <3>2 DEF Reached
  <2>6. o.op = "open" /\ o.node = n /\ o.depth = here.depth
    BY DEF o, Open
  <2>7. ASSUME NEW m \in Nodes, Exists(m), Eligible(m), n \in Upto(m)
        PROVE  (m = n /\ ys = Append(xs, Item(n))) \/ (m # n /\ v = <<o>>)
    <3>1. /\ ~Unlisted(n)
          /\ m = n => ~kept
          /\ m # n => n \in Dirs /\ here.depth < request.depth
      BY <1>1, <2>5, <2>7, EligibleBelow DEF kept
    <3>2. m # n => goesOn
      BY <3>1 DEF goesOn
    <3> QED
      BY <3>1, <3>2
  <2>8. /\ ys = xs \/ ys = Append(xs, Item(n))
        /\ v = <<>> \/ (v = <<o>> /\ n \in Dirs)
    BY DEF goesOn
  <2>9. Walking(y, ys, tr)
    <3>1. y = v \o Tail(u) /\ here = Head(u) /\ n = Head(u).node
      OBVIOUS
    <3> HIDE DEF y, v, ys, u, o, n
    <3> QED
      BY <1>1, <1>4, <2>6, <2>7, <2>8, <3>1, EntryDone
  <2> HIDE DEF y, ys
  <2>10. Walking(w.todo, w.items, w.truncated)
    BY <2>9, WalkFields
  <2> HIDE DEF w
  <2> QED
    BY <1>1, <2>4, <2>10, TreeTo
<1> QED
  BY <1>7, <1>8, <1>9, <1>10

\* What an answer says of a node that the walk should come to.
Owed(ms, n) ==
  CASE request.tool = "list" -> Lists(ms, n)
    [] request.tool = "find" -> (Tree[n].glob => Lists(ms, n))
    [] OTHER -> (Searchable(n) => HitsShown(n, ms))

AllOwed(ms, said) ==
  /\ \A i, j \in DOMAIN ms :
       i # j => \/ ms[i].node # ms[j].node
                \/ request.tool = "search" /\ ms[i].line # ms[j].line
  /\ ~said => \A n \in Nodes \ touched : Eligible(n) /\ Exists(n) => Owed(ms, n)

LEMMA OwedIs == NothingLostSilently <=> (stage = "done" => AllOwed(found, cut))
BY Zenon DEF NothingLostSilently, AllOwed, Owed, Lists, HitsShown

\* An answer that owes nothing.
LEMMA AnsweredTree ==
  ASSUME WalkTree, stage \in {"walk", "search"}, stage' = "done", request' = request,
         UNCHANGED treeVars, AllOwed(found', cut')
  PROVE  WalkTree'
<1>1. \A n : Eligible(n)' <=> Eligible(n)
  BY SameEligible
<1>2. touched' = touched /\ content' = content
  BY DEF treeVars
<1>3. \A n : Searchable(n)' <=> Searchable(n)
  BY <1>2 DEF Searchable
<1>4. \A n : Exists(n)' <=> Exists(n)
  BY <1>2 DEF Exists
<1>5. \A n : Owed(found, n)' <=> Owed(found', n)
  BY <1>2, <1>3 DEF Owed, Lists, HitsShown
<1>6. AllOwed(found, cut)'
  BY <1>1, <1>2, <1>4, <1>5 DEF AllOwed
<1>7. NothingLostSilently'
  BY <1>6, OwedIs, PTL
<1> QED
  BY <1>7 DEF WalkTree

\* What mcpList and mcpSearch keep is the first entries, and all unless they say.
LEMMA AnswerKeeps ==
  ASSUME NEW E, NEW xs, xs \in Seq(E), NEW tr, Answer(xs, tr)
  PROVE  /\ \E m \in 0..Len(xs) : found' = SubSeq(xs, 1, m)
         /\ ~cut' => ~tr /\ found' = xs
<1> DEFINE Keeps(k) == AnswerSize(SubSeq(xs, 1, k), TRUE) <= ModelBytes
           K == {0} \cup {k \in 1..(Len(xs) - 1) : Keeps(k)}
           m == Max(K)
<1>1. found' = IF AnswerSize(xs, tr) <= ModelBytes THEN xs ELSE SubSeq(xs, 1, m)
  BY DEF Answer, Trimmed
<1>2. cut' = (tr \/ Len(found') < Len(xs))
  BY DEF Answer
<1>3. Len(xs) \in Nat /\ xs = SubSeq(xs, 1, Len(xs))
  OBVIOUS
<1> HIDE DEF m, Keeps
<1>4. m \in 0..Len(xs)
  <2>1. \A k \in K : k \in 0..Len(xs) /\ k \in Int /\ k <= Len(xs)
    BY <1>3
  <2>2. K \subseteq Int /\ K # {} /\ (\A k \in K : k <= Len(xs)) /\ Len(xs) \in Int
    BY <1>3, <2>1
  <2> HIDE DEF K
  <2>3. m \in K
    BY <2>2, MaxOf DEF m
  <2> QED
    BY <2>1, <2>3
<1>5. CASE found' = xs
  <2>1. \E k \in 0..Len(xs) : found' = SubSeq(xs, 1, k)
    <3> DEFINE k == Len(xs)
    <3>1. k \in 0..Len(xs) /\ found' = SubSeq(xs, 1, k)
      BY <1>3, <1>5
    <3> QED
      BY <3>1
  <2>2. ~cut' => ~tr
    BY <1>2, Zenon
  <2> QED
    BY <1>5, <2>1, <2>2
<1>6. CASE found' = SubSeq(xs, 1, m)
  <2>1. Len(found') = m
    BY <1>3, <1>4, <1>6
  <2>2. ASSUME ~cut' PROVE ~tr /\ found' = xs
    <3>1. ~tr /\ ~(Len(found') < Len(xs))
      BY <1>2, <2>2, Zenon
    <3>2. ~(m < Len(xs))
      BY <2>1, <3>1, Zenon
    <3>3. m = Len(xs)
      <4> DEFINE b == Len(xs)
      <4>1. b \in Nat /\ m \in 0..b /\ ~(m < b)
        BY <1>3, <1>4, <3>2, Zenon
      <4> HIDE DEF b, K
      <4>2. m = b
        BY <4>1
      <4> QED
        BY <4>2 DEF b
    <3> QED
      BY <1>3, <1>6, <3>1, <3>3
  <2> QED
    BY <1>4, <1>6, <2>2
<1> QED
  BY <1>1, <1>5, <1>6

\* List's answer: the first items, and all of them unless it says so.
LEMMA ListKeepsTree ==
  ASSUME WalkTree, ListAnswer, UNCHANGED treeVars
  PROVE  WalkTree'
<1> DEFINE its == walk.items
           a == Len(its)
           m == Min({a, ListEntries})
           xs == SubSeq(its, 1, m)
           tr == walk.truncated \/ a > ListEntries
<1>1. /\ stage = "walk" /\ request.tool = "list" /\ walk.todo = <<>> /\ Answer(xs, tr)
      /\ Walking(walk.todo, its, walk.truncated)
  BY DEF ListAnswer, WalkDone, WalkTree
<1>2. ItemsOnce(its) /\ (~walk.truncated => Complete(<<>>, its))
  BY <1>1 DEF Walking
<1>3. PICK E : its \in Seq(E)
  BY <1>2 DEF ItemsOnce, IsSequence
<1>4. a \in Nat /\ ListEntries \in Nat /\ DOMAIN its = 1..a /\ its = SubSeq(its, 1, a)
  BY <1>3, WalkAssumption
<1>5. m = IF a <= ListEntries THEN a ELSE ListEntries
  <2> HIDE DEF a
  <2> QED
    BY <1>4, MinOf
<1>6. m \in 0..a /\ (~(a > ListEntries) => m = a)
  BY <1>4, <1>5
<1> HIDE DEF m
<1>7. xs \in Seq(E) /\ Len(xs) = m
  BY <1>3, <1>4, <1>6
<1>8. PICK k \in 0..Len(xs) : found' = SubSeq(xs, 1, k)
  BY <1>1, <1>7, AnswerKeeps
<1>9. DOMAIN found' = 1..k /\ \A i \in 1..k : i \in DOMAIN its /\ found'[i] = its[i]
  <2>1. k \in 0..m /\ k \in Nat /\ m \in Nat
    BY <1>4, <1>6, <1>7, <1>8
  <2>2. \A i \in 1..m : i \in DOMAIN its /\ xs[i] = its[i]
    BY <1>3, <1>4, <1>6
  <2>3. DOMAIN found' = 1..k /\ \A i \in 1..k : found'[i] = xs[i] /\ i \in 1..m
    BY <1>7, <1>8, <2>1
  <2> QED
    BY <2>2, <2>3
<1>10. \A i, j \in DOMAIN found' : i # j => found'[i].node # found'[j].node
  BY <1>2, <1>9 DEF ItemsOnce
<1>11. ASSUME ~cut', NEW n \in Nodes \ touched, Eligible(n), Exists(n) PROVE Lists(found', n)
  <2>1. ~tr /\ found' = xs
    BY <1>1, <1>7, <1>11, AnswerKeeps
  <2>2. ~walk.truncated /\ found' = its
    BY <1>4, <1>6, <2>1
  <2> DEFINE e == <<>>
  <2>3. DOMAIN e = {} /\ Complete(e, its)
    BY <1>2, <2>2
  <2> HIDE DEF e
  <2> QED
    BY <1>11, <2>2, <2>3 DEF Complete
<1>12. AllOwed(found', cut')
  BY <1>1, <1>10, <1>11 DEF AllOwed, Owed
<1>13. stage' = "done" /\ request' = request
  BY <1>1 DEF Answer
<1> QED
  BY <1>1, <1>12, <1>13, AnsweredTree

\* Search's answer: the first matches, and all of them unless it says so.
LEMMA SearchAnswerKeepsTree ==
  ASSUME WalkInd, WalkTree, SearchAnswer, UNCHANGED treeVars
  PROVE  WalkTree'
<1> DEFINE tr == cut \/ walk.truncated
<1>1. /\ stage = "search" /\ request.tool = "search" /\ (walk.items = <<>> \/ cut)
      /\ Answer(found, tr) /\ Matching(walk.items, found, walk.truncated, cut)
  BY DEF SearchAnswer, WalkInd, WalkTree
<1>2. PICK E : found \in Seq(E)
  BY <1>1 DEF Matching, IsSequence
<1>3. PICK k \in 0..Len(found) : found' = SubSeq(found, 1, k)
  BY <1>1, <1>2, AnswerKeeps
<1>4. DOMAIN found' = 1..k /\ \A i \in 1..k : i \in DOMAIN found /\ found'[i] = found[i]
  BY <1>2, <1>3
<1>5. \A i, j \in DOMAIN found' : i # j => found'[i].node # found'[j].node \/ found'[i].line # found'[j].line
  BY <1>1, <1>4 DEF Matching
<1>6. ASSUME ~cut', NEW n \in Nodes \ touched, Eligible(n), Exists(n), Searchable(n) PROVE HitsShown(n, found')
  <2>1. ~tr /\ found' = found
    BY <1>1, <1>2, <1>6, AnswerKeeps
  <2>2. ~cut /\ ~walk.truncated /\ walk.items = <<>>
    BY <1>1, <2>1
  <2>3. ~Lists(walk.items, n)
    BY <2>2, NoItems
  <2> QED
    BY <1>1, <1>6, <2>1, <2>2, <2>3 DEF Matching
<1>7. AllOwed(found', cut')
  BY <1>1, <1>5, <1>6 DEF AllOwed, Owed
<1>8. stage' = "done" /\ request' = request
  BY <1>1 DEF Answer
<1> QED
  BY <1>1, <1>7, <1>8, AnsweredTree

\* The entries of a list at some of its places, in some order.
PickOf(ms, its, P, c) ==
  /\ DOMAIN ms = 1..c /\ Len(ms) = c
  /\ IsSequence(ms)
  /\ \A i, j \in DOMAIN ms : i # j => ms[i].node # ms[j].node
  /\ \A i \in P : \E k \in DOMAIN ms : ms[k] = its[i]

\* The entries of a list of different nodes at some of its places, each once.
LEMMA PickedOnce ==
  ASSUME NEW its, ItemsOnce(its), NEW P, P \subseteq DOMAIN its,
         NEW c \in Nat, NEW at \in [1..c -> P],
         \A j, k \in 1..c : j # k => at[j] # at[k], \A i \in P : \E k \in 1..c : at[k] = i,
         NEW ms, ms = [k \in 1..c |-> its[at[k]]]
  PROVE  PickOf(ms, its, P, c)
<1>1. PICK E : its \in Seq(E)
  BY DEF ItemsOnce, IsSequence
<1>2. \A i \in P : its[i] \in E
  BY <1>1
<1>3. ms \in [1..c -> E]
  BY <1>2
<1>4. ms \in Seq(E) /\ Len(ms) = c /\ DOMAIN ms = 1..c
  BY <1>3
<1>4a. IsSequence(ms)
  BY <1>4 DEF IsSequence
<1>5. \A i, j \in DOMAIN ms : i # j => ms[i].node # ms[j].node
  BY <1>4 DEF ItemsOnce
<1>6. \A i \in P : \E k \in DOMAIN ms : ms[k] = its[i]
  BY <1>4
<1> QED
  BY <1>4, <1>4a, <1>5, <1>6 DEF PickOf

\* The place of an entry among some of a list, in the order of the nodes.
PlaceIn(its, P, i) ==
  Cardinality({j \in P : its[j].node < its[i].node \/ (its[j].node = its[i].node /\ j <= i)})

\* Each place is that of one entry.
LEMMA PlacesOf ==
  ASSUME NEW its, ItemsOnce(its), NEW P, P \subseteq DOMAIN its
  PROVE  /\ Cardinality(P) \in Nat
         /\ \A i \in P : PlaceIn(its, P, i) \in 1..Cardinality(P)
         /\ \A i, j \in P : i # j => PlaceIn(its, P, i) # PlaceIn(its, P, j)
         /\ \A k \in 1..Cardinality(P) : \E i \in P : PlaceIn(its, P, i) = k
<1> DEFINE B == [i \in P |-> {j \in P : its[j].node < its[i].node \/ (its[j].node = its[i].node /\ j <= i)}]
           c == Cardinality(P)
<1>1. PICK E : its \in Seq(E)
  BY DEF ItemsOnce, IsSequence
<1>2. IsFiniteSet(P) /\ \A i \in P : i \in Nat
  <2>1. DOMAIN its = 1..Len(its) /\ Len(its) \in Nat
    BY <1>1
  <2>2. IsFiniteSet(1..Len(its))
    BY <2>1, FS_Interval
  <2> QED
    BY <2>1, <2>2, FS_Subset
<1>3. /\ \A i \in P : its[i].node \in Nat
      /\ \A i, j \in P : i # j => its[i].node # its[j].node
  BY TreeAssumption DEF ItemsOnce
<1>4. \A i \in P : PlaceIn(its, P, i) = Cardinality(B[i])
  BY DEF PlaceIn
<1>5. /\ B \in [P -> SUBSET P]
      /\ \A i \in P : i \in B[i]
      /\ \A i, j \in P : i # j => (B[i] \subseteq B[j] /\ j \notin B[i]) \/ (B[j] \subseteq B[i] /\ i \notin B[j])
  <2>1. \A i \in P : B[i] \subseteq P
    OBVIOUS
  <2>2. \A i, j \in P : j \in B[i] <=> its[j].node < its[i].node \/ j = i
    <3> SUFFICES ASSUME NEW i \in P, NEW j \in P
                 PROVE  j \in B[i] <=> its[j].node < its[i].node \/ j = i
      OBVIOUS
    <3>1. j \in B[i] <=> its[j].node < its[i].node \/ (its[j].node = its[i].node /\ j <= i)
      OBVIOUS
    <3> QED
      BY <1>2, <1>3, <3>1
  <2>3. B \in [P -> SUBSET P]
    OBVIOUS
  <2> HIDE DEF B
  <2>4. ASSUME NEW i \in P, NEW j \in P, its[i].node < its[j].node PROVE B[i] \subseteq B[j] /\ j \notin B[i]
    <3>1. ASSUME NEW x \in B[i] PROVE x \in B[j]
      <4>1. x \in P /\ (its[x].node < its[i].node \/ x = i)
        BY <2>1, <2>2, <3>1
      <4>2. its[x].node < its[j].node
        BY <1>3, <2>4, <4>1
      <4> QED
        BY <2>2, <4>1, <4>2
    <3>2. j \notin B[i]
      BY <1>3, <2>2, <2>4
    <3> QED
      BY <3>1, <3>2
  <2>5. \A i, j \in P : i # j => its[i].node < its[j].node \/ its[j].node < its[i].node
    BY <1>3
  <2> QED
    BY <2>2, <2>3, <2>4, <2>5
<1> HIDE DEF B
<1> QED
  BY <1>2, <1>4, <1>5, RankOnto

\* Find's answer: the first matches, and all of them unless it says so.
LEMMA FindKeepsTree ==
  ASSUME WalkTree, FindAnswer, UNCHANGED treeVars
  PROVE  WalkTree'
<1> DEFINE its == walk.items
           P == {i \in DOMAIN its : Tree[its[i].node].glob}
           Node(i) == its[i].node
           Place(i) == Cardinality({j \in P : Node(j) < Node(i) \/ (Node(j) = Node(i) /\ j <= i)})
           choice(k) == CHOOSE i \in P : Place(i) = k
           at == [k \in 1..Cardinality(P) |-> choice(k)]
           ms == [k \in 1..Cardinality(P) |-> its[at[k]]]
           c == Len(ms)
           m == Min({c, FindMatches})
<1>1. /\ stage = "walk" /\ request.tool = "find" /\ walk.todo = <<>>
      /\ Walking(walk.todo, its, walk.truncated) /\ stage' = "done" /\ request' = request
  BY DEF FindAnswer, WalkDone, WalkTree
<1>2. found' = SubSeq(ms, 1, m) /\ cut' = (walk.truncated \/ c > FindMatches)
  <2> DEFINE ns == [k \in 1..Cardinality(P) |-> its[choice(k)]]
  <2>1. /\ found' = SubSeq(ns, 1, Min({Len(ns), FindMatches}))
        /\ cut' = (walk.truncated \/ Len(ns) > FindMatches)
    BY DEF FindAnswer
  <2>2. ns = ms
    <3> HIDE DEF choice, P, its
    <3> QED
      OBVIOUS
  <2>3. m = Min({Len(ms), FindMatches}) /\ c = Len(ms)
    OBVIOUS
  <2> HIDE DEF ms, ns, m, c, its, P
  <2> QED
    BY <2>1, <2>2, <2>3
<1>3. ItemsOnce(its) /\ (~walk.truncated => Complete(<<>>, its))
  BY <1>1 DEF Walking
<1>4. /\ DOMAIN ms = 1..c /\ c \in Nat
      /\ IsSequence(ms)
      /\ \A i, j \in DOMAIN ms : i # j => ms[i].node # ms[j].node
      /\ \A i \in P : \E k \in DOMAIN ms : ms[k] = its[i]
  <2>1. P \subseteq DOMAIN its
    OBVIOUS
  <2>2. /\ Cardinality(P) \in Nat
        /\ \A i \in P : PlaceIn(its, P, i) \in 1..Cardinality(P)
        /\ \A i, j \in P : i # j => PlaceIn(its, P, i) # PlaceIn(its, P, j)
        /\ \A k \in 1..Cardinality(P) : \E i \in P : PlaceIn(its, P, i) = k
    BY <1>3, <2>1, PlacesOf
  <2>2a. \A i : PlaceIn(its, P, i) = Place(i)
    BY DEF PlaceIn
  <2> HIDE DEF P, its, Place
  <2>3. \A k \in 1..Cardinality(P) : at[k] \in P /\ PlaceIn(its, P, at[k]) = k
    BY <2>2, <2>2a
  <2>4. at \in [1..Cardinality(P) -> P] /\ ms = [k \in 1..Cardinality(P) |-> its[at[k]]]
    BY <2>3
  <2> HIDE DEF at, ms
  <2>5. \A j, k \in 1..Cardinality(P) : j # k => at[j] # at[k]
    BY <2>3
  <2>6. \A i \in P : \E k \in 1..Cardinality(P) : at[k] = i
    BY <2>2, <2>3
  <2>7. PickOf(ms, its, P, Cardinality(P))
    BY <1>3, <2>1, <2>2, <2>4, <2>5, <2>6, PickedOnce
  <2> QED
    BY <2>2, <2>7 DEF PickOf
<1> HIDE DEF ms
<1>5. PICK E : ms \in Seq(E)
  BY <1>4 DEF IsSequence
<1>6. m = IF c <= FindMatches THEN c ELSE FindMatches
  <2>1. c \in Int /\ FindMatches \in Int
    BY <1>4, WalkAssumption
  <2> HIDE DEF c
  <2> QED
    BY <2>1, MinOf
<1>7. m \in 0..c /\ (~(c > FindMatches) => m = c)
  BY <1>4, <1>6, WalkAssumption
<1> HIDE DEF m
<1>8. DOMAIN found' = 1..m /\ \A i \in 1..m : i \in DOMAIN ms /\ found'[i] = ms[i]
  <2>1. ms \in Seq(E) /\ m \in 0..Len(ms) /\ found' = SubSeq(ms, 1, m)
    BY <1>2, <1>5, <1>7
  <2> QED
    BY <2>1
<1>9. \A i, j \in DOMAIN found' : i # j => found'[i].node # found'[j].node
  BY <1>4, <1>8
<1>10. ASSUME ~cut', NEW n \in Nodes \ touched, Eligible(n), Exists(n), Tree[n].glob PROVE Lists(found', n)
  <2>1. ~walk.truncated /\ ~(c > FindMatches)
    BY <1>2, <1>10, Zenon
  <2>2. m = c
    BY <1>7, <2>1
  <2> DEFINE e == <<>>
  <2>3. DOMAIN e = {} /\ Complete(e, its)
    BY <1>3, <2>1
  <2> HIDE DEF e
  <2>4. PICK i \in DOMAIN its : its[i].node = n
    BY <1>10, <2>3 DEF Complete, Lists
  <2>5. i \in P
    BY <1>10, <2>4
  <2>6. PICK k \in DOMAIN ms : ms[k] = its[i]
    BY <1>4, <2>5
  <2>7. k \in 1..m /\ found'[k] = its[i]
    BY <1>4, <1>8, <2>2, <2>6
  <2> QED
    BY <1>8, <2>4, <2>7 DEF Lists
<1>11. AllOwed(found', cut')
  BY <1>1, <1>9, <1>10 DEF AllOwed, Owed
<1>12. stage \in {"walk", "search"} /\ stage' = "done" /\ request' = request
  BY <1>1
<1> HIDE DEF its
<1> QED
  BY <1>11, <1>12, AnsweredTree

\* The hits that are taken of a file: different lines, and all unless it stops.
HitsOf(hs, n, stop) ==
  /\ IsSequence(hs)
  /\ \A i \in DOMAIN hs : hs[i].node = n
  /\ \A i, j \in DOMAIN hs : i # j => hs[i].line # hs[j].line
  /\ ~stop => HitsShown(n, hs)

LEMMA HitsTaken ==
  ASSUME NEW n, content[n] \in Contents
  PROVE  HitsOf(Hits(n, content[n]).matches, n, Hits(n, content[n]).stop)
<1> DEFINE c == content[n]
           T == {i \in DOMAIN c.lines : c.lines[i].spans > 0}
           hits == Cardinality(T)
           M(i) == MatchOf(n, c, i)
           match == [k \in 1..hits |-> MatchOf(n, c, HitLine(c, k))]
           Cost(k) == used + SumFunction([j \in 1..k |-> match[j].cost])
           Fits(k) == Len(found) + k <= SearchMatches /\ Cost(k) <= SearchBytes
           K == {0} \cup {k \in 1..hits : Fits(k)}
           taken == Max(K)
           hs == SubSeq(match, 1, taken)
<1>1. Hits(n, c).matches = hs /\ Hits(n, c).stop = (taken < hits)
  BY DEF Hits
<1>2. /\ T \subseteq Nat /\ IsFiniteSet(T) /\ T \subseteq DOMAIN c.lines
      /\ \A l \in DOMAIN c.lines : c.lines[l].spans > 0 => l \in T
  <2>1. T \subseteq 1..Len(c.lines) /\ Len(c.lines) \in Int
    BY LinesOf
  <2> QED
    BY <2>1, RangeFinite
<1>3. \A k : HitLine(c, k) = Kth(T, k)
  BY DEF HitLine
<1>4. \A i : M(i).node = n /\ M(i).line = i
  BY DEF MatchOf
<1>5. match = [k \in 1..hits |-> M(HitLine(c, k))]
  OBVIOUS
<1> DEFINE s == Ascending(T)
<1>6. /\ hits \in Nat
      /\ \A k \in 1..hits : s[k] = HitLine(c, k) /\ s[k] \in Nat
      /\ \A i, j \in 1..hits : i < j => s[i] < s[j]
      /\ \A x \in T : \E k \in 1..hits : s[k] = x
  <2>1. /\ Cardinality(T) \in Nat /\ s \in [1..Cardinality(T) -> T]
        /\ \A i, j \in 1..Cardinality(T) : i < j => s[i] < s[j]
        /\ \A x \in T : \E k \in 1..Cardinality(T) : s[k] = x
    <3> HIDE DEF T
    <3> QED
      BY <1>2, AscendingIs
  <2>2. \A k \in 1..Cardinality(T) : s[k] = Kth(T, k)
    <3> HIDE DEF T
    <3> QED
      BY DEF Ascending
  <2> HIDE DEF s, T
  <2> QED
    BY <1>2, <1>3, <2>1, <2>2
<1> HIDE DEF s, T, hits, M, match, Fits
<1>7. taken \in 0..hits
  <2>1. \A k \in K : k \in 0..hits /\ k \in Int /\ k <= hits
    BY <1>6
  <2>2. K \subseteq Int /\ K # {} /\ (\A k \in K : k <= hits) /\ hits \in Int
    BY <1>6, <2>1
  <2> HIDE DEF K
  <2>3. taken \in K
    BY <2>2, MaxOf
  <2> HIDE DEF taken
  <2> QED
    BY <2>1, <2>3
<1> HIDE DEF taken
<1> DEFINE E == {match[k] : k \in 1..hits}
<1>8. match \in Seq(E) /\ Len(match) = hits
  <2>1. match \in [1..hits -> E]
    BY <1>5
  <2> HIDE DEF E
  <2> QED
    BY <1>6, <2>1
<1> HIDE DEF E
<1>9. hs \in Seq(E) /\ DOMAIN hs = 1..taken /\ \A i \in 1..taken : i \in 1..hits /\ hs[i] = match[i]
  BY <1>6, <1>7, <1>8
<1> HIDE DEF hs
<1>10. \A i \in DOMAIN hs : hs[i].node = n /\ hs[i].line = s[i] /\ i \in 1..hits
  <2> SUFFICES ASSUME NEW i \in DOMAIN hs
               PROVE  hs[i].node = n /\ hs[i].line = s[i] /\ i \in 1..hits
    OBVIOUS
  <2>1. i \in 1..hits /\ hs[i] = match[i]
    BY <1>9
  <2>2. match[i] = M(HitLine(c, i)) /\ s[i] = HitLine(c, i)
    BY <1>5, <1>6, <2>1
  <2> QED
    BY <1>4, <2>1, <2>2
<1>11. \A i, j \in 1..hits : i # j => s[i] # s[j]
  <2> SUFFICES ASSUME NEW i \in 1..hits, NEW j \in 1..hits, i # j, s[i] = s[j] PROVE FALSE
    OBVIOUS
  <2>1. i < j \/ j < i
    BY <1>6
  <2>2. s[i] \in Nat
    BY <1>6
  <2> QED
    BY <1>6, <2>1, <2>2
<1>12. ASSUME ~(taken < hits), NEW l \in DOMAIN c.lines, c.lines[l].spans > 0
       PROVE  \E i \in DOMAIN hs : hs[i].node = n /\ hs[i].line = l
  <2>1. l \in T
    BY <1>2, <1>12
  <2>2. PICK k \in 1..hits : s[k] = l
    BY <1>6, <2>1
  <2>3. taken = hits
    BY <1>6, <1>7, <1>12
  <2>4. k \in DOMAIN hs
    BY <1>9, <2>3
  <2> QED
    BY <1>10, <2>2, <2>4
<1>13. ~(taken < hits) => HitsShown(n, hs)
  BY <1>12 DEF HitsShown
<1>14. HitsOf(hs, n, taken < hits)
  BY <1>9, <1>10, <1>11, <1>13 DEF HitsOf, IsSequence
<1> QED
  BY <1>1, <1>14

\* Search is done with the first item.
LEMMA ItemPassed ==
  ASSUME NEW xs, ItemsOnce(xs), xs # <<>>, NEW ys, ys = Tail(xs), NEW n, n = Head(xs).node
  PROVE  /\ ItemsOnce(ys)
         /\ \A m : Lists(ys, m) => Lists(xs, m)
         /\ \A m : Lists(xs, m) => Lists(ys, m) \/ m = n
         /\ Lists(xs, n) /\ ~Lists(ys, n) /\ n \in Nodes
         /\ n \notin touched => Head(xs).size = NodeSize(n)
<1>1. PICK E : xs \in Seq(E)
  BY DEF ItemsOnce, IsSequence
<1>2. /\ Len(xs) \in Nat \ {0} /\ DOMAIN xs = 1..Len(xs) /\ Head(xs) = xs[1]
      /\ ys \in Seq(E) /\ DOMAIN ys = 1..(Len(xs) - 1)
      /\ \A i \in 1..(Len(xs) - 1) : ys[i] = xs[i + 1]
  BY <1>1
<1>3. \A i \in DOMAIN ys : i + 1 \in DOMAIN xs /\ i + 1 # 1 /\ ys[i] = xs[i + 1]
  BY <1>2
<1>4. 1 \in DOMAIN xs /\ n = xs[1].node /\ Head(xs) = xs[1]
  BY <1>2
<1>5. /\ \A m : Lists(ys, m) => Lists(xs, m)
      /\ Lists(xs, n) /\ ~Lists(ys, n) /\ n \in Nodes
      /\ n \notin touched => Head(xs).size = NodeSize(n)
  BY <1>3, <1>4 DEF Lists, ItemsOnce
<1>6. ASSUME NEW k \in DOMAIN xs, k # 1 PROVE \E i \in DOMAIN ys : ys[i] = xs[k]
  <2>1. k - 1 \in DOMAIN ys /\ (k - 1) + 1 = k
    BY <1>2, <1>6
  <2> QED
    BY <1>2, <2>1
<1>7. \A m : Lists(xs, m) => Lists(ys, m) \/ m = n
  BY <1>4, <1>6 DEF Lists
<1>8. \A i, j \in DOMAIN ys : i # j => ys[i].node # ys[j].node
  <2> SUFFICES ASSUME NEW i \in DOMAIN ys, NEW j \in DOMAIN ys, i # j PROVE ys[i].node # ys[j].node
    OBVIOUS
  <2>1. i + 1 # j + 1
    BY <1>2
  <2> QED
    BY <1>3, <2>1 DEF ItemsOnce
<1>9. ItemsOnce(ys)
  BY <1>2, <1>3, <1>8 DEF ItemsOnce, IsSequence
<1> QED
  BY <1>5, <1>7, <1>9

\* The first item is searched.
LEMMA FileSearched ==
  ASSUME NEW xs, NEW ms, NEW tr, Matching(xs, ms, tr, FALSE), xs # <<>>, NEW ys, ys = Tail(xs),
         NEW n, n = Head(xs).node, NEW hs, NEW stop,
         HitsOf(hs, n, stop \/ n \in touched \/ ~Searchable(n)),
         NEW ns, ns = ms \o hs
  PROVE  Matching(ys, ns, tr, stop)
<1>1. /\ ItemsOnce(ys)
      /\ \A m : Lists(ys, m) => Lists(xs, m)
      /\ \A m : Lists(xs, m) => Lists(ys, m) \/ m = n
      /\ Lists(xs, n) /\ ~Lists(ys, n) /\ n \in Nodes
  BY ItemPassed DEF Matching
<1>2. PICK D : ms \in Seq(D)
  BY DEF Matching, IsSequence
<1>3. PICK E : hs \in Seq(E)
  BY DEF HitsOf, IsSequence
<1>4. ms \in Seq(D \cup E) /\ hs \in Seq(D \cup E)
  BY <1>2, <1>3
<1>5. /\ ns \in Seq(D \cup E) /\ Len(ms) \in Nat /\ Len(hs) \in Nat /\ DOMAIN ns = 1..(Len(ms) + Len(hs))
      /\ \A i \in 1..(Len(ms) + Len(hs)) : ns[i] = IF i <= Len(ms) THEN ms[i] ELSE hs[i - Len(ms)]
      /\ DOMAIN ms = 1..Len(ms) /\ DOMAIN hs = 1..Len(hs)
  BY <1>4, Joined
<1>6. \A i \in DOMAIN ms : i \in DOMAIN ns /\ ns[i] = ms[i]
  BY <1>5
<1>7. ASSUME NEW i \in DOMAIN hs PROVE Len(ms) + i \in DOMAIN ns /\ ns[Len(ms) + i] = hs[i]
  <2> DEFINE k == Len(ms) + i
  <2>1. k \in DOMAIN ns /\ ~(k <= Len(ms)) /\ k - Len(ms) = i
    BY <1>5
  <2> QED
    BY <1>5, <2>1
<1>8. ASSUME NEW i \in DOMAIN ns
      PROVE  \/ i \in DOMAIN ms /\ ns[i] = ms[i]
             \/ i \notin DOMAIN ms /\ i \in Nat /\ i - Len(ms) \in DOMAIN hs /\ ns[i] = hs[i - Len(ms)]
  BY <1>5
<1>9. /\ \A i, j \in DOMAIN ms : i # j => ms[i].node # ms[j].node \/ ms[i].line # ms[j].line
      /\ \A i \in DOMAIN ms : ~Lists(xs, ms[i].node)
  BY DEF Matching
<1>10. /\ \A i \in DOMAIN hs : hs[i].node = n
       /\ \A i, j \in DOMAIN hs : i # j => hs[i].line # hs[j].line
  BY DEF HitsOf
<1>11. ASSUME NEW i \in DOMAIN ns PROVE ~Lists(ys, ns[i].node)
  BY <1>1, <1>8, <1>9, <1>10
<1>12. ASSUME NEW i \in DOMAIN ns, NEW j \in DOMAIN ns, i # j
       PROVE  ns[i].node # ns[j].node \/ ns[i].line # ns[j].line
  <2>1. \A k \in DOMAIN ms : ms[k].node # n
    BY <1>1, <1>9
  <2>2. CASE i \in DOMAIN ms /\ j \in DOMAIN ms
    BY <1>6, <1>9, <1>12, <2>2
  <2>3. CASE i \in DOMAIN ms /\ j \notin DOMAIN ms
    BY <1>8, <1>10, <2>1, <2>3
  <2>4. CASE i \notin DOMAIN ms /\ j \in DOMAIN ms
    BY <1>8, <1>10, <2>1, <2>4
  <2>5. CASE i \notin DOMAIN ms /\ j \notin DOMAIN ms
    <3>1. /\ i \in Nat /\ i - Len(ms) \in DOMAIN hs /\ ns[i] = hs[i - Len(ms)]
          /\ j \in Nat /\ j - Len(ms) \in DOMAIN hs /\ ns[j] = hs[j - Len(ms)]
      BY <1>8, <2>5
    <3>2. i - Len(ms) # j - Len(ms)
      BY <1>5, <1>12, <3>1
    <3> QED
      BY <1>10, <3>1, <3>2
  <2> QED
    BY <2>2, <2>3, <2>4, <2>5
<1>13. ASSUME NEW m, HitsShown(m, ms) \/ HitsShown(m, hs) PROVE HitsShown(m, ns)
  <2> SUFFICES ASSUME NEW l \in DOMAIN content[m].lines, content[m].lines[l].spans > 0
               PROVE  \E i \in DOMAIN ns : ns[i].node = m /\ ns[i].line = l
    BY DEF HitsShown
  <2>1. \/ \E i \in DOMAIN ms : ms[i].node = m /\ ms[i].line = l
        \/ \E i \in DOMAIN hs : hs[i].node = m /\ hs[i].line = l
    BY <1>13 DEF HitsShown
  <2>2. ASSUME NEW i \in DOMAIN ms, ms[i].node = m, ms[i].line = l
        PROVE  \E k \in DOMAIN ns : ns[k].node = m /\ ns[k].line = l
    <3>1. i \in DOMAIN ns /\ ns[i] = ms[i]
      BY <1>6
    <3> QED
      BY <2>2, <3>1
  <2>3. ASSUME NEW i \in DOMAIN hs, hs[i].node = m, hs[i].line = l
        PROVE  \E k \in DOMAIN ns : ns[k].node = m /\ ns[k].line = l
    <3> DEFINE k == Len(ms) + i
    <3>1. k \in DOMAIN ns /\ ns[k] = hs[i]
      BY <1>7
    <3> HIDE DEF k
    <3> QED
      BY <2>3, <3>1
  <2> QED
    BY <2>1, <2>2, <2>3
<1>14. ASSUME ~tr, ~stop, NEW m \in Nodes \ touched, Exists(m), Eligible(m), Searchable(m), ~Lists(ys, m)
       PROVE  HitsShown(m, ns)
  <2>1. CASE m = n
    BY <1>13, <1>14, <2>1 DEF HitsOf
  <2>2. CASE m # n
    <3>1. ~Lists(xs, m)
      BY <1>1, <1>14, <2>2
    <3>2. HitsShown(m, ms)
      BY <1>14, <3>1 DEF Matching
    <3> QED
      BY <1>13, <3>2
  <2> QED
    BY <2>1, <2>2
<1>15. IsSequence(ns)
  BY <1>5 DEF IsSequence
<1> QED
  BY <1>1, <1>11, <1>12, <1>14, <1>15 DEF Matching

\* What is untouched after a step of the others was before it, and as it is.
LEMMA UntouchedNode ==
  ASSUME TreeOK, Edit \/ UNCHANGED treeVars, request' = request, NEW n \in Nodes \ touched'
  PROVE  /\ n \notin touched /\ NodeSize(n)' = NodeSize(n)
         /\ Exists(n)' <=> Exists(n)
         /\ n \in Files => content'[n] = content[n]
         /\ Searchable(n)' <=> Searchable(n)
<1>1. n \notin touched /\ NodeSize(n)' = NodeSize(n) /\ (n \in Files => content'[n] = content[n])
  <2>1. CASE Edit
    BY <2>1, UntouchedStays
  <2>2. CASE UNCHANGED treeVars
    BY <2>2 DEF treeVars, NodeSize
  <2> QED
    BY <2>1, <2>2
<1>2. Exists(n)' <=> Exists(n)
  BY <1>1 DEF Exists
<1>3. Searchable(n)' <=> Searchable(n)
  <2>1. CASE n \in Files
    <3> DEFINE c == content[n]
    <3>1. content'[n] = c
      BY <1>1, <2>1
    <3> HIDE DEF c
    <3>2. Searchable(n)' <=> n \in Files /\ c # NoFile /\ (request.filter => Tree[n].glob)
                              /\ SizeOf(c) <= WholeFileBytes /\ ~c.binary
      BY <3>1 DEF Searchable
    <3>3. Searchable(n) <=> n \in Files /\ c # NoFile /\ (request.filter => Tree[n].glob)
                              /\ SizeOf(c) <= WholeFileBytes /\ ~c.binary
      BY DEF Searchable, c
    <3> QED
      BY <3>2, <3>3
  <2>2. CASE n \notin Files
    BY <2>2 DEF Searchable
  <2> QED
    BY <2>1, <2>2
<1> QED
  BY <1>1, <1>2, <1>3

\* What others do to the tree keeps WalkTree: it says nothing of what they touched.
LEMMA OthersKeepTree ==
  ASSUME TreeOK, WalkTree, UNCHANGED walkVars, Edit \/ UNCHANGED treeVars
  PROVE  WalkTree'
<1>0. /\ request' = request /\ stage' = stage /\ walk' = walk /\ found' = found /\ cut' = cut
  BY DEF walkVars
<1>1. /\ \A n : Eligible(n)' <=> Eligible(n)
      /\ \A t : Reached(t)' <=> Reached(t)
  BY <1>0, SameEligible
<1>2. ASSUME NEW xs, ItemsOnce(xs) PROVE ItemsOnce(xs)'
  <2>1. \A k \in DOMAIN xs : /\ xs[k].node \in Nodes
                            /\ xs[k].node \notin touched' => xs[k].size = NodeSize(xs[k].node)'
    <3> TAKE k \in DOMAIN xs
    <3>1. xs[k].node \in Nodes /\ (xs[k].node \notin touched => xs[k].size = NodeSize(xs[k].node))
      BY <1>2 DEF ItemsOnce
    <3> DEFINE n == xs[k].node
    <3>2. n \notin touched' => n \notin touched /\ NodeSize(n)' = NodeSize(n)
      <4> HIDE DEF n
      <4>1. n \in Nodes
        BY <3>1 DEF n
      <4> QED
        BY <1>0, <4>1, UntouchedNode
    <3> QED
      BY <3>1, <3>2
  <2> QED
    BY <1>2, <2>1 DEF ItemsOnce
<1>3. ASSUME NEW todo, NEW xs, NEW tr, Walking(todo, xs, tr) PROVE Walking(todo, xs, tr)'
  <2>1. Apart(todo)' /\ ApartFrom(todo, xs)'
    BY <1>3 DEF Walking, Apart, ApartFrom, Covers
  <2>2. ASSUME Complete(todo, xs) PROVE Complete(todo, xs)'
    <3> SUFFICES ASSUME \A i \in DOMAIN todo : todo[i].op # "more",
                        NEW n \in Nodes \ touched', Exists(n)', Eligible(n)'
                 PROVE  Lists(xs, n) \/ \E i \in DOMAIN todo : Covers(todo[i], n)
      BY DEF Complete, Lists, Covers
    <3>1. n \in Nodes \ touched /\ Exists(n) /\ Eligible(n)
      BY <1>0, <1>1, UntouchedNode
    <3> QED
      BY <2>2, <3>1 DEF Complete
  <2> QED
    BY <1>1, <1>2, <1>3, <2>1, <2>2 DEF Walking
<1>4. ASSUME NEW n \in Nodes \ touched', Searchable(n)', NEW ms, HitsShown(n, ms) PROVE HitsShown(n, ms)'
  <2>1. content'[n] = content[n]
    BY <1>0, <1>4, UntouchedNode DEF Searchable
  <2> QED
    BY <1>4, <2>1 DEF HitsShown
<1>5. ASSUME NEW xs, NEW ms, NEW tr, NEW stop, Matching(xs, ms, tr, stop) PROVE Matching(xs, ms, tr, stop)'
  <2>1. ASSUME ~tr, ~stop, NEW n \in Nodes \ touched', Exists(n)', Eligible(n)', Searchable(n)'
        PROVE  Lists(xs, n) \/ HitsShown(n, ms)'
    <3>1. n \in Nodes \ touched /\ Exists(n) /\ Eligible(n) /\ Searchable(n)
      BY <1>0, <1>1, <2>1, UntouchedNode
    <3>2. Lists(xs, n) \/ HitsShown(n, ms)
      BY <1>5, <2>1, <3>1 DEF Matching
    <3> QED
      BY <1>4, <2>1, <3>2
  <2> QED
    BY <1>2, <1>5, <2>1 DEF Matching, Lists
<1>6. ASSUME stage = "done", NothingLostSilently PROVE NothingLostSilently'
  <2>1. AllOwed(found, cut)
    BY <1>6, OwedIs
  <2>2. ASSUME NEW n \in Nodes \ touched', Exists(n)', Eligible(n)', ~cut PROVE Owed(found, n)'
    <3>1. n \in Nodes \ touched /\ Exists(n) /\ Eligible(n) /\ (Searchable(n)' <=> Searchable(n))
      BY <1>0, <1>1, <2>2, UntouchedNode
    <3>2. Owed(found, n)
      BY <2>1, <2>2, <3>1 DEF AllOwed
    <3>3. Searchable(n)' /\ HitsShown(n, found) => HitsShown(n, found)'
      <4>1. \A ms : Searchable(n)' /\ HitsShown(n, ms) => HitsShown(n, ms)'
        BY <1>4
      <4> QED
        BY <1>0, <4>1 DEF HitsShown
    <3> QED
      BY <1>0, <3>1, <3>2, <3>3 DEF Owed, Lists
  <2>3. AllOwed(found, cut)'
    BY <1>0, <2>1, <2>2 DEF AllOwed
  <2> QED
    BY <2>3, OwedIs, PTL
<1>7. stage \notin {"done"} => NothingLostSilently'
  BY <1>0 DEF NothingLostSilently
<1>8. Walking(walk.todo, walk.items, walk.truncated) => Walking(walk.todo, walk.items, walk.truncated)'
  <2> DEFINE todo == walk.todo
             xs == walk.items
             tr == walk.truncated
  <2>1. todo' = todo /\ xs' = xs /\ tr' = tr
    BY <1>0
  <2>2. \A a, b, c : Walking(a, b, c) => Walking(a, b, c)'
    BY <1>3
  <2> QED
    BY <1>0, <2>2
<1>9. Matching(walk.items, found, walk.truncated, cut) => Matching(walk.items, found, walk.truncated, cut)'
  <2>2. \A a, b, c, d : Matching(a, b, c, d) => Matching(a, b, c, d)'
    BY <1>5
  <2> QED
    BY <1>0, <2>2
<1> QED
  BY <1>0, <1>6, <1>7, <1>8, <1>9 DEF WalkTree

\* A step of the search keeps WalkTree if its items and matches are as they should be.
LEMMA MatchTo ==
  ASSUME TreeOK, WalkTree, stage \in {"walk", "search"}, stage' = "search", request' = request,
         UNCHANGED treeVars, NEW xs, NEW ms, NEW tr, NEW stop, Matching(xs, ms, tr, stop),
         walk'.items = xs, found' = ms, walk'.truncated = tr, cut' = stop
  PROVE  WalkTree'
<1>1. /\ \A n : Eligible(n)' <=> Eligible(n)
      /\ touched' = touched /\ content' = content
  BY SameEligible DEF treeVars
<1>2. \A n : NodeSize(n)' = NodeSize(n) /\ (Exists(n)' <=> Exists(n)) /\ (Searchable(n)' <=> Searchable(n))
  BY <1>1 DEF NodeSize, Exists, Searchable
<1>3. ItemsOnce(xs)'
  BY <1>1, <1>2 DEF ItemsOnce, Matching
<1>4. \A n : HitsShown(n, ms)' <=> HitsShown(n, ms)
  BY <1>1 DEF HitsShown
<1>5. Matching(xs, ms, tr, stop)'
  BY <1>1, <1>2, <1>3, <1>4 DEF Matching, Lists
<1>6. Matching(walk.items, found, walk.truncated, cut)'
  BY <1>5
<1>7. NothingLostSilently'
  BY DEF NothingLostSilently
<1> QED
  BY <1>6, <1>7 DEF WalkTree

\* A search begins with all that the walk came to.
LEMMA BeginKeepsTree ==
  ASSUME TreeOK, WalkTree, SearchBegin, UNCHANGED treeVars
  PROVE  WalkTree'
<1> DEFINE xs == walk.items
           tr == walk.truncated
           e == <<>>
<1>1. /\ stage = "walk" /\ stage' = "search" /\ walk.todo = e /\ found = e /\ cut = FALSE
      /\ UNCHANGED <<request, walk, found, cut>> /\ Walking(walk.todo, xs, tr)
  BY DEF SearchBegin, WalkDone, WalkTree
<1>2. DOMAIN e = {} /\ IsSequence(e)
  <2>1. e \in Seq({}) /\ DOMAIN e = {}
    OBVIOUS
  <2> HIDE DEF e
  <2> QED
    BY <2>1 DEF IsSequence
<1> HIDE DEF e
<1>3. Walking(e, xs, tr)
  BY <1>1
<1>4. Matching(xs, e, tr, cut)
  BY <1>2, <1>3 DEF Matching, Walking, Complete
<1> QED
  BY <1>1, <1>4, MatchTo

\* An item that is passed over has nothing to show, unless others touched it.
LEMMA ItemSkipped ==
  ASSUME NEW xs, NEW ms, NEW tr, Matching(xs, ms, tr, FALSE), xs # <<>>, NEW ys, ys = Tail(xs),
         Head(xs).node \in touched \/ ~Searchable(Head(xs).node)
  PROVE  Matching(ys, ms, tr, FALSE)
<1> DEFINE n == Head(xs).node
           e == <<>>
<1>1. DOMAIN e = {} /\ IsSequence(e)
  <2>1. e \in Seq({}) /\ DOMAIN e = {}
    OBVIOUS
  <2> HIDE DEF e
  <2> QED
    BY <2>1 DEF IsSequence
<1>2. ms = ms \o e
  <2>1. PICK D : ms \in Seq(D)
    BY DEF Matching, IsSequence
  <2> QED
    BY <2>1
<1> HIDE DEF e, n
<1>3. HitsOf(e, n, FALSE \/ n \in touched \/ ~Searchable(n))
  BY <1>1 DEF HitsOf, n
<1>4. n = Head(xs).node
  BY DEF n
<1> QED
  BY <1>2, <1>3, <1>4, FileSearched

\* What search does not read, it passes over.
LEMMA PassKeepsTree ==
  ASSUME TreeOK, WalkTree, SearchPassesOver, UNCHANGED treeVars
  PROVE  WalkTree'
<1> DEFINE xs == walk.items
           ms == found
           tr == walk.truncated
           n == Head(xs).node
           ys == Tail(xs)
<1>1. /\ stage = "search" /\ xs # <<>> /\ ~cut /\ Matching(xs, ms, tr, cut)
      /\ UNCHANGED <<request, stage, found, cut>> /\ walk' = [walk EXCEPT !.items = Tail(@)]
  BY DEF SearchPassesOver, SkipItem, Searching, WalkTree
<1>2. walk'.items = ys /\ walk'.truncated = tr
  BY <1>1
<1>3. Matching(xs, ms, tr, FALSE)
  BY <1>1 DEF Matching
<1>4. n \in touched \/ ~Searchable(n)
  <2>1. \/ ~Regular(n)
        \/ request.filter /\ ~Tree[n].glob
        \/ Regular(n) /\ Head(xs).size > WholeFileBytes
    BY DEF SearchPassesOver
  <2>2. CASE ~Regular(n) \/ (request.filter /\ ~Tree[n].glob)
    BY <2>2 DEF Regular, Searchable
  <2>3. CASE Regular(n) /\ Head(xs).size > WholeFileBytes
    <3> SUFFICES ASSUME n \notin touched PROVE ~Searchable(n)
      OBVIOUS
    <3>1. ItemsOnce(xs)
      BY <1>1 DEF Matching
    <3> HIDE DEF xs
    <3>2. Head(xs).size = NodeSize(n)
      BY <1>1, <3>1, ItemPassed
    <3>3. NodeSize(n) = SizeOf(content[n]) /\ NodeSize(n) > WholeFileBytes /\ NodeSize(n) \in Nat
      BY <2>3, <3>2, NodeSizeNat DEF NodeSize, Regular
    <3>4. ~(SizeOf(content[n]) <= WholeFileBytes)
      <4>1. WholeFileBytes \in Nat
        BY TreeAssumption
      <4> QED
        BY <3>3, <4>1
    <3> QED
      BY <3>4 DEF Searchable
  <2> QED
    BY <2>1, <2>2, <2>3
<1> HIDE DEF ys, ms, tr
<1>5. Matching(ys, ms, tr, FALSE)
  <2>1. ys = Tail(xs)
    BY DEF ys
  <2> HIDE DEF xs
  <2> QED
    BY <1>1, <1>3, <1>4, <2>1, ItemSkipped
<1>6. Matching(ys, ms, tr, cut)
  BY <1>1, <1>5 DEF Matching
<1>7. found' = ms /\ cut' = cut
  BY <1>1 DEF ms
<1> QED
  BY <1>1, <1>2, <1>6, <1>7, MatchTo

\* A file is searched, or the search ends at the limit on what is read.
LEMMA FileKeepsTree ==
  ASSUME TreeOK, WalkInd, WalkTree, SearchFile, UNCHANGED treeVars
  PROVE  WalkTree'
<1> DEFINE xs == walk.items
           ms == found
           tr == walk.truncated
           item == Head(xs)
           n == item.node
           c == content[n]
           growth == IF Raw(n) > item.size THEN Raw(n) - item.size ELSE 0
           ys == Tail(xs)
<1>1. /\ stage = "search" /\ xs # <<>> /\ ~cut /\ Matching(xs, ms, tr, cut) /\ n \in Files
  BY DEF SearchFile, Searching, WalkTree, Readable, Regular
<1>2. Matching(xs, ms, tr, FALSE)
  BY <1>1 DEF Matching
<1>3. CASE ~Exists(n)
  BY <1>3 DEF SearchFile, WalkFails, WalkTree
<1>4. CASE Exists(n) /\ walk.bytes + growth > ScanBytes
  <2> DEFINE e == <<>>
             yes == TRUE
  <2>1. /\ walk' = [walk EXCEPT !.truncated = yes, !.items = e]
        /\ UNCHANGED <<request, stage, found, cut>>
    BY <1>4 DEF SearchFile
  <2>2. WalkOK(walk, request.scan)
    BY <1>1 DEF WalkInd
  <2>3. walk'.items = e /\ walk'.truncated = yes
    BY <2>1, <2>2 DEF WalkOK
  <2>4. ItemsOnce(e) /\ (\A m : ~Lists(e, m)) /\ yes
    BY NoItems
  <2> HIDE DEF e, yes
  <2>5. Matching(e, ms, yes, cut)
    BY <1>1, <2>4 DEF Matching
  <2> QED
    BY <1>1, <2>1, <2>3, <2>5, MatchTo
<1>5. CASE Exists(n) /\ ~(walk.bytes + growth > ScanBytes)
  <2> DEFINE over == Raw(n) > WholeFileBytes \/ c.binary
             h == Hits(n, c)
  <2>1. /\ walk' = [walk EXCEPT !.bytes = @ + growth, !.items = Tail(@)]
        /\ UNCHANGED <<request, stage>>
        /\ IF over THEN UNCHANGED <<found, cut>>
           ELSE found' = found \o h.matches /\ cut' = h.stop
    BY <1>5 DEF SearchFile
  <2>2. WalkOK(walk, request.scan)
    BY <1>1 DEF WalkInd
  <2>3. walk'.items = ys /\ walk'.truncated = tr
    <3> HIDE DEF growth
    <3> QED
      BY <2>1, <2>2 DEF WalkOK
  <2>4. CASE over
    <3>1. ~Searchable(n)
      <4>1. CASE c.binary
        BY <4>1 DEF Searchable
      <4>2. CASE Raw(n) > WholeFileBytes
        <5>1. NodeSize(n) \in Nat /\ WholeFileBytes \in Nat /\ NodeSize(n) = SizeOf(c)
          BY <1>1, NodeSizeNat, TreeAssumption DEF NodeSize
        <5>2. Raw(n) = IF NodeSize(n) <= WholeFileBytes + 1 THEN NodeSize(n) ELSE WholeFileBytes + 1
          <6>1. WholeFileBytes + 1 \in Nat
            BY <5>1
          <6> QED
            BY <5>1, <6>1, MinOf DEF Raw
        <5>3. ~(SizeOf(c) <= WholeFileBytes)
          <6> HIDE DEF n, c
          <6> QED
            BY <4>2, <5>1, <5>2
        <5> QED
          BY <5>3 DEF Searchable
      <4> QED
        BY <2>4, <4>1, <4>2
    <3> HIDE DEF ys, ms, tr
    <3>2. Matching(ys, ms, tr, FALSE)
      <4>1. ys = Tail(xs)
        BY DEF ys
      <4> HIDE DEF xs
      <4> QED
        BY <1>1, <1>2, <3>1, <4>1, ItemSkipped
    <3>3. Matching(ys, ms, tr, cut)
      BY <1>1, <3>2 DEF Matching
    <3>4. found' = ms /\ cut' = cut
      BY <2>1, <2>4 DEF ms
    <3> QED
      BY <1>1, <2>1, <2>3, <3>3, <3>4, MatchTo
  <2>5. CASE ~over
    <3> DEFINE hs == h.matches
               stop == h.stop
               ns == ms \o hs
    <3>1. c \in Contents
      BY <1>1, <1>5 DEF TreeOK, Exists
    <3>2. HitsOf(hs, n, stop)
      <4> HIDE DEF n
      <4> QED
        BY <3>1, HitsTaken
    <3>3. found' = ns /\ cut' = stop
      BY <2>1, <2>5
    <3>4. ys = Tail(xs) /\ ns = ms \o hs /\ n = Head(xs).node
      OBVIOUS
    <3> HIDE DEF hs, stop, ns, ys, ms, tr, n, xs
    <3>5. HitsOf(hs, n, stop \/ n \in touched \/ ~Searchable(n))
      BY <3>2 DEF HitsOf
    <3>6. Matching(ys, ns, tr, stop)
      BY <1>1, <1>2, <3>4, <3>5, FileSearched
    <3> QED
      BY <1>1, <2>1, <2>3, <3>3, <3>6, MatchTo
  <2> HIDE DEF over
  <2> QED
    BY <2>4, <2>5
<1> QED
  BY <1>3, <1>4, <1>5

\* Every step keeps WalkTree.
LEMMA TreeKept ==
  ASSUME TreeOK, WalkInd, WalkTree, [Next]_vars
  PROVE  WalkTree'
<1>1. CASE WalkNext
  <2>0. UNCHANGED treeVars
    BY <1>1 DEF WalkNext
  <2>1. CASE WalkStart
    BY <2>0, <2>1, StartKeepsTree
  <2>2. CASE OpenDirectory
    BY <2>0, <2>2, OpenKeepsTree
  <2>3. CASE VisitEntry
    BY <2>0, <2>3, VisitKeepsTree
  <2>4. CASE MoreEntries
    BY <2>0, <2>4, MoreKeepsTree
  <2>5. CASE ListAnswer
    BY <2>0, <2>5, ListKeepsTree
  <2>6. CASE FindAnswer
    BY <2>0, <2>6, FindKeepsTree
  <2>7. CASE SearchBegin
    BY <2>0, <2>7, BeginKeepsTree
  <2>8. CASE SearchPassesOver
    BY <2>0, <2>8, PassKeepsTree
  <2>9. CASE SearchFile
    BY <2>0, <2>9, FileKeepsTree
  <2>10. CASE SearchAnswer
    BY <2>0, <2>10, SearchAnswerKeepsTree
  <2>11. CASE WalkCancelled
    BY <2>11 DEF WalkCancelled, WalkFails, WalkTree
  <2> QED
    BY <1>1, <2>1, <2>2, <2>3, <2>4, <2>5, <2>6, <2>7, <2>8, <2>9, <2>10, <2>11 DEF WalkNext
<1>2. CASE UNCHANGED walkVars /\ (Edit \/ UNCHANGED treeVars)
  BY <1>2, OthersKeepTree
<1>3. ReadsNext \/ RepoSearchNext => UNCHANGED treeVars
  BY DEF ReadsNext, RepoSearchNext
<1> QED
  BY <1>1, <1>2, <1>3 DEF Next, vars, OthersEdit, Returned

\* Whatever others edit meanwhile, an answer of List, Find or Search that does
\* not say it is truncated leaves out nothing that nobody touched, and names
\* nothing twice (walk, List, Find, Search, mcpList, mcpSearch).
THEOREM WalksLoseNothingSilently == Spec => []NothingLostSilently
<1>1. Init => TreeOK /\ WalkInd /\ WalkTree
  BY WalkIndInit, WalkTreeInit DEF Init, TreeInit, TreeOK
<1>2. TreeOK /\ WalkInd /\ WalkTree /\ [Next]_vars => TreeOK' /\ WalkInd' /\ WalkTree'
  BY TreeStep, WalkStep, TreeKept
<1>3. WalkTree => NothingLostSilently
  BY DEF WalkTree, NothingLostSilently
<1> QED
  BY <1>1, <1>2, <1>3, PTL DEF Spec

-----------------------------------------------------------------------------
(* Lists without repetition. *)

Elems(s) == {s[i] : i \in DOMAIN s}
Once(s) == IsSequence(s) /\ \A i, j \in DOMAIN s : i # j => s[i] # s[j]

\* One list after another that has nothing of it.
LEMMA OnceJoined ==
  ASSUME NEW a, NEW b, Once(a), Once(b), Elems(a) \cap Elems(b) = {}
  PROVE  Once(a \o b) /\ Elems(a \o b) = Elems(a) \cup Elems(b)
<1>1. PICK D : a \in Seq(D)
  BY DEF Once, IsSequence
<1>2. PICK E : b \in Seq(E)
  BY DEF Once, IsSequence
<1>3. a \in Seq(D \cup E) /\ b \in Seq(D \cup E)
  BY <1>1, <1>2
<1> DEFINE w == a \o b
<1>4. /\ w \in Seq(D \cup E) /\ Len(a) \in Nat /\ Len(b) \in Nat /\ DOMAIN w = 1..(Len(a) + Len(b))
      /\ \A i \in 1..(Len(a) + Len(b)) : w[i] = IF i <= Len(a) THEN a[i] ELSE b[i - Len(a)]
      /\ DOMAIN a = 1..Len(a) /\ DOMAIN b = 1..Len(b)
  BY <1>3, Joined
<1> HIDE DEF w
<1>5. \A i \in DOMAIN a : i \in DOMAIN w /\ w[i] = a[i]
  BY <1>4
<1>6. ASSUME NEW i \in DOMAIN b PROVE Len(a) + i \in DOMAIN w /\ w[Len(a) + i] = b[i]
  <2> DEFINE k == Len(a) + i
  <2>1. k \in DOMAIN w /\ ~(k <= Len(a)) /\ k - Len(a) = i
    BY <1>4
  <2> QED
    BY <1>4, <2>1
<1>7. ASSUME NEW i \in DOMAIN w
      PROVE  \/ i \in DOMAIN a /\ w[i] = a[i]
             \/ i \notin DOMAIN a /\ i \in Nat /\ i - Len(a) \in DOMAIN b /\ w[i] = b[i - Len(a)]
  BY <1>4
<1>8. Elems(w) \subseteq Elems(a) \cup Elems(b)
  <2> SUFFICES ASSUME NEW i \in DOMAIN w PROVE w[i] \in Elems(a) \cup Elems(b)
    BY DEF Elems
  <2> QED
    BY <1>7 DEF Elems
<1>9. Elems(a) \cup Elems(b) \subseteq Elems(w)
  <2>1. \A i \in DOMAIN a : a[i] \in Elems(w)
    BY <1>5 DEF Elems
  <2>2. \A i \in DOMAIN b : b[i] \in Elems(w)
    BY <1>6 DEF Elems
  <2> QED
    BY <2>1, <2>2 DEF Elems
<1>10. ASSUME NEW i \in DOMAIN w, NEW j \in DOMAIN w, i # j PROVE w[i] # w[j]
  <2>1. CASE i \in DOMAIN a /\ j \in DOMAIN a
    BY <1>5, <1>10, <2>1 DEF Once
  <2>2. CASE i \in DOMAIN a /\ j \notin DOMAIN a
    <3>1. w[i] \in Elems(a) /\ w[j] \in Elems(b)
      BY <1>7, <2>2 DEF Elems
    <3> QED
      BY <3>1
  <2>3. CASE i \notin DOMAIN a /\ j \in DOMAIN a
    <3>1. w[i] \in Elems(b) /\ w[j] \in Elems(a)
      BY <1>7, <2>3 DEF Elems
    <3> QED
      BY <3>1
  <2>4. CASE i \notin DOMAIN a /\ j \notin DOMAIN a
    <3>1. /\ i \in Nat /\ i - Len(a) \in DOMAIN b /\ w[i] = b[i - Len(a)]
          /\ j \in Nat /\ j - Len(a) \in DOMAIN b /\ w[j] = b[j - Len(a)]
      BY <1>7, <2>4
    <3>2. i - Len(a) # j - Len(a)
      BY <1>4, <1>10, <3>1
    <3> QED
      BY <3>1, <3>2 DEF Once
  <2> QED
    BY <2>1, <2>2, <2>3, <2>4
<1>11. Once(w)
  BY <1>4, <1>10 DEF Once, IsSequence
<1> QED
  BY <1>8, <1>9, <1>11 DEF w

\* The first so many of a list.
LEMMA OnceFirst ==
  ASSUME NEW s, Once(s), NEW m \in 0..Len(s)
  PROVE  /\ Once(SubSeq(s, 1, m)) /\ Elems(SubSeq(s, 1, m)) \subseteq Elems(s)
         /\ Len(SubSeq(s, 1, m)) = m
         /\ m = Len(s) => SubSeq(s, 1, m) = s
         /\ \A i \in 1..m : i \in DOMAIN SubSeq(s, 1, m) /\ SubSeq(s, 1, m)[i] = s[i]
<1>1. PICK E : s \in Seq(E)
  BY DEF Once, IsSequence
<1> DEFINE t == SubSeq(s, 1, m)
<1>2. /\ t \in Seq(E) /\ Len(t) = m /\ DOMAIN t = 1..m
      /\ \A i \in 1..m : i \in DOMAIN s /\ t[i] = s[i]
      /\ m = Len(s) => t = s
  BY <1>1
<1> HIDE DEF t
<1>3. Elems(t) \subseteq Elems(s)
  <2> SUFFICES ASSUME NEW i \in DOMAIN t PROVE t[i] \in Elems(s)
    BY DEF Elems
  <2> QED
    BY <1>2 DEF Elems
<1>4. Once(t)
  BY <1>2 DEF Once, IsSequence
<1> QED
  BY <1>2, <1>3, <1>4 DEF t

\* A list of one, and of none.
LEMMA OnceFew ==
  /\ Once(<<>>) /\ Elems(<<>>) = {} /\ Len(<<>>) = 0
  /\ \A x : Once(<<x>>) /\ Elems(<<x>>) = {x} /\ Len(<<x>>) = 1
<1>1. Once(<<>>) /\ Elems(<<>>) = {} /\ Len(<<>>) = 0
  <2> DEFINE e == <<>>
  <2>1. e \in Seq({}) /\ DOMAIN e = {} /\ Len(e) = 0
    OBVIOUS
  <2> HIDE DEF e
  <2>2. Once(e) /\ Elems(e) = {}
    BY <2>1 DEF Once, IsSequence, Elems
  <2> QED
    BY <2>1, <2>2 DEF e
<1>2. ASSUME NEW x PROVE Once(<<x>>) /\ Elems(<<x>>) = {x} /\ Len(<<x>>) = 1
  <2> DEFINE e == <<x>>
  <2>1. e \in Seq({x}) /\ DOMAIN e = {1} /\ e[1] = x /\ Len(e) = 1
    OBVIOUS
  <2> HIDE DEF e
  <2>2. Once(e) /\ Elems(e) = {x}
    BY <2>1 DEF Once, IsSequence, Elems
  <2> QED
    BY <2>1, <2>2 DEF e
<1> QED
  BY <1>1, <1>2

\* The values of a function on 1..n, in order.
LEMMA OnceListed ==
  ASSUME NEW n \in Nat, NEW s, DOMAIN s = 1..n, s = [i \in 1..n |-> s[i]],
         \A i, j \in 1..n : i # j => s[i] # s[j]
  PROVE  Once(s) /\ Len(s) = n /\ Elems(s) = {s[i] : i \in 1..n}
<1> DEFINE E == {s[i] : i \in 1..n}
<1>1. s \in [1..n -> E]
  OBVIOUS
<1> HIDE DEF E
<1>2. s \in Seq(E) /\ Len(s) = n
  BY <1>1
<1> QED
  BY <1>2 DEF Once, IsSequence, Elems

-----------------------------------------------------------------------------
(* The lists of a list, one after the other. *)

Flattens(f, N, ss) == f = [i \in 1..N |-> IF i = 1 THEN ss[i] ELSE f[i - 1] \o ss[i]]

\* The recursion of FlattenSeq is well-founded.
LEMMA FlattenDefined ==
  ASSUME NEW N \in Nat \ {0}, NEW ss
  PROVE  \E f : Flattens(f, N, ss)
<1> DEFINE Bad == {n \in Nat \ {0} : ~\E f : Flattens(f, n, ss)}
<1>1. 1 \notin Bad
  <2> DEFINE f == [i \in 1..1 |-> ss[i]]
  <2>1. f = [i \in 1..1 |-> IF i = 1 THEN ss[i] ELSE f[i - 1] \o ss[i]]
    OBVIOUS
  <2> HIDE DEF f
  <2>2. Flattens(f, 1, ss)
    BY <2>1 DEF Flattens
  <2> QED
    BY <2>2
<1>2. ASSUME NEW n \in Bad, n # 1 PROVE n - 1 \in Bad
  <2> SUFFICES ASSUME n - 1 \notin Bad PROVE FALSE
    OBVIOUS
  <2>1. n \in Nat /\ n - 1 \in Nat \ {0} /\ ~\E f : Flattens(f, n, ss)
    BY <1>2
  <2>2. PICK g : Flattens(g, n - 1, ss)
    BY <2>1
  <2>3. g = [i \in 1..(n - 1) |-> IF i = 1 THEN ss[i] ELSE g[i - 1] \o ss[i]]
    BY <2>2 DEF Flattens
  <2> DEFINE h == [i \in 1..n |-> IF i = 1 THEN ss[i] ELSE g[i - 1] \o ss[i]]
  <2> HIDE DEF Bad
  <2> DEFINE next(i) == g[i - 1] \o ss[i]
  <2>3a. /\ g = [i \in 1..(n - 1) |-> IF i = 1 THEN ss[i] ELSE next(i)]
         /\ h = [i \in 1..n |-> IF i = 1 THEN ss[i] ELSE next(i)]
    BY <2>3
  <2>4. \A i \in 1..(n - 1) : h[i] = g[i]
    <3> HIDE DEF next, h
    <3> TAKE i \in 1..(n - 1)
    <3>1. i \in 1..n
      BY <2>1
    <3>2. h[i] = IF i = 1 THEN ss[i] ELSE next(i)
      BY <2>3a, <3>1, Zenon
    <3>3. g[i] = IF i = 1 THEN ss[i] ELSE next(i)
      BY <2>3a, Zenon
    <3> QED
      BY <3>2, <3>3
  <2>5. \A i \in 1..n : i # 1 => i - 1 \in 1..(n - 1)
    BY <2>1
  <2>6. h = [i \in 1..n |-> IF i = 1 THEN ss[i] ELSE h[i - 1] \o ss[i]]
    BY <2>4, <2>5
  <2> HIDE DEF h
  <2>7. Flattens(h, n, ss)
    BY <2>6 DEF Flattens
  <2> QED
    BY <2>1, <2>7
<1>3. Bad = {}
  <2> SUFFICES ASSUME Bad # {} PROVE FALSE
    OBVIOUS
  <2>1. Bad \subseteq Nat
    OBVIOUS
  <2>2. PICK x \in Bad : \A y \in Bad : x <= y
    BY <2>1, Smallest
  <2>3. x # 1 /\ x \in Nat
    BY <1>1, <2>1, <2>2
  <2>4. x - 1 \in Bad
    BY <1>2, <2>2, <2>3
  <2> HIDE DEF Bad
  <2> QED
    BY <2>2, <2>3, <2>4
<1> QED
  BY <1>3

\* Lists that have nothing in common, one after the other.
LEMMA OnceFlattened ==
  ASSUME NEW N \in Nat, NEW ss, IsSequence(ss), Len(ss) = N, \A k \in 1..N : Once(ss[k]),
         \A j, k \in 1..N : j < k => Elems(ss[j]) \cap Elems(ss[k]) = {}
  PROVE  /\ Once(FlattenSeq(ss))
         /\ Elems(FlattenSeq(ss)) = UNION {Elems(ss[k]) : k \in 1..N}
<1>1. CASE N = 0
  <2>1. PICK E : ss \in Seq(E)
    BY DEF IsSequence
  <2>2. ss = <<>>
    BY <1>1, <2>1
  <2>3. FlattenSeq(ss) = ss
    BY <1>1 DEF FlattenSeq
  <2>4. UNION {Elems(ss[k]) : k \in 1..N} = {}
    BY <1>1
  <2> QED
    BY <2>2, <2>3, <2>4, OnceFew
<1>2. CASE N # 0
  <2> DEFINE f == CHOOSE g : Flattens(g, N, ss)
             U(n) == UNION {Elems(ss[k]) : k \in 1..n}
             Good(n) == Once(f[n]) /\ Elems(f[n]) = U(n)
             Bad == {n \in 1..N : ~Good(n)}
  <2>1. FlattenSeq(ss) = f[N]
    BY <1>2 DEF FlattenSeq, Flattens
  <2>2. Flattens(f, N, ss)
    BY <1>2, FlattenDefined
  <2> HIDE DEF f
  <2>3. f[1] = ss[1] /\ \A n \in 1..N : n # 1 => f[n] = f[n - 1] \o ss[n]
    <3>1. \A n \in 1..N : f[n] = IF n = 1 THEN ss[n] ELSE f[n - 1] \o ss[n]
      BY <2>2 DEF Flattens
    <3>2. 1 \in 1..N
      BY <1>2
    <3>3. f[1] = ss[1]
      BY <3>1, <3>2
    <3>4. \A n \in 1..N : n # 1 => f[n] = f[n - 1] \o ss[n]
      BY <3>1, Zenon
    <3> QED
      BY <3>3, <3>4
  <2>4. Good(1)
    <3>1. U(1) = Elems(ss[1])
      OBVIOUS
    <3> QED
      BY <1>2, <2>3, <3>1
  <2>5. ASSUME NEW n \in 1..N, n # 1, Good(n - 1) PROVE Good(n)
    <3>1. Once(f[n - 1]) /\ Elems(f[n - 1]) = U(n - 1) /\ Once(ss[n]) /\ f[n] = f[n - 1] \o ss[n]
      BY <2>3, <2>5
    <3>2. \A k \in 1..(n - 1) : k \in 1..N /\ k < n
      BY <2>5
    <3>3. U(n - 1) \cap Elems(ss[n]) = {}
      BY <3>2
    <3>4. U(n) = U(n - 1) \cup Elems(ss[n])
      <4>1. \A k \in 1..n : k \in 1..(n - 1) \/ k = n
        BY <2>5
      <4> QED
        BY <3>2, <4>1
    <3> HIDE DEF U
    <3>5. Once(f[n]) /\ Elems(f[n]) = U(n - 1) \cup Elems(ss[n])
      <4> DEFINE a == f[n - 1]
                 b == ss[n]
      <4>1. Once(a) /\ Once(b) /\ Elems(a) \cap Elems(b) = {} /\ f[n] = a \o b
        BY <3>1, <3>3
      <4> HIDE DEF a, b
      <4>2. Once(f[n]) /\ Elems(f[n]) = Elems(a) \cup Elems(b)
        BY <4>1, OnceJoined
      <4> QED
        BY <3>1, <4>2 DEF a, b
    <3> QED
      BY <3>4, <3>5
  <2> HIDE DEF Good
  <2>6. Bad = {}
    <3> SUFFICES ASSUME Bad # {} PROVE FALSE
      OBVIOUS
    <3>1. Bad \subseteq Nat
      OBVIOUS
    <3>2. PICK x \in Bad : \A y \in Bad : x <= y
      BY <3>1, Smallest
    <3>3. x \in 1..N /\ ~Good(x)
      OBVIOUS
    <3>4. x # 1 /\ x - 1 \in 1..N
      BY <2>4, <3>3
    <3>5. x - 1 \notin Bad
      BY <3>2, <3>3
    <3>6. Good(x - 1)
      BY <3>4, <3>5
    <3> QED
      BY <2>5, <3>3, <3>4, <3>6
  <2>7. Good(N)
    BY <1>2, <2>6
  <2> QED
    BY <2>1, <2>7 DEF Good
<1> QED
  BY <1>1, <1>2

-----------------------------------------------------------------------------
(* What is reported of a file. *)

\* The lines with a hit, each once and in order.
LEMMA HitLinesAre ==
  ASSUME NEW c \in Contents
  PROVE  /\ Matched(c) \subseteq DOMAIN c.lines /\ DOMAIN c.lines = 1..Len(c.lines) /\ Len(c.lines) \in Nat
         /\ Once(HitLines(c)) /\ Elems(HitLines(c)) = Matched(c)
         /\ Len(HitLines(c)) = Cardinality(Matched(c)) /\ Cardinality(Matched(c)) \in Nat
         /\ \A i, j \in DOMAIN HitLines(c) : i < j => HitLines(c)[i] < HitLines(c)[j]
<1> DEFINE T == Matched(c)
           s == HitLines(c)
           n == Cardinality(T)
<1>1. DOMAIN c.lines = 1..Len(c.lines) /\ Len(c.lines) \in Nat /\ T \subseteq DOMAIN c.lines
  BY LinesOf DEF Matched
<1>2. IsFiniteSet(T) /\ T \subseteq Nat
  <2>1. T \subseteq 1..Len(c.lines) /\ Len(c.lines) \in Int
    BY <1>1
  <2> HIDE DEF T
  <2>2. IsFiniteSet(T)
    BY <2>1, RangeFinite
  <2>3. T \subseteq Nat
    BY <2>1
  <2> QED
    BY <2>2, <2>3
<1>3. s = Ascending(T)
  BY DEF HitLines, Matched
<1> HIDE DEF T, s
<1>4. /\ n \in Nat /\ s \in Seq(T) /\ s \in [1..n -> T] /\ Len(s) = n
      /\ \A i, j \in 1..n : i < j => s[i] < s[j]
      /\ \A x \in T : \E k \in 1..n : s[k] = x
  BY <1>2, <1>3, AscendingIs
<1> HIDE DEF n
<1>5. DOMAIN s = 1..n /\ \A i \in 1..n : s[i] \in T
  BY <1>4
<1>6. Elems(s) = T
  BY <1>4, <1>5 DEF Elems
<1>7. \A i, j \in 1..n : i # j => s[i] # s[j]
  <2> SUFFICES ASSUME NEW i \in 1..n, NEW j \in 1..n, i # j, s[i] = s[j] PROVE FALSE
    OBVIOUS
  <2>1. i < j \/ j < i
    BY <1>4
  <2>2. s[i] \in Nat
    BY <1>2, <1>5
  <2> QED
    BY <1>4, <2>1, <2>2
<1>8. Once(s)
  BY <1>4, <1>5, <1>7 DEF Once, IsSequence
<1> QED
  BY <1>1, <1>4, <1>5, <1>6, <1>8 DEF T, s, n

\* The lines around a hit.
Around(c, h) == {i \in DOMAIN c.lines : h - query.before <= i /\ i <= h + query.after}

\* Sums that stay within the ints do not wrap.
LEMMA WrapIs ==
  ASSUME NEW x \in Int
  PROVE  Wrap(x) \in Int /\ (-MaxInt - 1 <= x /\ x <= MaxInt => Wrap(x) = x)
<1>1. MaxInt \in Nat
  BY IntAssumption
<1>2. CASE x > MaxInt
  <2>1. Wrap(x) = x - 2 * (MaxInt + 1)
    BY <1>1, <1>2 DEF Wrap
  <2> QED
    BY <1>1, <1>2, <2>1
<1>3. CASE ~(x > MaxInt) /\ x < -MaxInt - 1
  <2>1. Wrap(x) = x + 2 * (MaxInt + 1)
    BY <1>3 DEF Wrap
  <2> QED
    BY <1>1, <1>3, <2>1
<1>4. CASE ~(x > MaxInt) /\ ~(x < -MaxInt - 1)
  <2>1. Wrap(x) = x
    BY <1>4 DEF Wrap
  <2> QED
    BY <1>1, <1>4, <2>1
<1> QED
  BY <1>2, <1>3, <1>4

\* The windows of hits in order have no line in common, and unless the context
\* is beyond the ints they are the lines around the hits.
LEMMA WindowsAre ==
  ASSUME NEW c \in Contents, query.before \in Ints, query.after \in Ints, ShowsLines,
         NEW n, NEW hs, IsSequence(hs),
         \A k \in DOMAIN hs : hs[k] \in DOMAIN c.lines, \A i, j \in DOMAIN hs : i < j => hs[i] < hs[j]
  PROVE  /\ Once(Windows(n, c, hs))
         /\ Elems(Windows(n, c, hs)) \subseteq {Shown(n, i, MarkOf(c, i)) : i \in DOMAIN c.lines}
         /\ ~Overflows(c) =>
              Elems(Windows(n, c, hs)) =
                {Shown(n, i, MarkOf(c, i)) : i \in UNION {Around(c, hs[k]) : k \in DOMAIN hs}}
<1> DEFINE b == query.before
           a == query.after
           size == Len(c.lines)
           N == Len(hs)
           From(k) == Wrap(hs[k] - 1 - b) + 1
           To(k) == Wrap(hs[k] - 1 + a) + 1
           Low(k) == Max({1, From(k)})
           End(k) == Min({To(k), size})
           Ends(k) == {0} \cup {End(j) : j \in {i \in 1..(k - 1) : Low(i) <= End(i)}}
           Emitted(k) == Max(Ends(k))
           Begin(k) == Max({Low(k), Emitted(k) + 1})
           Window(k) == [i \in 1..(End(k) + 1 - Begin(k)) |->
                           Shown(n, Begin(k) + i - 1, MarkOf(c, Begin(k) + i - 1))]
           ss == [k \in DOMAIN hs |-> Window(k)]
           X(i) == Shown(n, i, MarkOf(c, i))
<1>1. Windows(n, c, hs) = FlattenSeq(ss)
  BY DEF Windows
<1>2. size \in Nat /\ DOMAIN c.lines = 1..size
  BY LinesOf
<1>3. N \in Nat /\ DOMAIN hs = 1..N
  BY DEF IsSequence
<1>4. \A i, j : X(i) = X(j) => i = j
  BY DEF Shown
<1>5. /\ MaxInt \in Nat /\ a \in Int /\ b \in Int /\ \A k \in 1..N : hs[k] \in 1..size
      /\ -MaxInt - 1 <= a /\ a <= MaxInt /\ -MaxInt - 1 <= b /\ b <= MaxInt
  BY <1>2, <1>3, IntAssumption DEF Ints
<1>6. \A i, j \in 1..N : i < j => hs[i] < hs[j]
  BY <1>3
<1> HIDE DEF size, N, a, b
<1>7. ASSUME NEW k \in 1..N
      PROVE  /\ From(k) \in Int /\ To(k) \in Int
             /\ Low(k) = (IF From(k) <= 1 THEN 1 ELSE From(k))
             /\ End(k) = (IF To(k) <= size THEN To(k) ELSE size)
  <2>1. From(k) \in Int /\ To(k) \in Int
    <3>1. hs[k] - 1 - b \in Int /\ hs[k] - 1 + a \in Int
      BY <1>2, <1>5
    <3>2. Wrap(hs[k] - 1 - b) \in Int /\ Wrap(hs[k] - 1 + a) \in Int
      BY <3>1, WrapIs
    <3> QED
      BY <3>2
  <2> HIDE DEF From, To
  <2>2. Low(k) = (IF From(k) <= 1 THEN 1 ELSE From(k))
    BY <2>1, MaxOfTwo
  <2>3. End(k) = (IF To(k) <= size THEN To(k) ELSE size)
    BY <1>2, <2>1, MinOf
  <2> QED
    BY <2>1, <2>2, <2>3
<1> HIDE DEF Low, End
<1>8. ASSUME NEW k \in 1..N
      PROVE  /\ Low(k) \in Int /\ 1 <= Low(k) /\ From(k) <= Low(k) /\ (Low(k) = 1 \/ Low(k) = From(k))
             /\ End(k) \in Int /\ End(k) <= size /\ End(k) <= To(k) /\ (End(k) = size \/ End(k) = To(k))
  <2> HIDE DEF From, To
  <2> QED
    BY <1>2, <1>7
<1>9. ASSUME NEW k \in 1..N
      PROVE  /\ Emitted(k) \in Nat
             /\ \A j \in 1..(k - 1) : Low(j) <= End(j) => End(j) <= Emitted(k)
             /\ Emitted(k) = 0 \/ \E j \in 1..(k - 1) : Low(j) <= End(j) /\ Emitted(k) = End(j)
  <2> DEFINE J == {i \in 1..(k - 1) : Low(i) <= End(i)}
             T == Ends(k)
  <2>1. J \subseteq 1..N
    BY <1>3
  <2>2. \A j \in J : End(j) \in Int /\ End(j) <= size
    BY <1>8, <2>1
  <2>3. T = {0} \cup {End(j) : j \in J}
    OBVIOUS
  <2> HIDE DEF J, Ends, T
  <2>4. T \subseteq Int /\ T # {} /\ size \in Int /\ \A x \in T : x <= size
    BY <1>2, <2>2, <2>3
  <2>5. Max(T) \in T /\ \A y \in T : y <= Max(T)
    BY <2>4, MaxOf
  <2>6. Emitted(k) = Max(T)
    BY DEF T
  <2> HIDE DEF Emitted
  <2>7. Emitted(k) \in Nat
    BY <2>3, <2>4, <2>5, <2>6
  <2>8. \A j \in J : End(j) <= Emitted(k)
    BY <2>3, <2>5, <2>6
  <2>9. Emitted(k) = 0 \/ \E j \in J : Emitted(k) = End(j)
    BY <2>3, <2>5, <2>6
  <2> QED
    BY <2>7, <2>8, <2>9 DEF J
<1> HIDE DEF Emitted, Ends
<1>9a. ASSUME NEW k \in 1..N
       PROVE  /\ Begin(k) \in Nat /\ 1 <= Begin(k) /\ Low(k) <= Begin(k) /\ Emitted(k) < Begin(k)
              /\ \A i \in Nat : Low(k) <= i /\ Emitted(k) < i => Begin(k) <= i
  <2>1. Low(k) \in Int /\ 1 <= Low(k) /\ Emitted(k) \in Nat /\ Emitted(k) + 1 \in Int
    BY <1>8, <1>9
  <2>2. Begin(k) = IF Emitted(k) + 1 <= Low(k) THEN Low(k) ELSE Emitted(k) + 1
    BY <2>1, MaxOfTwo
  <2> HIDE DEF Begin
  <2> QED
    BY <2>1, <2>2
<1> HIDE DEF Begin
<1>10. ASSUME NEW k \in 1..N
       PROVE  Once(Window(k)) /\ Elems(Window(k)) = {X(i) : i \in Begin(k)..End(k)}
  <2> DEFINE w == Window(k)
             s == Begin(k)
             e == End(k)
             C == 1..(e + 1 - s)
             A == {w[i] : i \in C}
             F(i) == X(s + i - 1)
  <2>1. s \in Nat /\ e \in Int
    BY <1>8, <1>9a
  <2>2. w = [i \in C |-> F(i)]
    OBVIOUS
  <2>3. \A i, j : F(i) = F(j) => s + i - 1 = s + j - 1
    BY <1>4
  <2> HIDE DEF w, s, e, F, X
  <2>3a. \A i, j \in C : F(i) = F(j) => i = j
    <3> SUFFICES ASSUME NEW i \in C, NEW j \in C, F(i) = F(j) PROVE i = j
      OBVIOUS
    <3>1. s + i - 1 = s + j - 1
      BY <2>3
    <3> QED
      BY <2>1, <3>1
  <2>4. w \in Seq(A) /\ DOMAIN w = C
    <3>1. w \in [C -> A] /\ DOMAIN w = C
      BY <2>2
    <3>2. CASE e + 1 - s \in Nat
      <4> HIDE DEF A
      <4> DEFINE q == e + 1 - s
      <4>1. w \in [1..q -> A] /\ q \in Nat
        BY <3>1, <3>2
      <4> HIDE DEF q
      <4>2. w \in Seq(A)
        BY <4>1
      <4> QED
        BY <3>1, <4>2
    <3>3. CASE e + 1 - s \notin Nat
      <4>1. C = {} /\ 1..0 = {}
        BY <2>1, <3>3
      <4> HIDE DEF A, C
      <4>2. w \in [1..0 -> A]
        BY <3>1, <4>1
      <4>3. w \in Seq(A)
        BY <4>2
      <4> QED
        BY <3>1, <4>3
    <3> QED
      BY <3>2, <3>3
  <2>5. \A i, j \in C : i # j => w[i] # w[j]
    <3> HIDE DEF C, A
    <3> QED
      BY <2>2, <2>3a
  <2>6. Once(w)
    BY <2>4, <2>5 DEF Once, IsSequence
  <2>7. Elems(w) = {F(i) : i \in C}
    <3> HIDE DEF C, A
    <3> QED
      BY <2>2, <2>4 DEF Elems
  <2>8. {F(i) : i \in C} = {X(i) : i \in s..e}
    <3>1. ASSUME NEW i \in C PROVE s + i - 1 \in s..e
      BY <2>1, <3>1
    <3>2. ASSUME NEW i \in s..e PROVE i - s + 1 \in C /\ s + (i - s + 1) - 1 = i
      BY <2>1, <3>2
    <3>3. \A i : F(i) = X(s + i - 1)
      BY DEF F
    <3> HIDE DEF C, A
    <3>4. \A i \in s..e : \E j \in C : F(j) = X(i)
      <4> TAKE i \in s..e
      <4> DEFINE j == i - s + 1
      <4>1. j \in C /\ s + j - 1 = i
        BY <3>2
      <4> HIDE DEF j
      <4>2. F(j) = X(i)
        BY <3>3, <4>1
      <4> QED
        BY <4>1, <4>2
    <3>5. \A i \in C : \E j \in s..e : F(i) = X(j)
      BY <3>1, <3>3
    <3> QED
      BY <3>4, <3>5
  <2> QED
    BY <2>6, <2>7, <2>8 DEF w, s, e
<1> HIDE DEF Window, X
<1>12. ASSUME NEW j \in 1..N, NEW k \in 1..N, j < k
       PROVE  Elems(Window(j)) \cap Elems(Window(k)) = {}
  <2> SUFFICES ASSUME NEW x \in Begin(j)..End(j), NEW y \in Begin(k)..End(k), X(x) = X(y) PROVE FALSE
    BY <1>10
  <2>1. x = y
    BY <1>4
  <2>2. /\ Begin(j) \in Nat /\ Low(j) \in Int /\ End(j) \in Int /\ Low(j) <= Begin(j)
        /\ Begin(k) \in Nat /\ End(k) \in Int /\ Emitted(k) < Begin(k) /\ Emitted(k) \in Nat
    BY <1>8, <1>9, <1>9a
  <2>3. Low(j) <= End(j)
    BY <2>2
  <2>4. End(j) <= Emitted(k)
    <3>1. j \in 1..(k - 1)
      BY <1>3, <1>12
    <3> QED
      BY <1>9, <2>3, <3>1
  <2> QED
    BY <2>1, <2>2, <2>4
<1> DEFINE L == UNION {Around(c, hs[k]) : k \in 1..N}
           W == UNION {Begin(k)..End(k) : k \in 1..N}
<1>13. ASSUME NEW k \in 1..N, NEW i \in Begin(k)..End(k) PROVE i \in 1..size
  <2>1. Begin(k) \in Nat /\ 1 <= Begin(k) /\ End(k) \in Int /\ End(k) <= size
    BY <1>8, <1>9a
  <2> QED
    BY <1>2, <2>1
<1>14. ASSUME ~Overflows(c) PROVE W = L
  <2>1. -b <= MaxInt - size /\ a <= MaxInt - size
    <3>1. ~(-b > MaxInt - size) /\ ~(a > MaxInt - size)
      BY <1>14 DEF Overflows, a, b, size
    <3> QED
      BY <1>2, <1>5, <3>1
  <2>2. ASSUME NEW k \in 1..N PROVE From(k) = hs[k] - b /\ To(k) = hs[k] + a
    <3>1. /\ hs[k] \in 1..size /\ hs[k] - 1 - b \in Int /\ hs[k] - 1 + a \in Int
      BY <1>2, <1>5
    <3>2. /\ -MaxInt - 1 <= hs[k] - 1 - b /\ hs[k] - 1 - b <= MaxInt
          /\ -MaxInt - 1 <= hs[k] - 1 + a /\ hs[k] - 1 + a <= MaxInt
      BY <1>2, <1>5, <2>1, <3>1
    <3>3. Wrap(hs[k] - 1 - b) = hs[k] - 1 - b /\ Wrap(hs[k] - 1 + a) = hs[k] - 1 + a
      BY <3>1, <3>2, WrapIs
    <3> QED
      BY <1>2, <1>5, <3>1, <3>3
  <2> HIDE DEF From, To
  <2>3. ASSUME NEW k \in 1..N, NEW i \in Nat
        PROVE  i \in Around(c, hs[k]) <=> Low(k) <= i /\ i <= End(k)
    <3>1. i \in Around(c, hs[k]) <=> 1 <= i /\ i <= size /\ hs[k] - b <= i /\ i <= hs[k] + a
      BY <1>2 DEF Around, a, b
    <3>2. /\ From(k) = hs[k] - b /\ To(k) = hs[k] + a /\ From(k) \in Int /\ To(k) \in Int
      BY <1>7, <2>2
    <3>3. /\ 1 <= Low(k) /\ From(k) <= Low(k) /\ (Low(k) = 1 \/ Low(k) = From(k)) /\ Low(k) \in Int
          /\ End(k) <= size /\ End(k) <= To(k) /\ (End(k) = size \/ End(k) = To(k)) /\ End(k) \in Int
      BY <1>8
    <3>4. Low(k) <= i <=> 1 <= i /\ From(k) <= i
      BY <3>2, <3>3
    <3>5. i <= End(k) <=> i <= size /\ i <= To(k)
      BY <1>2, <3>2, <3>3
    <3> QED
      BY <3>1, <3>2, <3>4, <3>5
  <2>4. ASSUME NEW k \in 1..N, NEW i \in Begin(k)..End(k) PROVE i \in Around(c, hs[k])
    <3>1. /\ Begin(k) \in Nat /\ Low(k) \in Int /\ Low(k) <= Begin(k) /\ End(k) \in Int
      BY <1>8, <1>9a
    <3>2. i \in Nat /\ Low(k) <= i /\ i <= End(k)
      BY <3>1
    <3> QED
      BY <2>3, <3>2
  <2>5. ASSUME NEW k \in 1..N, NEW i \in Around(c, hs[k]) PROVE \E m \in 1..N : i \in Begin(m)..End(m)
    <3> DEFINE K == {m \in 1..N : Low(m) <= i /\ i <= End(m)}
    <3>1. i \in Nat /\ 1 <= i
      BY <1>2 DEF Around
    <3>2. K \subseteq Nat /\ K # {}
      BY <2>3, <3>1
    <3>3. PICK m \in K : \A y \in K : m <= y
      <4> HIDE DEF K
      <4> QED
        BY <3>2, Smallest
    <3>4. m \in 1..N /\ Low(m) <= i /\ i <= End(m)
      BY <3>3
    <3>5. ASSUME NEW j \in 1..(m - 1), Low(j) <= End(j) PROVE End(j) < i
      <4>1. j \in 1..N /\ j < m /\ ~(m <= j)
        BY <1>3, <3>4
      <4>2. j \notin K
        BY <3>3, <4>1
      <4>3. hs[j] < hs[m] /\ hs[j] \in 1..size /\ hs[m] \in 1..size
        BY <1>5, <1>6, <3>4, <4>1
      <4>4. Low(j) <= Low(m)
        <5>1. /\ Low(j) = (IF From(j) <= 1 THEN 1 ELSE From(j)) /\ From(j) = hs[j] - b
              /\ Low(m) = (IF From(m) <= 1 THEN 1 ELSE From(m)) /\ From(m) = hs[m] - b
          BY <1>7, <2>2, <3>4, <4>1
        <5> QED
          BY <1>2, <1>5, <4>3, <5>1
      <4>5. Low(j) \in Int /\ Low(m) \in Int /\ End(j) \in Int
        BY <1>8, <3>4, <4>1
      <4>6. ~(i <= End(j))
        BY <3>1, <3>4, <4>1, <4>2, <4>4, <4>5
      <4> QED
        BY <3>1, <4>5, <4>6
    <3>6. Emitted(m) < i
      BY <1>9, <3>1, <3>4, <3>5
    <3>7. Begin(m) <= i /\ Begin(m) \in Nat /\ End(m) \in Int
      BY <1>8, <1>9a, <3>1, <3>4, <3>6
    <3>8. i \in Begin(m)..End(m)
      BY <3>1, <3>4, <3>7
    <3> QED
      BY <3>4, <3>8
  <2>6. W \subseteq L
    BY <2>4
  <2>7. L \subseteq W
    BY <2>5
  <2> QED
    BY <2>6, <2>7
<1>15. IsSequence(ss) /\ Len(ss) = N /\ \A k \in 1..N : ss[k] = Window(k)
  <2> DEFINE E == {Window(k) : k \in 1..N}
  <2>1. ss \in [1..N -> E] /\ \A k \in 1..N : ss[k] = Window(k)
    BY <1>3
  <2> HIDE DEF E, ss
  <2>2. ss \in Seq(E) /\ Len(ss) = N
    BY <1>3, <2>1
  <2> QED
    BY <2>1, <2>2 DEF IsSequence
<1> HIDE DEF ss
<1>16. /\ Once(FlattenSeq(ss))
       /\ Elems(FlattenSeq(ss)) = UNION {Elems(ss[k]) : k \in 1..N}
  <2>1. \A k \in 1..N : Once(ss[k])
    BY <1>10, <1>15
  <2>2. \A j, k \in 1..N : j < k => Elems(ss[j]) \cap Elems(ss[k]) = {}
    BY <1>12, <1>15
  <2> QED
    BY <1>3, <1>15, <2>1, <2>2, OnceFlattened
<1>17. UNION {Elems(ss[k]) : k \in 1..N} = {X(i) : i \in W}
  <2>1. \A k \in 1..N : Elems(ss[k]) = {X(i) : i \in Begin(k)..End(k)}
    BY <1>10, <1>15
  <2>2. \A k \in 1..N : \A i \in Begin(k)..End(k) : i \in W
    OBVIOUS
  <2>3. \A i \in W : \E k \in 1..N : i \in Begin(k)..End(k)
    OBVIOUS
  <2> HIDE DEF W
  <2>4. \A k \in 1..N : Elems(ss[k]) \subseteq {X(i) : i \in W}
    BY <2>1, <2>2
  <2>5. \A i \in W : \E k \in 1..N : X(i) \in Elems(ss[k])
    BY <2>1, <2>3
  <2> QED
    BY <2>4, <2>5
<1>18. L = UNION {Around(c, hs[k]) : k \in DOMAIN hs}
  BY <1>3
<1>19. W \subseteq DOMAIN c.lines
  BY <1>2, <1>13
<1> HIDE DEF L, W
<1>20. {X(i) : i \in W} \subseteq {X(i) : i \in DOMAIN c.lines}
  BY <1>19
<1> QED
  BY <1>1, <1>14, <1>16, <1>17, <1>18, <1>20 DEF X

-----------------------------------------------------------------------------

\* The spans of hits, one after the other.
SpansOf(n, c, hs) ==
  FlattenSeq([k \in DOMAIN hs |-> [j \in 1..c.lines[hs[k]].spans |-> Shown(n, hs[k], j)]])

LEMMA SpansAre ==
  ASSUME NEW c \in Contents, NEW n, NEW hs, Once(hs), \A k \in DOMAIN hs : hs[k] \in DOMAIN c.lines
  PROVE  /\ Once(SpansOf(n, c, hs))
         /\ Elems(SpansOf(n, c, hs)) = UNION {{Shown(n, i, j) : j \in 1..c.lines[i].spans} : i \in Elems(hs)}
<1> DEFINE N == Len(hs)
           S(i) == c.lines[i].spans
           Row(k) == [j \in 1..S(hs[k]) |-> Shown(n, hs[k], j)]
           ss == [k \in DOMAIN hs |-> Row(k)]
           Of(i) == {Shown(n, i, j) : j \in 1..S(i)}
<1>1. SpansOf(n, c, hs) = FlattenSeq(ss)
  BY DEF SpansOf
<1>2. N \in Nat /\ DOMAIN hs = 1..N
  BY DEF Once, IsSequence
<1>3. \A k \in DOMAIN hs : S(hs[k]) \in Nat
  BY LinesOf
<1> HIDE DEF S, N
<1>4. ASSUME NEW k \in 1..N PROVE Once(Row(k)) /\ Elems(Row(k)) = Of(hs[k])
  <2> DEFINE w == Row(k)
             m == S(hs[k])
  <2>1. m \in Nat /\ DOMAIN w = 1..m /\ w = [j \in 1..m |-> Shown(n, hs[k], j)]
    BY <1>2, <1>3
  <2>2. \A i \in 1..m : w[i] = Shown(n, hs[k], i)
    BY <2>1
  <2>3. \A i, j \in 1..m : i # j => w[i] # w[j]
    BY <2>2 DEF Shown
  <2>4. w = [i \in 1..m |-> w[i]]
    BY <2>1
  <2>5. Of(hs[k]) = {Shown(n, hs[k], i) : i \in 1..m}
    OBVIOUS
  <2> HIDE DEF w, m, Of
  <2>6. Once(w) /\ Elems(w) = {w[i] : i \in 1..m}
    BY <2>1, <2>3, <2>4, OnceListed
  <2>7. {w[i] : i \in 1..m} = Of(hs[k])
    BY <2>2, <2>5
  <2> QED
    BY <2>6, <2>7 DEF w
<1> HIDE DEF Row
<1>5. IsSequence(ss) /\ Len(ss) = N /\ \A k \in 1..N : ss[k] = Row(k)
  <2> DEFINE E == {Row(k) : k \in 1..N}
  <2>1. ss \in [1..N -> E] /\ \A k \in 1..N : ss[k] = Row(k)
    BY <1>2
  <2> HIDE DEF E, ss
  <2>2. ss \in Seq(E) /\ Len(ss) = N
    BY <1>2, <2>1
  <2> QED
    BY <2>1, <2>2 DEF IsSequence
<1> HIDE DEF ss
<1>6. \A j, k \in 1..N : j < k => Elems(ss[j]) \cap Elems(ss[k]) = {}
  <2> TAKE j, k \in 1..N
  <2> HAVE j < k
  <2>1. hs[j] # hs[k]
    BY <1>2 DEF Once
  <2>2. Of(hs[j]) \cap Of(hs[k]) = {}
    BY <2>1 DEF Shown
  <2> QED
    BY <1>4, <1>5, <2>2
<1>7. Once(FlattenSeq(ss)) /\ Elems(FlattenSeq(ss)) = UNION {Elems(ss[k]) : k \in 1..N}
  <2>1. \A k \in 1..N : Once(ss[k])
    BY <1>4, <1>5
  <2> HIDE DEF Of
  <2> QED
    BY <1>2, <1>5, <1>6, <2>1, OnceFlattened
<1> HIDE DEF Of
<1>8. UNION {Elems(ss[k]) : k \in 1..N} = UNION {Of(i) : i \in Elems(hs)}
  <2>1. \A k \in 1..N : Elems(ss[k]) = Of(hs[k])
    BY <1>4, <1>5
  <2>2. Elems(hs) = {hs[k] : k \in 1..N}
    BY <1>2 DEF Elems
  <2> DEFINE D == 1..N
  <2> HIDE DEF D
  <2>3. UNION {Elems(ss[k]) : k \in D} = UNION {Of(hs[k]) : k \in D}
    BY <2>1 DEF D
  <2>4. UNION {Of(hs[k]) : k \in D} = UNION {Of(i) : i \in {hs[k] : k \in D}}
    OBVIOUS
  <2> QED
    BY <2>2, <2>3, <2>4 DEF D
<1> QED
  BY <1>1, <1>7, <1>8 DEF Of, S

\* The first of a list, as many as there is room for.
LEMMA FirstsAre ==
  ASSUME NEW s, Once(s), NEW room \in Nat, room # 0
  PROVE  LET t == SubSeq(s, 1, Min({room, Len(s)}))
         IN /\ Once(t) /\ Elems(t) \subseteq Elems(s) /\ Len(t) \in Nat /\ Len(t) <= room
            /\ (Len(t) < room => t = s)
            /\ \A i \in DOMAIN t : i \in DOMAIN s /\ t[i] = s[i]
<1> DEFINE m == Min({room, Len(s)})
           t == SubSeq(s, 1, m)
<1>1. Len(s) \in Nat
  BY DEF Once, IsSequence
<1>2. m = IF room <= Len(s) THEN room ELSE Len(s)
  BY <1>1, MinOf
<1> HIDE DEF m
<1>3. m \in 0..Len(s) /\ m <= room /\ (m < room => m = Len(s))
  BY <1>1, <1>2
<1>4. /\ Once(t) /\ Elems(t) \subseteq Elems(s) /\ Len(t) = m
      /\ m = Len(s) => t = s
      /\ \A i \in 1..m : i \in DOMAIN t /\ t[i] = s[i]
  BY <1>3, OnceFirst
<1> HIDE DEF t
<1>5. DOMAIN t = 1..m /\ \A i \in 1..m : i \in DOMAIN s
  BY <1>1, <1>3, <1>4 DEF Once, IsSequence
<1>6. /\ Once(t) /\ Elems(t) \subseteq Elems(s) /\ Len(t) \in Nat /\ Len(t) <= room
      /\ (Len(t) < room => t = s)
      /\ \A i \in DOMAIN t : i \in DOMAIN s /\ t[i] = s[i]
  BY <1>3, <1>4, <1>5
<1> QED
  BY <1>6 DEF t, m

\* What a report of a file owes: nothing twice, nothing that is not expected,
\* no more than there is room for, and all of it while room is left and the
\* context is within the ints.
ReportOK(r, n, c) ==
  /\ Once(r.lines)
  /\ \A x \in Elems(r.lines) : x.node = n
  /\ Elems(r.lines) \subseteq Expected(n, c)
  /\ r.counted \in Nat /\ total + r.counted <= MaxMatches
  /\ total + r.counted < MaxMatches /\ ~Overflows(c) => Elems(r.lines) = Expected(n, c)

LEMMA ReportIs ==
  ASSUME query \in Queries, total \in Nat, total < MaxMatches, NEW n, NEW c \in Contents
  PROVE  ReportOK(Report(n, c), n, c)
<1> DEFINE hits == HitLines(c)
           room == MaxMatches - total
           few == SubSeq(hits, 1, Min({room, Len(hits)}))
           spans == SpansOf(n, c, hits)
           shown == SubSeq(spans, 1, Min({room, Len(spans)}))
           r == Report(n, c)
<1>1. r = IF hits = <<>> THEN [lines |-> <<>>, counted |-> 0]
          ELSE IF query.files THEN [lines |-> <<Shown(n, 0, "file")>>, counted |-> 1]
          ELSE IF query.count THEN [lines |-> <<Shown(n, Len(hits), "count")>>, counted |-> 1]
          ELSE IF query.only THEN [lines |-> shown, counted |-> Len(shown)]
          ELSE [lines |-> Windows(n, c, few), counted |-> Len(few)]
  BY DEF Report, SpansOf
<1>2. /\ query.files \in BOOLEAN /\ query.count \in BOOLEAN /\ query.only \in BOOLEAN
      /\ query.before \in Ints /\ query.after \in Ints
  BY RepoSearchAssumption
<1>3. /\ Matched(c) \subseteq DOMAIN c.lines
      /\ Once(hits) /\ Elems(hits) = Matched(c) /\ Len(hits) = Cardinality(Matched(c))
      /\ \A i, j \in DOMAIN hits : i < j => hits[i] < hits[j]
  BY HitLinesAre
<1>4. \A k \in DOMAIN hits : hits[k] \in Matched(c) /\ hits[k] \in DOMAIN c.lines
  BY <1>3 DEF Elems
<1>5. room \in Nat /\ room # 0 /\ MaxMatches \in Nat
  BY RepoSearchAssumption
<1> HIDE DEF hits, r
<1>6. hits = <<>> <=> Matched(c) = {}
  <2>1. hits = <<>> => Matched(c) = {}
    BY <1>3, OnceFew
  <2>2. PICK E : hits \in Seq(E)
    BY <1>3 DEF Once, IsSequence
  <2>3. hits # <<>> => 1 \in DOMAIN hits
    BY <2>2
  <2> QED
    BY <1>3, <2>1, <2>3 DEF Elems
<1>7. CASE hits = <<>>
  <2>1. r.lines = <<>> /\ r.counted = 0 /\ Expected(n, c) = {}
    BY <1>1, <1>6, <1>7 DEF Expected
  <2> QED
    BY <2>1, OnceFew, RepoSearchAssumption DEF ReportOK, r
<1>8. CASE hits # <<>> /\ query.files
  <2>1. r.lines = <<Shown(n, 0, "file")>> /\ r.counted = 1 /\ Expected(n, c) = {Shown(n, 0, "file")}
    BY <1>1, <1>6, <1>8 DEF Expected
  <2>2. Shown(n, 0, "file").node = n
    BY DEF Shown
  <2> QED
    BY <2>1, <2>2, OnceFew, RepoSearchAssumption DEF ReportOK, r
<1>9. CASE hits # <<>> /\ ~query.files /\ query.count
  <2> DEFINE x == Shown(n, Len(hits), "count")
  <2>1. r.lines = <<x>> /\ r.counted = 1 /\ Expected(n, c) = {x}
    BY <1>1, <1>2, <1>3, <1>6, <1>9 DEF Expected
  <2>2. x.node = n
    BY DEF Shown
  <2> HIDE DEF x
  <2> QED
    BY <2>1, <2>2, OnceFew, RepoSearchAssumption DEF ReportOK, r
<1>10. CASE hits # <<>> /\ ~query.files /\ ~query.count /\ query.only
  <2>1. r.lines = shown /\ r.counted = Len(shown)
    BY <1>1, <1>2, <1>10
  <2>2. Expected(n, c) = UNION {{Shown(n, i, j) : j \in 1..c.lines[i].spans} : i \in Matched(c)}
    BY <1>2, <1>6, <1>10 DEF Expected
  <2>3. Once(spans) /\ Elems(spans) = Expected(n, c)
    BY <1>3, <1>4, <2>2, SpansAre
  <2> HIDE DEF spans, room
  <2>4. /\ Once(shown) /\ Elems(shown) \subseteq Elems(spans) /\ Len(shown) \in Nat /\ Len(shown) <= room
        /\ (Len(shown) < room => shown = spans)
    BY <1>5, <2>3, FirstsAre
  <2> HIDE DEF shown
  <2>5. \A x \in Expected(n, c) : x.node = n
    BY <2>2 DEF Shown
  <2>6. total + Len(shown) <= MaxMatches /\ (total + Len(shown) < MaxMatches => shown = spans)
    BY <1>5, <2>4 DEF room
  <2> QED
    BY <2>1, <2>3, <2>4, <2>5, <2>6 DEF ReportOK, r
<1>11. CASE hits # <<>> /\ ~query.files /\ ~query.count /\ ~query.only
  <2> DEFINE Mark(i) == IF i \in Matched(c) THEN ":" ELSE "-"
             Seen(s) == UNION {Around(c, s[k]) : k \in DOMAIN s}
             Lines(s) == {Shown(n, i, MarkOf(c, i)) : i \in Seen(s)}
             All == {Shown(n, i, MarkOf(c, i)) : i \in DOMAIN c.lines}
  <2>1. r.lines = Windows(n, c, few) /\ r.counted = Len(few)
    BY <1>1, <1>2, <1>11
  <2>2. /\ Once(few) /\ Elems(few) \subseteq Elems(hits) /\ Len(few) \in Nat /\ Len(few) <= room
        /\ (Len(few) < room => few = hits)
        /\ \A i \in DOMAIN few : i \in DOMAIN hits /\ few[i] = hits[i]
    <3> HIDE DEF room
    <3> QED
      BY <1>3, <1>5, FirstsAre
  <2> HIDE DEF few
  <2>3. \A k \in DOMAIN few : few[k] \in DOMAIN c.lines
    BY <1>4, <2>2
  <2>4. \A i, j \in DOMAIN few : i < j => few[i] < few[j]
    BY <1>3, <2>2
  <2>5. /\ Once(Windows(n, c, few)) /\ Elems(Windows(n, c, few)) \subseteq All
        /\ ~Overflows(c) => Elems(Windows(n, c, few)) = Lines(few)
    <3>1. ShowsLines
      BY <1>11 DEF ShowsLines
    <3> QED
      BY <1>2, <2>2, <2>3, <2>4, <3>1, WindowsAre DEF Once
  <2>6. Expected(n, c) = IF Overflows(c) THEN All ELSE Lines(hits)
    <3> DEFINE Close == {k \in DOMAIN c.lines :
                           Overflows(c) \/ \E h \in Matched(c) : h - query.before <= k /\ k <= h + query.after}
    <3>1. Expected(n, c) = {Shown(n, i, Mark(i)) : i \in Close}
      BY <1>2, <1>6, <1>11 DEF Expected
    <3>2. \A i \in DOMAIN c.lines : Mark(i) = MarkOf(c, i)
      BY DEF MarkOf, Matched
    <3>3. Seen(hits) = UNION {Around(c, h) : h \in Elems(hits)}
      BY DEF Elems
    <3>4. Close = IF Overflows(c) THEN DOMAIN c.lines ELSE Seen(hits)
      <4> HIDE DEF Seen
      <4> QED
        BY <1>3, <3>3 DEF Around
    <3>5. Close \subseteq DOMAIN c.lines
      OBVIOUS
    <3> HIDE DEF Mark, Seen, Close
    <3>6. Expected(n, c) = {Shown(n, i, MarkOf(c, i)) : i \in Close}
      BY <3>1, <3>2, <3>5
    <3> QED
      BY <3>4, <3>6
  <2>7. Lines(few) \subseteq Lines(hits)
    <3>1. Seen(few) \subseteq Seen(hits)
      BY <2>2
    <3> HIDE DEF Seen
    <3> QED
      BY <3>1
  <2>8. (\A x \in Lines(hits) : x.node = n) /\ (\A x \in All : x.node = n)
    <3> HIDE DEF Seen
    <3> QED
      BY DEF Shown
  <2> HIDE DEF Lines, All
  <2>9. total + Len(few) <= MaxMatches /\ (total + Len(few) < MaxMatches => few = hits)
    BY <1>5, <2>2
  <2>10. (\A x \in Elems(r.lines) : x.node = n) /\ Elems(r.lines) \subseteq Expected(n, c)
    <3>1. CASE Overflows(c)
      BY <2>1, <2>5, <2>6, <2>8, <3>1
    <3>2. CASE ~Overflows(c)
      BY <2>1, <2>5, <2>6, <2>7, <2>8, <3>2
    <3> QED
      BY <3>1, <3>2
  <2>11. total + Len(few) < MaxMatches /\ ~Overflows(c) => Elems(r.lines) = Expected(n, c)
    BY <2>1, <2>5, <2>6, <2>9
  <2> HIDE DEF room
  <2> QED
    BY <2>1, <2>2, <2>5, <2>9, <2>10, <2>11 DEF ReportOK, r
<1> QED
  BY <1>2, <1>7, <1>8, <1>9, <1>10, <1>11 DEF r

-----------------------------------------------------------------------------
(* The cascade. *)

\* A list of numbers, each larger than the one before it.
Rising(s) == IsSequence(s) /\ \A i, j \in DOMAIN s : i < j => s[i] < s[j]

NamesNode(rule, n) == n \in rule.direct /\ (rule.dirOnly => n \in Dirs)
NamedIn(d, n) == {i \in DOMAIN cascade[d] : NamesNode(cascade[d][i], n)}

\* The last place of a list that passes a test.
LastOf(I) == IF I # {} THEN Max(I) ELSE 0

LEMMA LastIs ==
  ASSUME NEW k \in Nat, NEW I, I \subseteq 1..k
  PROVE  /\ LastOf(I) \in 0..k /\ (LastOf(I) # 0 <=> I # {})
         /\ I # {} => LastOf(I) \in I /\ LastOf(I) = Max(I) /\ \A i \in I : i <= LastOf(I)
<1>1. CASE I = {}
  BY <1>1 DEF LastOf
<1>2. CASE I # {}
  <2>1. I \subseteq Int /\ k \in Int /\ \A x \in I : x <= k
    OBVIOUS
  <2>2. Max(I) \in I /\ \A y \in I : y <= Max(I)
    BY <1>2, <2>1, MaxOf
  <2>3. LastOf(I) = Max(I)
    BY <1>2 DEF LastOf
  <2>4. Max(I) \in 1..k
    BY <2>2
  <2> DEFINE m == Max(I)
  <2>5. m # 0 /\ m \in 0..k
    BY <2>4
  <2> QED
    BY <1>2, <2>2, <2>3, <2>5
<1> QED
  BY <1>1, <1>2

LEMMA CascadeOf ==
  ASSUME cascade \in Cascades, NEW d \in Dirs, NEW n
  PROVE  /\ Len(cascade[d]) \in Nat /\ DOMAIN cascade[d] = 1..Len(cascade[d])
         /\ NamedIn(d, n) \subseteq 1..Len(cascade[d])
<1>1. cascade[d] \in Seq([negate : BOOLEAN, dirOnly : BOOLEAN, direct : SUBSET Nodes])
  BY RepoSearchAssumption
<1> QED
  BY <1>1 DEF NamedIn

\* With the rules of the directories above an entry at hand, in order, the
\* deepest level with a rule that names it is the deepest directory that has one.
LEMMA IgnoresIsExcluded ==
  ASSUME cascade \in Cascades, NEW n \in Nodes, NEW s, Rising(s), Elems(s) = Above[n]
  PROVE  Ignores(s, n) <=> Excluded(n)
<1> DEFINE Rule(d) == LastOf(NamedIn(d, n))
           I == {i \in 1..Len(s) : s[i] \in Above[n] /\ Rule(s[i]) # 0}
           level == LastOf(I)
           T == {d \in Above[n] : NamedIn(d, n) # {}}
           top == Max(T)
<1>1. Len(s) \in Nat /\ DOMAIN s = 1..Len(s) /\ \A i \in 1..Len(s) : s[i] \in Above[n]
  BY DEF Rising, IsSequence, Elems
<1>2. \A d \in Above[n] : d \in Dirs /\ d \in Nat /\ d < n
  BY AboveIn
<1>2a. n \in Nat
  BY ParentIs
<1>3. \A d \in Above[n] : /\ Rule(d) # 0 <=> NamedIn(d, n) # {}
                          /\ NamedIn(d, n) # {} => Rule(d) = Max(NamedIn(d, n))
  <2> TAKE d \in Above[n]
  <2> QED
    BY <1>2, CascadeOf, LastIs
<1>4. Ignores(s, n) <=> level # 0 /\ ~cascade[s[level]][Rule(s[level])].negate
  <2>1. \A d \in Dirs : {i \in 1..Len(cascade[d]) : NamesNode(cascade[d][i], n)} = NamedIn(d, n)
    BY CascadeOf DEF NamedIn
  <2> DEFINE Rule2(d) == LastOf({i \in 1..Len(cascade[d]) : NamesNode(cascade[d][i], n)})
             I2 == {i \in 1..Len(s) : s[i] \in Above[n] /\ Rule2(s[i]) # 0}
  <2>2. Ignores(s, n) <=> LastOf(I2) # 0 /\ ~cascade[s[LastOf(I2)]][Rule2(s[LastOf(I2)])].negate
    BY DEF Ignores, SelectLastInSeq, NamesNode, LastOf
  <2>3. \A d \in Above[n] : Rule2(d) = Rule(d)
    BY <1>2, <2>1
  <2> HIDE DEF Rule, Rule2
  <2>4. I2 = I
    BY <2>3
  <2>5. I \subseteq 1..Len(s)
    OBVIOUS
  <2>6. level # 0 => s[level] \in Above[n]
    <3> HIDE DEF I
    <3>1. level # 0 => level \in I
      BY <1>1, <2>5, LastIs
    <3> HIDE DEF level
    <3> QED
      BY <3>1 DEF I
  <2> HIDE DEF I, I2
  <2> QED
    BY <2>2, <2>3, <2>4, <2>6
<1>5. Excluded(n) <=> T # {} /\ ~cascade[top][Max(NamedIn(top, n))].negate
  BY DEF Excluded, NamedIn, NamesNode
<1>6. I \subseteq 1..Len(s) /\ \A i \in 1..Len(s) : i \in I <=> s[i] \in T
  BY <1>1, <1>3
<1>7. I = {} <=> T = {}
  <2>1. \A d \in T : \E i \in 1..Len(s) : s[i] = d
    BY <1>1 DEF Elems
  <2> HIDE DEF I, T
  <2> QED
    BY <1>6, <2>1
<1>8. CASE I = {}
  <2>1. level = 0
    BY <1>8 DEF LastOf
  <2> HIDE DEF level, I, T
  <2> QED
    BY <1>4, <1>5, <1>7, <1>8, <2>1
<1>9. CASE I # {}
  <2> HIDE DEF I
  <2>1. level # 0 /\ level \in I /\ \A i \in I : i <= level
    BY <1>1, <1>6, <1>9, LastIs
  <2> HIDE DEF level
  <2>2. T \subseteq Int /\ T # {} /\ n \in Int /\ \A x \in T : x <= n
    BY <1>2, <1>2a, <1>7, <1>9
  <2>3. top \in T /\ \A y \in T : y <= top
    <3> HIDE DEF T
    <3> QED
      BY <2>2, MaxOf
  <2> HIDE DEF top
  <2>4. PICK k \in 1..Len(s) : s[k] = top
    BY <1>1, <2>3 DEF Elems
  <2>5. k \in I /\ s[level] \in T /\ level \in 1..Len(s)
    BY <1>6, <2>1, <2>3, <2>4
  <2>6. k <= level
    BY <2>1, <2>5
  <2>7. k = level
    <3> SUFFICES ASSUME k < level PROVE FALSE
      BY <1>1, <2>5, <2>6
    <3>1. s[k] < s[level]
      BY <1>1, <2>5 DEF Rising
    <3>2. s[level] <= top /\ s[level] \in Nat /\ top \in Nat
      BY <1>2, <2>3, <2>5
    <3> QED
      BY <2>4, <3>1, <3>2
  <2>8. Rule(top) = Max(NamedIn(top, n))
    BY <1>3, <2>3
  <2> HIDE DEF Rule, T
  <2> QED
    BY <1>4, <1>5, <1>7, <1>9, <2>1, <2>4, <2>7, <2>8
<1> QED
  BY <1>8, <1>9

-----------------------------------------------------------------------------
(* The levels and the visits that are left. *)

\* What is above a part of the way is above all of it.
LEMMA UptoUpto ==
  ASSUME NEW n \in Nodes \cup {0}, NEW m \in Upto(n)
  PROVE  /\ m \in Nodes \cup {0} /\ Upto(m) \subseteq Upto(n) /\ Above[m] \subseteq Above[n]
         /\ m # n => m \in Above[n] /\ m \in Dirs
<1>1. CASE m = n
  BY <1>1
<1>2. CASE m # n
  <2>1. m \in Above[n]
    BY <1>2 DEF Upto
  <2>2. Above[m] \subseteq Above[n] /\ m \in Nodes \cup {0} /\ m \in Dirs
    BY <2>1, AboveAbove, AboveIn
  <2> QED
    BY <2>1, <2>2 DEF Upto
<1> QED
  BY <1>1, <1>2

\* The directories above an entry come first among those of the levels.
Fits(D, n) ==
  /\ n \notin D /\ Above[n] \subseteq D
  /\ \A a \in Above[n], x \in D \ Above[n] : a < x

\* The levels of what is left to visit, in order.
LevelsFit(vs, ls) ==
  IF query.noIgnore THEN ls = <<>>
  ELSE Rising(ls) /\ Elems(ls) \subseteq Nat /\ \A i \in DOMAIN vs : Fits(Elems(ls), vs[i].node)

\* The levels that are not above an entry are dropped, and no other.
LEMMA PopIs ==
  ASSUME NEW s, Rising(s), Elems(s) \subseteq Nat, NEW n \in Nodes \cup {0}, Fits(Elems(s), n)
  PROVE  Rising(PopLeftDirs(s, n)) /\ Elems(PopLeftDirs(s, n)) = Above[n]
<1> DEFINE size == Len(s)
           I == {i \in 1..size : s[i] = 0 \/ s[i] \in Upto(n)}
           q == LastOf(I)
           t == SubSeq(s, 1, q)
<1>1. PopLeftDirs(s, n) = t
  BY DEF PopLeftDirs, SelectLastInSeq, LastOf
<1>2. PICK E : s \in Seq(E)
  BY DEF Rising, IsSequence
<1>3. size \in Nat /\ DOMAIN s = 1..size
  BY <1>2
<1>4. \A i \in 1..size : s[i] \in Elems(s) /\ s[i] \in Nat
  BY <1>3 DEF Elems
<1>5. \A i \in 1..size : i \in I <=> s[i] \in Above[n]
  <2> TAKE i \in 1..size
  <2>1. s[i] # n
    BY <1>4 DEF Fits
  <2>2. s[i] = 0 => s[i] \in Above[n]
    BY <2>1, AboveIn
  <2> QED
    BY <2>1, <2>2 DEF Upto
<1>6. I \subseteq 1..size
  OBVIOUS
<1> HIDE DEF I
<1>7. /\ q \in 0..size /\ (q # 0 <=> I # {})
      /\ I # {} => q \in I /\ \A i \in I : i <= q
  BY <1>3, <1>6, LastIs
<1> HIDE DEF q
<1>8. \A i \in 1..size : i \in I <=> i <= q
  <2> TAKE i \in 1..size
  <2>1. i \in I => i <= q
    BY <1>7
  <2>2. ASSUME i <= q, i \notin I PROVE FALSE
    <3>1. q # 0 /\ q \in I /\ q \in 1..size
      BY <1>3, <1>7, <2>2
    <3>2. i < q
      BY <1>3, <2>2, <3>1
    <3>3. s[i] < s[q]
      BY <1>3, <3>1, <3>2 DEF Rising
    <3>4. s[q] < s[i]
      BY <1>4, <1>5, <2>2, <3>1 DEF Fits
    <3> QED
      BY <1>4, <3>1, <3>3, <3>4
  <2> QED
    BY <2>1, <2>2
<1>9. t \in Seq(E) /\ Len(t) = q /\ DOMAIN t = 1..q /\ \A i \in 1..q : t[i] = s[i]
  BY <1>2, <1>3, <1>7
<1> HIDE DEF t
<1>10. \A i \in 1..q : i \in 1..size /\ i \in I
  BY <1>3, <1>7, <1>8
<1>11. Rising(t)
  <2>1. \A i, j \in 1..q : i < j => t[i] < t[j]
    BY <1>3, <1>9, <1>10 DEF Rising
  <2> QED
    BY <1>9, <2>1 DEF Rising, IsSequence
<1>12. Elems(t) = Above[n]
  <2>1. \A x \in Above[n] : \E i \in 1..size : s[i] = x
    BY <1>3 DEF Fits, Elems
  <2>2. \A x \in Above[n] : \E i \in 1..q : t[i] = x
    <3> TAKE x \in Above[n]
    <3>1. PICK i \in 1..size : s[i] = x
      BY <2>1
    <3>2. i \in 1..q
      BY <1>3, <1>5, <1>7, <1>8, <3>1
    <3> QED
      BY <1>9, <3>1, <3>2
  <2>3. \A i \in 1..q : t[i] \in Above[n]
    BY <1>5, <1>9, <1>10
  <2> QED
    BY <1>9, <2>2, <2>3 DEF Elems
<1> QED
  BY <1>1, <1>11, <1>12

\* The level of a directory goes on top of those above it.
LEMMA LevelAdded ==
  ASSUME NEW n \in Nodes \cup {0}, NEW s, Rising(s), Elems(s) = Above[n]
  PROVE  Rising(Append(s, n)) /\ Elems(Append(s, n)) = Upto(n)
<1> DEFINE t == Append(s, n)
<1>1. PICK E : s \in Seq(E)
  BY DEF Rising, IsSequence
<1>2. /\ t \in Seq(E \cup {n}) /\ Len(s) \in Nat /\ DOMAIN s = 1..Len(s) /\ DOMAIN t = 1..(Len(s) + 1)
      /\ t[Len(s) + 1] = n /\ \A i \in 1..Len(s) : t[i] = s[i]
  BY <1>1
<1> HIDE DEF t
<1>3. \A i \in 1..(Len(s) + 1) : i \in 1..Len(s) \/ i = Len(s) + 1
  BY <1>2
<1>4. \A i \in 1..Len(s) : i \in 1..(Len(s) + 1) /\ Len(s) + 1 \in 1..(Len(s) + 1)
  BY <1>2
<1>5. \A i \in 1..Len(s) : s[i] \in Above[n] /\ s[i] < n
  BY <1>2, AboveIn DEF Elems
<1>6. \A i, j \in DOMAIN t : i < j => t[i] < t[j]
  <2> TAKE i, j \in DOMAIN t
  <2> HAVE i < j
  <2>1. i \in 1..Len(s)
    BY <1>2
  <2> QED
    BY <1>2, <1>3, <1>5, <2>1 DEF Rising
<1>7. Elems(t) = Upto(n)
  <2>1. Len(s) + 1 \in DOMAIN t
    BY <1>2
  <2>2. \A x \in Above[n] : \E i \in 1..Len(s) : s[i] = x
    BY <1>2 DEF Elems
  <2>3. \A i \in DOMAIN t : t[i] \in Upto(n)
    BY <1>2, <1>3, <1>5 DEF Upto
  <2>4. \A x \in Upto(n) : \E i \in DOMAIN t : t[i] = x
    BY <1>2, <1>4, <2>1, <2>2 DEF Upto
  <2> QED
    BY <2>3, <2>4 DEF Elems
<1> QED
  BY <1>2, <1>6, <1>7 DEF t, Rising, IsSequence

\* The levels above the start.
LEMMA AncestorsAre ==
  ASSUME NEW n \in Nodes \cup {0}
  PROVE  Rising(AncestorLevels(n)) /\ Elems(AncestorLevels(n)) = Above[n]
<1> DEFINE T == Above[n]
<1>1. CASE n = 0
  <2>1. AncestorLevels(n) = <<>> /\ T = {}
    BY <1>1, AboveStep DEF AncestorLevels
  <2>2. Once(<<>>) /\ Elems(<<>>) = {}
    BY OnceFew
  <2>3. DOMAIN <<>> = {}
    OBVIOUS
  <2> QED
    BY <2>1, <2>2, <2>3 DEF Rising, Once
<1>2. CASE n # 0
  <2> DEFINE s == AncestorLevels(n)
             k == Cardinality(T)
  <2>1. n \in Nat
    BY <1>2, ParentIs
  <2>2. T \subseteq Nat /\ T \subseteq 0..n
    BY <2>1, AboveIn
  <2>3. IsFiniteSet(T)
    <3> HIDE DEF T
    <3>1. T \subseteq 0..n /\ 0 \in Int /\ n \in Int
      BY <2>1, <2>2
    <3>2. IsFiniteSet(0..n)
      BY <3>1, FS_Interval
    <3> QED
      BY <3>1, <3>2, FS_Subset
  <2>4. s = Ascending(T)
    BY <1>2 DEF AncestorLevels, InNameOrder
  <2> HIDE DEF T, s
  <2>5. /\ k \in Nat /\ s \in Seq(T) /\ s \in [1..k -> T]
        /\ \A i, j \in 1..k : i < j => s[i] < s[j]
        /\ \A x \in T : \E i \in 1..k : s[i] = x
    BY <2>2, <2>3, <2>4, AscendingIs
  <2> HIDE DEF k
  <2>6. Rising(s)
    BY <2>5 DEF Rising, IsSequence
  <2>7. Elems(s) = T
    BY <2>5 DEF Elems
  <2> QED
    BY <2>6, <2>7 DEF s, T
<1> QED
  BY <1>1, <1>2

\* Levels that are those above an entry, with or without its own, fit whatever
\* lies on the way to it.
LEMMA FitsOnTheWay ==
  ASSUME NEW n \in Nodes \cup {0}, NEW m \in Nodes \cup {0},
         Above[m] \subseteq Above[n], m \notin Upto(n), NEW D, D = Above[n] \/ D = Upto(n)
  PROVE  Fits(D, m)
<1>1. D \subseteq Upto(n) /\ Above[n] \subseteq D
  BY DEF Upto
<1>2. ASSUME NEW a \in Above[m], NEW x \in D \ Above[m] PROVE a < x
  <2>1. a \in Upto(n) /\ x \in Upto(n) /\ a # x
    BY <1>1, <1>2
  <2>2. a \in Above[x] \/ x \in Above[a]
    BY <2>1, OnePath
  <2>3. x \notin Above[a]
    BY <1>2, AboveAbove
  <2>4. x \in Nodes \cup {0}
    BY <2>1, UptoUpto
  <2> QED
    BY <2>2, <2>3, <2>4, AboveIn
<1> QED
  BY <1>1, <1>2 DEF Fits

-----------------------------------------------------------------------------
(* The inductive invariant of a search. *)

\* An entry on the way to a file that does not leave it out.
Passed(m) ==
  /\ m \in Dirs => ~Tree[m].skipped /\ (m # base => ~Tree[m].hidden)
  /\ query.noIgnore \/ (m = base /\ m \notin Dirs) \/ ~Excluded(m)

\* A visit is of an entry under the start that nothing above leaves out, and
\* only a file in scope is read.
VisitIs(v) ==
  /\ v.node \in Nodes \cup {0} /\ base \in Upto(v.node)
  /\ v.op = "visit" => \A m \in Above[v.node] \ {0} : base \in Upto(m) => Passed(m)
  /\ v.op = "read" => v.node \in Nodes \ Dirs /\ InScope(v.node)

\* No entry is under two visits.
VisitsApart(vs) ==
  \A n \in Nodes \cup {0} : \A i, j \in DOMAIN vs :
    vs[i].node \in Upto(n) /\ vs[j].node \in Upto(n) => i = j

\* The walk comes back up: what is visited later lies in a directory above.
VisitsBack(vs) ==
  \A i, j \in DOMAIN vs : i < j => Above[vs[j].node] \subseteq Above[vs[i].node]

VisitsOK(vs, ls) ==
  /\ IsSequence(vs) /\ VisitsApart(vs) /\ VisitsBack(vs)
  /\ \A i \in DOMAIN vs : VisitIs(vs[i])
  /\ LevelsFit(vs, ls)

\* The entries that stand for a file that nobody touched.
Watched == {n \in Nodes : Untouched(n)}

Awaited(vs, n) == \E j \in DOMAIN vs : vs[j].node \in Upto(n)

\* Of a file that nobody touched only what is due is shown, and all of it unless
\* the file is yet to come, the search stopped at its cap, reading failed on the
\* way to it, or its context is beyond the ints.
ShowsDue(ms, vs, full, gone) ==
  /\ Once(ms)
  /\ \A i \in DOMAIN ms : ms[i].node \in Nodes \ Dirs /\ ~Awaited(vs, ms[i].node)
  /\ \A n \in Watched :
       /\ ShownIn(ms, n) \subseteq Due(n)
       /\ \/ full \/ Awaited(vs, n) \/ gone \cap Upto(n) # {} \/ Overflows(content[Source(n)])
          \/ ShownIn(ms, n) = Due(n)

CountOK ==
  /\ total \in Nat /\ total <= MaxMatches /\ capped \in BOOLEAN
  /\ (capped <=> total = MaxMatches) /\ (capped => visits = <<>>)

SearchTree ==
  status # "off" =>
    /\ query \in Queries /\ base \in Nodes \cup {0} /\ cascade \in Cascades
    /\ status = "start" => visits = <<>> /\ matches = <<>> /\ total = 0 /\ capped = FALSE
    /\ status \in {"walk", "done"} =>
         VisitsOK(visits, levels) /\ ShowsDue(matches, visits, capped, unread) /\ CountOK
    /\ status = "done" => visits = <<>>

LEMMA SearchTreeInit == Init => SearchTree
<1>1. RepoSearchInit => SearchTree
  BY DEF RepoSearchInit, SearchTree
<1>2. RepoSearchOff => SearchTree
  BY DEF RepoSearchOff, SearchTree
<1> QED
  BY <1>1, <1>2 DEF Init

\* What the property asks for.
LEMMA SearchTreeExact == SearchTree => SearchIsExact
<1> SUFFICES ASSUME SearchTree, status = "done" PROVE SearchIsExact
  BY DEF SearchIsExact
<1>1. VisitsOK(visits, levels) /\ ShowsDue(matches, visits, capped, unread) /\ CountOK /\ visits = <<>>
  BY DEF SearchTree
<1>2. \A n : ~Awaited(visits, n)
  <2>1. DOMAIN <<>> = {}
    OBVIOUS
  <2> QED
    BY <1>1, <2>1 DEF Awaited
<1>3. \A i, j \in DOMAIN matches : i # j => matches[i] # matches[j]
  BY <1>1 DEF ShowsDue, Once
<1>4. total <= MaxMatches /\ (capped <=> total = MaxMatches)
  BY <1>1 DEF CountOK
<1>5. \A n \in Watched :
        /\ ShownIn(matches, n) \subseteq Due(n)
        /\ ShownIn(matches, n) = Due(n) \/ capped \/ Lost(n) \/ Overflows(content[Source(n)])
  BY <1>1, <1>2 DEF ShowsDue, Lost
<1> QED
  BY <1>3, <1>4, <1>5 DEF SearchIsExact, Watched

-----------------------------------------------------------------------------
(* A visit is done. *)

\* The first visit is replaced by others, under it and clear of each other.
Follows(cs, n) ==
  /\ IsSequence(cs) /\ VisitsApart(cs) /\ VisitsBack(cs)
  /\ \A i \in DOMAIN cs : VisitIs(cs[i]) /\ n \in Upto(cs[i].node)

\* The levels after it are those above the entry, with or without its own.
LevelsAt(ks, n, cs) ==
  IF query.noIgnore THEN ks = <<>>
  ELSE /\ Rising(ks) /\ (Elems(ks) = Above[n] \/ Elems(ks) = Upto(n))
       /\ \A i \in DOMAIN cs : Fits(Elems(ks), cs[i].node)

LEMMA VisitsTo ==
  ASSUME NEW vs, NEW ls, VisitsOK(vs, ls), vs # <<>>, NEW n, n = vs[1].node,
         NEW cs, Follows(cs, n), NEW w, Replaced(w, cs, vs), NEW ks, LevelsAt(ks, n, cs)
  PROVE  VisitsOK(w, ks)
<1> DEFINE p == Len(cs)
<1>0. /\ 1 \in DOMAIN vs /\ n \in Nodes \cup {0} /\ p \in Nat /\ DOMAIN cs = 1..p
      /\ DOMAIN vs \subseteq Nat /\ DOMAIN w \subseteq Nat
  BY DEF Replaced, VisitsOK, VisitIs, Follows, IsSequence
<1>1. ASSUME NEW i \in DOMAIN w
      PROVE  \/ i \in 1..p /\ w[i] = cs[i]
             \/ i \notin 1..p /\ i - p \in Nat /\ i - p + 1 \in DOMAIN vs /\ i - p + 1 # 1 /\ w[i] = vs[i - p + 1]
  BY <1>0 DEF Replaced
<1>2. \A i \in DOMAIN w : VisitIs(w[i])
  BY <1>0, <1>1 DEF VisitsOK, Follows
<1>3. \A i \in 1..p : n \in Upto(cs[i].node) /\ cs[i].node \in Nodes \cup {0} /\ Above[n] \subseteq Above[cs[i].node]
  <2> TAKE i \in 1..p
  <2>1. n \in Upto(cs[i].node) /\ cs[i].node \in Nodes \cup {0}
    BY <1>0 DEF Follows, VisitIs
  <2> QED
    BY <2>1, UptoUpto
<1>4. VisitsApart(w)
  <2> SUFFICES ASSUME NEW m \in Nodes \cup {0}, NEW i \in DOMAIN w, NEW j \in DOMAIN w,
                      w[i].node \in Upto(m), w[j].node \in Upto(m)
               PROVE  i = j
    BY DEF VisitsApart
  <2>1. ASSUME NEW x \in 1..p, cs[x].node \in Upto(m) PROVE vs[1].node \in Upto(m)
    BY <1>3, <2>1, UptoUpto
  <2>2. \A x, y \in DOMAIN vs : vs[x].node \in Upto(m) /\ vs[y].node \in Upto(m) => x = y
    BY DEF VisitsOK, VisitsApart
  <2>3. CASE i \in 1..p /\ j \in 1..p
    <3>1. w[i] = cs[i] /\ w[j] = cs[j]
      BY <1>1, <2>3
    <3> QED
      BY <1>0, <2>3, <3>1 DEF Follows, VisitsApart
  <2>4. CASE i \in 1..p /\ j \notin 1..p
    <3>1. w[i] = cs[i] /\ w[j] = vs[j - p + 1] /\ j - p + 1 \in DOMAIN vs /\ j - p + 1 # 1
      BY <1>1, <2>4
    <3>2. vs[1].node \in Upto(m)
      BY <2>1, <2>4, <3>1
    <3> QED
      BY <1>0, <2>2, <3>1, <3>2
  <2>5. CASE i \notin 1..p /\ j \in 1..p
    <3>1. w[j] = cs[j] /\ w[i] = vs[i - p + 1] /\ i - p + 1 \in DOMAIN vs /\ i - p + 1 # 1
      BY <1>1, <2>5
    <3>2. vs[1].node \in Upto(m)
      BY <2>1, <2>5, <3>1
    <3> QED
      BY <1>0, <2>2, <3>1, <3>2
  <2>6. CASE i \notin 1..p /\ j \notin 1..p
    <3>1. /\ w[j] = vs[j - p + 1] /\ j - p + 1 \in DOMAIN vs
          /\ w[i] = vs[i - p + 1] /\ i - p + 1 \in DOMAIN vs
      BY <1>1, <2>6
    <3>2. i - p + 1 = j - p + 1
      BY <2>2, <3>1
    <3> QED
      BY <1>0, <3>2
  <2> QED
    BY <2>3, <2>4, <2>5, <2>6
<1>5. \A x \in DOMAIN vs : x # 1 => Above[vs[x].node] \subseteq Above[n]
  <2> TAKE x \in DOMAIN vs
  <2> HAVE x # 1
  <2>1. DOMAIN vs = 1..Len(vs) /\ Len(vs) \in Nat
    BY DEF VisitsOK, IsSequence
  <2>2. 1 < x
    BY <2>1
  <2> QED
    BY <1>0, <2>2 DEF VisitsOK, VisitsBack
<1>6. VisitsBack(w)
  <2> SUFFICES ASSUME NEW i \in DOMAIN w, NEW j \in DOMAIN w, i < j
               PROVE  Above[w[j].node] \subseteq Above[w[i].node]
    BY DEF VisitsBack
  <2>1. CASE i \in 1..p /\ j \in 1..p
    BY <1>0, <1>1, <2>1 DEF Follows, VisitsBack
  <2>2. CASE i \in 1..p /\ j \notin 1..p
    <3>1. w[i] = cs[i] /\ w[j] = vs[j - p + 1] /\ j - p + 1 \in DOMAIN vs /\ j - p + 1 # 1
      BY <1>1, <2>2
    <3>2. Above[w[j].node] \subseteq Above[n]
      BY <1>5, <3>1
    <3>3. Above[n] \subseteq Above[w[i].node]
      BY <1>3, <2>2, <3>1
    <3> QED
      BY <3>2, <3>3
  <2>3. CASE i \notin 1..p /\ j \in 1..p
    <3>1. i - p \in Nat /\ i \in Nat /\ i - p + 1 # 1
      BY <1>0, <1>1, <2>3
    <3> QED
      BY <1>0, <2>3, <3>1
  <2>4. CASE i \notin 1..p /\ j \notin 1..p
    <3> DEFINE x == i - p + 1
               y == j - p + 1
    <3>1. w[i] = vs[x] /\ x \in DOMAIN vs /\ w[j] = vs[y] /\ y \in DOMAIN vs
      BY <1>1, <2>4
    <3>2. x < y
      BY <1>0
    <3> HIDE DEF x, y
    <3> QED
      BY <3>1, <3>2 DEF VisitsOK, VisitsBack
  <2> QED
    BY <2>1, <2>2, <2>3, <2>4
<1>7. LevelsFit(w, ks)
  <2>1. CASE query.noIgnore
    BY <2>1 DEF LevelsFit, LevelsAt
  <2>2. CASE ~query.noIgnore
    <3>1. Rising(ks) /\ (Elems(ks) = Above[n] \/ Elems(ks) = Upto(n))
      BY <2>2 DEF LevelsAt
    <3>2. Elems(ks) \subseteq Nat
      <4>1. n \in Nat
        BY <1>0, TreeAssumption
      <4>2. Above[n] \subseteq Nat
        BY <1>0, AboveIn
      <4> QED
        BY <3>1, <4>1, <4>2 DEF Upto
    <3>3. ASSUME NEW i \in DOMAIN w PROVE Fits(Elems(ks), w[i].node)
      <4>1. CASE i \in 1..p
        BY <1>0, <1>1, <2>2, <4>1 DEF LevelsAt
      <4>2. CASE i \notin 1..p
        <5> DEFINE x == i - p + 1
                   m == vs[x].node
        <5>1. w[i] = vs[x] /\ x \in DOMAIN vs /\ x # 1
          BY <1>1, <4>2
        <5> HIDE DEF x
        <5>2. m \in Nodes \cup {0} /\ Above[m] \subseteq Above[n]
          BY <1>5, <5>1 DEF VisitsOK, VisitIs
        <5>3. m \notin Upto(n)
          <6>1. n \in Upto(n)
            BY DEF Upto
          <6> QED
            BY <1>0, <5>1, <6>1 DEF VisitsOK, VisitsApart
        <5> HIDE DEF m
        <5>4. Fits(Elems(ks), m)
          BY <1>0, <3>1, <5>2, <5>3, FitsOnTheWay
        <5> QED
          BY <5>1, <5>4 DEF m
      <4> QED
        BY <4>1, <4>2
    <3> QED
      BY <2>2, <3>1, <3>2, <3>3 DEF LevelsFit
  <2> QED
    BY <2>1, <2>2
<1>8. IsSequence(w)
  BY DEF Replaced
<1> QED
  BY <1>2, <1>4, <1>6, <1>7, <1>8 DEF VisitsOK

\* A file comes to be awaited no more only when nothing is due of it, or reading it failed.
LEMMA DueTo ==
  ASSUME NEW ms, NEW vs, NEW full, NEW gone, ShowsDue(ms, vs, full, gone), NEW n, n = vs[1].node,
         NEW cs, Follows(cs, n), NEW w, Replaced(w, cs, vs), NEW lost, gone \subseteq lost,
         \A f \in Watched : n \in Upto(f) => Due(f) = {} \/ Awaited(cs, f) \/ lost \cap Upto(f) # {}
  PROVE  ShowsDue(ms, w, full, lost)
<1>1. ASSUME NEW f \in Nodes, Awaited(w, f) PROVE Awaited(vs, f)
  <2>1. PICK i \in DOMAIN w : w[i].node \in Upto(f)
    BY <1>1 DEF Awaited
  <2>2. CASE i \in DOMAIN cs /\ w[i] = cs[i]
    <3>1. n \in Upto(f)
      BY <2>1, <2>2, UptoUpto DEF Follows
    <3> QED
      BY <3>1 DEF Awaited, Replaced
  <2>3. CASE ~(i \in DOMAIN cs /\ w[i] = cs[i])
    <3>1. i - Len(cs) + 1 \in DOMAIN vs /\ w[i] = vs[i - Len(cs) + 1]
      BY <2>3 DEF Replaced
    <3> QED
      BY <2>1, <3>1 DEF Awaited
  <2> QED
    BY <2>2, <2>3
<1>2. ASSUME NEW f \in Watched, ~Awaited(w, f), Awaited(vs, f), lost \cap Upto(f) = {} PROVE Due(f) = {}
  <2>1. PICK i \in DOMAIN vs : vs[i].node \in Upto(f)
    BY <1>2 DEF Awaited
  <2>2. i = 1
    BY <1>2, <2>1 DEF Awaited, Replaced
  <2>3. ~Awaited(cs, f)
    BY <1>2 DEF Awaited, Replaced
  <2> QED
    BY <1>2, <2>1, <2>2, <2>3
<1>4. \A i \in DOMAIN ms : ms[i].node \in Nodes \ Dirs /\ ~Awaited(w, ms[i].node)
  BY <1>1 DEF ShowsDue
<1>5. ASSUME NEW f \in Watched,
             ~(full \/ Awaited(w, f) \/ lost \cap Upto(f) # {} \/ Overflows(content[Source(f)]))
      PROVE  ShownIn(ms, f) = Due(f)
  <2>1. /\ ShownIn(ms, f) \subseteq Due(f)
        /\ ~Awaited(vs, f) => ShownIn(ms, f) = Due(f)
    <3>1. gone \cap Upto(f) = {}
      BY <1>5
    <3> QED
      BY <1>5, <3>1 DEF ShowsDue
  <2>2. CASE Awaited(vs, f)
    BY <1>2, <1>5, <2>1, <2>2
  <2> QED
    BY <2>1, <2>2
<1>6. \A f \in Watched : ShownIn(ms, f) \subseteq Due(f)
  BY DEF ShowsDue
<1>7. \A f \in Watched :
        \/ full \/ Awaited(w, f) \/ lost \cap Upto(f) # {} \/ Overflows(content[Source(f)])
        \/ ShownIn(ms, f) = Due(f)
  BY <1>5
<1>8. Once(ms)
  BY DEF ShowsDue
<1> QED
  BY <1>4, <1>6, <1>7, <1>8 DEF ShowsDue

-----------------------------------------------------------------------------
(* The steps of a search. *)

\* What a search should come to depends on its options, the rules and the files only.
LEMMA SameScope ==
  ASSUME UNCHANGED <<query, base, cascade>>
  PROVE  /\ \A n : Excluded(n)' <=> Excluded(n)
         /\ \A n : InScope(n)' <=> InScope(n)
         /\ \A v : VisitIs(v)' <=> VisitIs(v)
         /\ \A n, c : Expected(n, c)' = Expected(n, c)
         /\ \A n : Source(n)' = Source(n)
         /\ \A c : Overflows(c)' <=> Overflows(c)
         /\ \A vs, ls : LevelsFit(vs, ls)' <=> LevelsFit(vs, ls)
<1>0. query' = query /\ base' = base /\ cascade' = cascade
  OBVIOUS
<1>1. \A n : Excluded(n)' <=> Excluded(n)
  BY <1>0 DEF Excluded
<1>1a. \A n : Source(n)' = Source(n)
  BY <1>0 DEF Source
<1>1b. \A c : Overflows(c)' <=> Overflows(c)
  BY <1>0 DEF Overflows, ShowsLines
<1>2. \A n : InScope(n)' <=> InScope(n)
  BY <1>0, <1>1, <1>1a DEF InScope
<1>3. \A n : Passed(n)' <=> Passed(n)
  BY <1>0, <1>1 DEF Passed
<1>4. \A v : VisitIs(v)' <=> VisitIs(v)
  BY <1>0, <1>2, <1>3 DEF VisitIs
<1>5. \A n, c : Expected(n, c)' = Expected(n, c)
  <2> TAKE n, c
  <2>1. Matched(c)' = Matched(c)
    BY <1>0 DEF Matched
  <2> QED
    BY <1>0, <1>1b, <2>1 DEF Expected
<1>6. \A vs, ls : LevelsFit(vs, ls)' <=> LevelsFit(vs, ls)
  BY <1>0 DEF LevelsFit
<1> QED
  BY <1>1, <1>1a, <1>1b, <1>2, <1>4, <1>5, <1>6

\* A file is its own source, and what another entry stands for is no directory.
LEMMA SourceIs ==
  ASSUME NEW n \in Nodes
  PROVE  /\ n \in Files => Source(n) = n
         /\ Source(n) \in Files => n \notin Dirs
         /\ n \notin Dirs => Source(n) \notin Dirs
         /\ n \in Dirs => n \notin Files
<1>1. /\ n \in Files => n \notin DOMAIN LinkTo /\ n \notin Dirs
      /\ n \in Dirs => n \notin DOMAIN LinkTo /\ n \notin Files
  BY RepoSearchAssumption, ParentIs DEF Files, Dirs
<1>2. n \in DOMAIN LinkTo => LinkTo[n] \in Files
  BY RepoSearchAssumption
<1>3. \A m \in Files : m \notin Dirs
  BY ParentIs DEF Files, Dirs
<1> QED
  BY <1>1, <1>2, <1>3 DEF Source

\* What is due of a file with a given content.
DueOf(n, c) == IF InScope(n) /\ Legible(c) THEN Expected(n, c) ELSE {}

DueByContent == \A n, m, c : Source(n) = m /\ content[m] = c => Due(n) = DueOf(n, c)

LEMMA DueIs == DueByContent
BY DEF DueByContent, Due, DueOf

\* What is due of a file that nobody touched stays as it is.
LEMMA SameDue ==
  ASSUME TreeOK, Edit \/ UNCHANGED treeVars, UNCHANGED <<query, base, cascade>>,
         NEW n \in Nodes, Untouched(n)'
  PROVE  n \in Watched /\ Due(n)' = Due(n) /\ (Overflows(content[Source(n)])' <=> Overflows(content[Source(n)]))
<1>0. /\ \A m : InScope(m)' <=> InScope(m)
      /\ \A m, c : Expected(m, c)' = Expected(m, c)
      /\ \A m : Source(m)' = Source(m)
      /\ \A c : Overflows(c)' <=> Overflows(c)
  BY SameScope
<1> DEFINE src == Source(n)
<1>1. src' = src /\ src \in Files \ touched'
  BY <1>0 DEF Untouched
<1>1a. PICK m : m = src
  OBVIOUS
<1>1b. m' = m /\ m \in Files \ touched'
  BY <1>1, <1>1a
<1>2. m \notin touched /\ content'[m] = content[m]
  <2>1. CASE Edit
    BY <1>1b, <2>1, UntouchedStays
  <2>2. CASE UNCHANGED treeVars
    BY <1>1b, <2>2 DEF treeVars
  <2> QED
    BY <2>1, <2>2
<1>3. \A k, c : DueOf(k, c)' = DueOf(k, c)
  BY <1>0 DEF DueOf, Legible
<1>4. DueByContent'
  BY DueIs, PTL
<1>5. \A k, x, c : Source(k)' = x /\ content'[x] = c => Due(k)' = DueOf(k, c)'
  BY <1>4 DEF DueByContent
<1>6. \A c : c = content[m] => Due(n)' = DueOf(n, c) /\ Due(n) = DueOf(n, c)
  <2> TAKE c
  <2> HAVE c = content[m]
  <2>1. Source(n)' = m /\ content'[m] = c
    BY <1>1, <1>1a, <1>2
  <2>2. Due(n)' = DueOf(n, c)'
    BY <1>5, <2>1
  <2>3. Due(n) = DueOf(n, c)
    BY <1>1a, DueIs DEF DueByContent
  <2> QED
    BY <1>3, <2>2, <2>3
<1>7. n \in Watched
  BY <1>1a, <1>1b, <1>2 DEF Watched, Untouched
<1>8. Overflows(content[Source(n)])' <=> Overflows(content[Source(n)])
  BY <1>0, <1>1a, <1>2
<1> QED
  BY <1>6, <1>7, <1>8

\* A step keeps SearchTree if what it comes to is as it should be.
LEMMA SearchKept ==
  ASSUME TreeOK, SearchTree, UNCHANGED <<query, base, cascade>>, Edit \/ UNCHANGED treeVars,
         status \in {"start", "walk", "done"}, status' \in {"walk", "done"},
         NEW vs, NEW ls, NEW ms, NEW full, NEW gone,
         visits' = vs, levels' = ls, matches' = ms, capped' = full, unread' = gone,
         VisitsOK(vs, ls), ShowsDue(ms, vs, full, gone), CountOK', status' = "done" => vs = <<>>
  PROVE  SearchTree'
<1>1. /\ \A v : VisitIs(v)' <=> VisitIs(v)
      /\ \A us, ks : LevelsFit(us, ks)' <=> LevelsFit(us, ks)
  BY SameScope
<1>2. VisitsOK(vs, ls)'
  BY <1>1 DEF VisitsOK, VisitsApart, VisitsBack
<1>3. \A n \in Watched' : /\ n \in Watched /\ Due(n)' = Due(n)
                          /\ Overflows(content[Source(n)])' <=> Overflows(content[Source(n)])
  <2> TAKE n \in Watched'
  <2>1. n \in Nodes /\ Untouched(n)'
    BY DEF Watched
  <2> QED
    BY <2>1, SameDue
<1>4. ShowsDue(ms, vs, full, gone)'
  BY <1>3 DEF ShowsDue, Awaited, ShownIn
<1>5. VisitsOK(visits, levels)'
  BY <1>2
<1>6. ShowsDue(matches, visits, capped, unread)'
  BY <1>4
<1>7. query \in Queries /\ base \in Nodes \cup {0} /\ cascade \in Cascades
  BY DEF SearchTree
<1>8. status' # "start" /\ (status' = "done" => visits' = <<>>)
  OBVIOUS
<1>9. query' \in Queries /\ base' \in Nodes \cup {0} /\ cascade' \in Cascades
  BY <1>7
<1> QED
  BY <1>5, <1>6, <1>8, <1>9 DEF SearchTree

\* What the search knows while it walks.
LEMMA InWalk ==
  ASSUME SearchTree, status \in {"walk", "done"}
  PROVE  /\ query \in Queries /\ base \in Nodes \cup {0} /\ cascade \in Cascades
         /\ query.noIgnore \in BOOLEAN /\ query.include \in BOOLEAN /\ query.exclude \in BOOLEAN
         /\ VisitsOK(visits, levels) /\ ShowsDue(matches, visits, capped, unread) /\ CountOK
         /\ IsSequence(visits)
<1>1. /\ query \in Queries /\ base \in Nodes \cup {0} /\ cascade \in Cascades
      /\ VisitsOK(visits, levels) /\ ShowsDue(matches, visits, capped, unread) /\ CountOK
  BY DEF SearchTree
<1>2. query.noIgnore \in BOOLEAN /\ query.include \in BOOLEAN /\ query.exclude \in BOOLEAN
  BY <1>1, RepoSearchAssumption
<1> QED
  BY <1>1, <1>2 DEF VisitsOK

\* The first visit, and the levels it finds.
FirstVisit(n) ==
  /\ 1 \in DOMAIN visits /\ Head(visits) = visits[1] /\ n = visits[1].node /\ n \in Nodes \cup {0}
  /\ VisitIs(visits[1])
  /\ query.noIgnore => Unwound(n) = <<>>
  /\ ~query.noIgnore => Rising(Unwound(n)) /\ Elems(Unwound(n)) = Above[n]
  /\ n # 0 => (Dropped(n) <=> ~query.noIgnore /\ Excluded(n))

LEMMA FirstIs ==
  ASSUME SearchTree, status = "walk", visits # <<>>, NEW n, n = Head(visits).node
  PROVE  FirstVisit(n)
<1>1. /\ VisitsOK(visits, levels) /\ IsSequence(visits) /\ query.noIgnore \in BOOLEAN /\ cascade \in Cascades
  BY InWalk
<1>2. 1 \in DOMAIN visits /\ Head(visits) = visits[1]
  <2>1. PICK E : visits \in Seq(E)
    BY <1>1 DEF IsSequence
  <2> QED
    BY <2>1
<1>3. n \in Nodes \cup {0} /\ VisitIs(visits[1])
  BY <1>1, <1>2 DEF VisitsOK, VisitIs
<1>4. query.noIgnore => Unwound(n) = <<>>
  BY DEF Unwound
<1>5. ~query.noIgnore => Rising(Unwound(n)) /\ Elems(Unwound(n)) = Above[n]
  <2> HAVE ~query.noIgnore
  <2>1. Rising(levels) /\ Elems(levels) \subseteq Nat /\ Fits(Elems(levels), n)
    BY <1>1, <1>2 DEF VisitsOK, LevelsFit
  <2>2. Unwound(n) = PopLeftDirs(levels, n)
    BY DEF Unwound
  <2> QED
    BY <1>3, <2>1, <2>2, PopIs
<1>6. n # 0 => (Dropped(n) <=> ~query.noIgnore /\ Excluded(n))
  <2> HAVE n # 0
  <2>1. CASE query.noIgnore
    BY <2>1 DEF Dropped
  <2>2. CASE ~query.noIgnore
    <3>1. n \in Nodes
      BY <1>3
    <3>2. Ignores(Unwound(n), n) <=> Excluded(n)
      BY <1>1, <1>5, <2>2, <3>1, IgnoresIsExcluded
    <3> QED
      BY <2>2, <3>2 DEF Dropped
  <2> QED
    BY <2>1, <2>2
<1> QED
  BY <1>2, <1>3, <1>4, <1>5, <1>6 DEF FirstVisit

\* The first visit is replaced, and nothing is reported.
LEMMA VisitReplaced ==
  ASSUME TreeOK, SearchTree, status = "walk", visits # <<>>, NEW n, n = Head(visits).node,
         UNCHANGED treeVars, UNCHANGED <<query, base, cascade, matches, total, capped, status>>,
         NEW cs, Follows(cs, n), visits' = cs \o Tail(visits),
         NEW ks, LevelsAt(ks, n, cs), levels' = ks, NEW gone, unread \subseteq gone, unread' = gone,
         \A f \in Watched : n \in Upto(f) => Due(f) = {} \/ Awaited(cs, f) \/ gone \cap Upto(f) # {}
  PROVE  SearchTree'
<1> DEFINE w == cs \o Tail(visits)
<1>1. VisitsOK(visits, levels) /\ ShowsDue(matches, visits, capped, unread) /\ CountOK /\ IsSequence(visits)
  BY InWalk
<1>2. FirstVisit(n)
  BY FirstIs
<1>3. Replaced(w, cs, visits)
  BY <1>1, HeadReplaced DEF Follows
<1>4. visits' = w
  OBVIOUS
<1> HIDE DEF w
<1>5. n = visits[1].node
  BY <1>2 DEF FirstVisit
<1>6. VisitsOK(w, ks)
  BY <1>1, <1>3, <1>5, VisitsTo
<1>7. ShowsDue(matches, w, capped, gone)
  BY <1>1, <1>3, <1>5, DueTo
<1>8. ~capped /\ CountOK'
  <2>1. ~capped
    BY <1>1 DEF CountOK
  <2> QED
    BY <1>1, <2>1 DEF CountOK
<1>9. /\ matches' = matches /\ capped' = capped /\ status' = "walk"
      /\ UNCHANGED <<query, base, cascade>>
  OBVIOUS
<1> DEFINE ms == matches
           full == capped
<1>10. ShowsDue(ms, w, full, gone) /\ matches' = ms /\ capped' = full
  BY <1>7, <1>9
<1> HIDE DEF ms, full
<1>11. /\ status \in {"start", "walk", "done"} /\ status' \in {"walk", "done"}
       /\ (status' = "done" => w = <<>>) /\ CountOK' /\ levels' = ks
  BY <1>8, <1>9
<1> QED
  BY <1>4, <1>6, <1>9, <1>10, <1>11, SearchKept

\* Nothing on the way to a directory is under it.
LEMMA NotUnder ==
  ASSUME NEW n \in Nodes \cup {0}, NEW m \in Above[n]
  PROVE  n \notin Upto(m)
<1> SUFFICES ASSUME n \in Upto(m) PROVE FALSE
  OBVIOUS
<1>1. m \in Nodes \cup {0} /\ m \in Nat /\ m < n
  BY AboveIn
<1>2. n = m \/ n \in Above[m]
  BY DEF Upto
<1>3. n \in Nat
  BY ParentIs
<1>4. n \in Above[m] => n < m
  BY <1>1, AboveIn
<1> QED
  BY <1>1, <1>2, <1>3, <1>4

\* A search starts with the visit of its start.
LEMMA SearchStartKeeps ==
  ASSUME TreeOK, SearchTree, SearchStart, UNCHANGED treeVars
  PROVE  SearchTree'
<1>1. /\ status = "start" /\ query \in Queries /\ base \in Nodes \cup {0} /\ cascade \in Cascades
      /\ visits = <<>> /\ matches = <<>> /\ total = 0 /\ capped = FALSE
      /\ UNCHANGED <<query, base, cascade, matches, total, capped, unread>>
  BY DEF SearchTree, SearchStart
<1>2. CASE status' = "failed"
  BY <1>1, <1>2 DEF SearchTree
<1>3. CASE status' # "failed"
  <2> DEFINE vs == <<Visit(base)>>
             ls == IF query.noIgnore THEN <<>> ELSE AncestorLevels(base)
             ms == <<>>
             full == FALSE
             gone == unread
  <2>1. visits' = vs /\ levels' = ls /\ status' = "walk"
    BY <1>3 DEF SearchStart
  <2>2. IsSequence(vs) /\ DOMAIN vs = {1} /\ vs[1] = Visit(base)
    BY OneTask
  <2> HIDE DEF vs, ls
  <2>3. vs[1].node = base /\ vs[1].op = "visit" /\ base \in Upto(base)
    BY <2>2 DEF Visit, Upto
  <2>4. VisitIs(vs[1])
    <3>1. \A m \in Above[base] : base \notin Upto(m)
      BY <1>1, NotUnder
    <3> QED
      BY <1>1, <2>3, <3>1 DEF VisitIs
  <2>5. LevelsFit(vs, ls)
    <3>1. CASE query.noIgnore
      BY <3>1 DEF LevelsFit, ls
    <3>2. CASE ~query.noIgnore
      <4>1. Rising(ls) /\ Elems(ls) = Above[base]
        BY <1>1, <3>2, AncestorsAre DEF ls
      <4>2. base \notin Above[base] /\ Above[base] \subseteq Nat
        BY <1>1, AboveIn
      <4>3. Fits(Above[base], base)
        BY <4>2 DEF Fits
      <4> QED
        BY <2>2, <2>3, <3>2, <4>1, <4>2, <4>3 DEF LevelsFit
    <3> QED
      BY <3>1, <3>2
  <2>6. VisitsApart(vs)
    BY <2>2 DEF VisitsApart
  <2>6a. VisitsBack(vs)
    BY <2>2 DEF VisitsBack
  <2>7. VisitsOK(vs, ls)
    BY <2>2, <2>4, <2>5, <2>6, <2>6a DEF VisitsOK
  <2>8. Once(ms) /\ DOMAIN ms = {}
    BY OnceFew
  <2>9. matches' = ms /\ capped' = full /\ unread' = gone
    BY <1>1
  <2> HIDE DEF ms
  <2>10. ShowsDue(ms, vs, full, gone)
    <3>1. ASSUME NEW f \in Watched, ~Awaited(vs, f) PROVE Due(f) = {}
      <4>1. base \notin Upto(f)
        BY <2>2, <2>3, <3>1 DEF Awaited
      <4> QED
        BY <4>1 DEF Due, InScope
    <3>2. \A f : ShownIn(ms, f) = {}
      BY <2>8 DEF ShownIn
    <3> QED
      BY <2>8, <3>1, <3>2 DEF ShowsDue
  <2> HIDE DEF full, gone
  <2>11. CountOK'
    <3>1. total' = 0 /\ capped' = FALSE
      BY <1>1
    <3>2. 0 \in Nat /\ 0 <= MaxMatches /\ 0 # MaxMatches
      BY RepoSearchAssumption
    <3> QED
      BY <3>1, <3>2, Zenon DEF CountOK
  <2>12. status \in {"start", "walk", "done"} /\ status' \in {"walk", "done"} /\ (status' = "done" => vs = <<>>)
         /\ UNCHANGED <<query, base, cascade>>
    BY <1>1, <2>1
  <2> QED
    BY <2>1, <2>7, <2>9, <2>10, <2>11, <2>12, SearchKept
<1> QED
  BY <1>2, <1>3

\* Nothing follows a visit.
LEMMA NothingFollows ==
  ASSUME NEW n
  PROVE  /\ Follows(<<>>, n) /\ ~ \E f : Awaited(<<>>, f)
         /\ \A u : IsSequence(u) => <<>> \o u = u
<1> DEFINE e == <<>>
<1>1. IsSequence(e) /\ DOMAIN e = {}
  BY OnceFew DEF Once
<1> HIDE DEF e
<1>2. Follows(e, n) /\ ~ \E f : Awaited(e, f)
  BY <1>1 DEF Follows, Awaited, VisitsApart, VisitsBack
<1>3. \A u : IsSequence(u) => <<>> \o u = u
  <2> TAKE u
  <2> HAVE IsSequence(u)
  <2>1. PICK E : u \in Seq(E)
    BY DEF IsSequence
  <2> QED
    BY <2>1
<1> QED
  BY <1>2, <1>3 DEF e

\* An entry is passed over when nothing is due of it or below it, or reading it failed.
LEMMA PassKeeps ==
  ASSUME TreeOK, SearchTree, status = "walk", visits # <<>>, NEW n, n = Head(visits).node,
         NEW lost, PassOver(n, lost), UNCHANGED treeVars,
         \A f \in Watched : n \in Upto(f) => Due(f) = {} \/ lost \cap Upto(f) # {}
  PROVE  SearchTree'
<1> DEFINE e == <<>>
           t == Tail(visits)
           ks == Unwound(n)
           gone == unread \cup lost
<1>1. /\ levels' = ks /\ visits' = t /\ unread' = gone
      /\ UNCHANGED <<query, base, cascade, matches, total, capped, status>>
  BY DEF PassOver
<1>2. FirstVisit(n) /\ IsSequence(visits)
  BY FirstIs, InWalk
<1>3. Follows(e, n) /\ ~(\E f : Awaited(e, f)) /\ e \o t = t
  <2>1. IsSequence(t)
    <3>1. PICK E : visits \in Seq(E)
      BY <1>2 DEF IsSequence
    <3>2. t \in Seq(E)
      BY <3>1
    <3> QED
      BY <3>2 DEF IsSequence
  <2> HIDE DEF t
  <2> QED
    BY <2>1, NothingFollows
<1>4. LevelsAt(ks, n, e)
  <2>1. DOMAIN e = {}
    OBVIOUS
  <2> HIDE DEF e, ks
  <2>2. query.noIgnore => ks = <<>>
    BY <1>2 DEF FirstVisit, ks
  <2>3. ~query.noIgnore => Rising(ks) /\ Elems(ks) = Above[n]
    BY <1>2 DEF FirstVisit, ks
  <2> QED
    BY <2>1, <2>2, <2>3 DEF LevelsAt
<1>5. visits' = e \o Tail(visits)
  BY <1>1, <1>3
<1>6. /\ unread \subseteq gone
      /\ \A f \in Watched : n \in Upto(f) => Due(f) = {} \/ Awaited(e, f) \/ gone \cap Upto(f) # {}
  OBVIOUS
<1> HIDE DEF e, ks, t, gone
<1> QED
  BY <1>1, <1>3, <1>4, <1>5, <1>6, VisitReplaced

\* An entry on the way to a file in scope, from the start down.
LEMMA OnWay ==
  ASSUME NEW f \in Nodes, InScope(f), NEW n \in Upto(f), n # 0, base \in Upto(n)
  PROVE  Passed(n)
BY DEF InScope, Passed

\* What is no directory is above itself only.
LEMMA UnderFile ==
  ASSUME NEW f \in Nodes, NEW n \in Upto(f), n \notin Dirs
  PROVE  n = f
<1>1. f \in Nodes \cup {0}
  OBVIOUS
<1> QED
  BY <1>1, UptoUpto

\* A directory is left out, or its entries are visited.
LEMMA DirectoryKeeps ==
  ASSUME TreeOK, SearchTree, VisitDirectory, UNCHANGED treeVars
  PROVE  SearchTree'
<1> DEFINE n == Head(visits).node
           out == n # 0 /\ ((Tree[n].hidden /\ n # base) \/ Tree[n].skipped \/ Dropped(n))
<1>1. status = "walk" /\ visits # <<>> /\ Head(visits).op = "visit" /\ n \in Dirs
  BY DEF VisitDirectory, Visiting
<1>2. /\ FirstVisit(n) /\ IsSequence(visits) /\ base \in Nodes \cup {0} /\ query.noIgnore \in BOOLEAN
      /\ VisitIs(visits[1]) /\ n = visits[1].node /\ visits[1].op = "visit" /\ n \in Nodes \cup {0}
  BY <1>1, FirstIs, InWalk DEF FirstVisit
<1>3. \A f \in Watched : f \in Nodes /\ f \notin Dirs /\ f # 0
  BY SourceIs, ParentIs DEF Watched, Untouched
<1>4. CASE out
  <2>1. PassOver(n, {})
    BY <1>4 DEF VisitDirectory
  <2> HIDE DEF n
  <2>2. ASSUME NEW f \in Watched, n \in Upto(f) PROVE Due(f) = {}
    <3>1. base \in Upto(n) /\ n # 0
      BY <1>2, <1>4 DEF VisitIs
    <3>2. ~Passed(n)
      BY <1>1, <1>2, <1>4, <3>1 DEF Passed, FirstVisit
    <3>3. ~InScope(f)
      BY <1>3, <2>2, <3>1, <3>2, OnWay
    <3> QED
      BY <3>3 DEF Due
  <2> QED
    BY <1>1, <2>1, <2>2, PassKeeps DEF n
<1>5. CASE ~out
  <2>0. PICK T \in SUBSET Children(n) :
           LET names == InNameOrder(T)
           IN /\ levels' = IF query.noIgnore THEN <<>> ELSE Append(Unwound(n), n)
              /\ visits' = [i \in DOMAIN names |-> Visit(names[i])] \o Tail(visits)
              /\ unread' = unread \cup (Children(n) \ T)
              /\ UNCHANGED <<query, base, cascade, matches, total, capped, status>>
    BY <1>5 DEF VisitDirectory
  <2> DEFINE names == InNameOrder(T)
             k == Cardinality(T)
             cs == [i \in DOMAIN names |-> Visit(names[i])]
             ks == IF query.noIgnore THEN <<>> ELSE Append(Unwound(n), n)
             gone == unread \cup (Children(n) \ T)
  <2>1. /\ levels' = ks /\ visits' = cs \o Tail(visits) /\ unread' = gone
        /\ UNCHANGED <<query, base, cascade, matches, total, capped, status>>
    BY <2>0
  <2> HIDE DEF n
  <2>2. /\ k \in Nat /\ names \in [1..k -> T]
        /\ \A i, j \in 1..k : i < j => names[i] < names[j]
        /\ \A x \in T : \E i \in 1..k : names[i] = x
    <3>1. T \subseteq Nodes /\ T \subseteq Nat
      BY TreeAssumption DEF Children
    <3>2. IsFiniteSet(T)
      BY <3>1, TreeAssumption, FS_Subset
    <3>3. names = Ascending(T)
      BY DEF InNameOrder
    <3> HIDE DEF names
    <3> QED
      BY <3>1, <3>2, <3>3, AscendingIs
  <2>3. \A x \in T : x \in Nodes /\ x \in Nat /\ Tree[x].parent = n /\ Above[x] = Upto(n) /\ Exists(x)
    BY AboveStep, ParentIs DEF Children
  <2>3a. /\ unread \subseteq gone
         /\ \A x \in Nodes : Tree[x].parent = n /\ Exists(x) => x \in T \/ x \in gone
    BY DEF Children
  <2> HIDE DEF names, k, gone
  <2>4. \A i \in 1..k : names[i] \in T /\ names[i] \in Nodes /\ names[i] \in Nat /\ Tree[names[i]].parent = n
                        /\ Above[names[i]] = Upto(n)
    BY <2>2, <2>3
  <2>5. DOMAIN cs = 1..k /\ IsSequence(cs) /\ \A i \in 1..k : cs[i].node = names[i] /\ cs[i].op = "visit"
    <3> DEFINE E == {Visit(x) : x \in T}
    <3>1. DOMAIN names = 1..k
      BY <2>2
    <3>2. cs \in [1..k -> E] /\ \A i \in 1..k : cs[i] = Visit(names[i])
      BY <2>2, <3>1
    <3> HIDE DEF E, cs
    <3>3. cs \in Seq(E) /\ DOMAIN cs = 1..k
      BY <2>2, <3>2
    <3> QED
      BY <3>2, <3>3 DEF IsSequence, Visit
  <2> HIDE DEF cs, ks
  <2>6. n # 0 => Passed(n)
    BY <1>1, <1>2, <1>5 DEF Passed, FirstVisit
  <2>7. ASSUME NEW i \in DOMAIN cs PROVE VisitIs(cs[i]) /\ n \in Upto(cs[i].node)
    <3>1. /\ cs[i].node \in Nodes /\ Above[cs[i].node] = Upto(n) /\ cs[i].op = "visit"
      BY <2>4, <2>5
    <3>2. n \in Upto(n) /\ base \in Upto(n)
      BY <1>2 DEF VisitIs, Upto
    <3>3. n \in Upto(cs[i].node) /\ base \in Upto(cs[i].node)
      BY <3>1, <3>2 DEF Upto
    <3>4. \A m \in Upto(n) \ {0} : base \in Upto(m) => Passed(m)
      <4>1. \A m \in Above[n] \ {0} : base \in Upto(m) => Passed(m)
        BY <1>2 DEF VisitIs
      <4> QED
        BY <2>6, <4>1 DEF Upto
    <3> QED
      BY <3>1, <3>3, <3>4 DEF VisitIs
  <2>8. \A i, j \in DOMAIN cs : cs[i].node = cs[j].node => i = j
    <3> SUFFICES ASSUME NEW i \in 1..k, NEW j \in 1..k, names[i] = names[j] PROVE i = j
      BY <2>5
    <3>1. ~(i < j) /\ ~(j < i)
      BY <2>2, <2>4
    <3> QED
      BY <2>2, <3>1
  <2>9. VisitsApart(cs)
    <3> SUFFICES ASSUME NEW m \in Nodes \cup {0}, NEW i \in DOMAIN cs, NEW j \in DOMAIN cs,
                        cs[i].node \in Upto(m), cs[j].node \in Upto(m)
                 PROVE  i = j
      BY DEF VisitsApart
    <3>1. cs[i].node = cs[j].node
      BY <2>4, <2>5, SiblingsApart
    <3> QED
      BY <2>8, <3>1
  <2>10. VisitsBack(cs)
    BY <2>4, <2>5 DEF VisitsBack
  <2>11. Follows(cs, n)
    BY <2>5, <2>7, <2>9, <2>10 DEF Follows
  <2>12. LevelsAt(ks, n, cs)
    <3>1. CASE query.noIgnore
      BY <3>1 DEF LevelsAt, ks
    <3>2. CASE ~query.noIgnore
      <4>1. Rising(Unwound(n)) /\ Elems(Unwound(n)) = Above[n]
        BY <1>2, <3>2 DEF FirstVisit
      <4>2. ks = Append(Unwound(n), n)
        BY <3>2 DEF ks
      <4>3. Rising(ks) /\ Elems(ks) = Upto(n)
        BY <1>2, <4>1, <4>2, LevelAdded
      <4>4. \A i \in DOMAIN cs : Fits(Elems(ks), cs[i].node)
        <5> TAKE i \in DOMAIN cs
        <5>1. cs[i].node \in Nodes /\ Above[cs[i].node] = Upto(n)
          BY <2>4, <2>5
        <5>2. cs[i].node \notin Above[cs[i].node]
          BY <5>1, AboveIn
        <5> QED
          BY <4>3, <5>1, <5>2 DEF Fits
      <4> QED
        BY <3>2, <4>3, <4>4 DEF LevelsAt
    <3> QED
      BY <3>1, <3>2
  <2>13. ASSUME NEW f \in Watched, n \in Upto(f)
         PROVE  Due(f) = {} \/ Awaited(cs, f) \/ gone \cap Upto(f) # {}
    <3>1. f \in Nodes /\ f \notin Dirs
      BY <1>3
    <3>2. n \in Above[f]
      <4>1. f # n
        BY <1>1, <3>1
      <4> QED
        BY <2>13, <3>1, <4>1, UptoUpto
    <3>3. PICK c \in Nodes : c \in Upto(f) /\ Tree[c].parent = n
      BY <3>1, <3>2, EntryAbove
    <3>4. CASE Exists(c) /\ c \in T
      <4>1. PICK i \in 1..k : names[i] = c
        BY <2>2, <3>4
      <4> QED
        BY <2>5, <3>3, <4>1 DEF Awaited
    <3>5. CASE Exists(c) /\ c \notin T
      <4>1. c \in gone
        BY <2>3a, <3>3, <3>5
      <4> QED
        BY <3>3, <4>1
    <3>6. CASE ~Exists(c)
      <4>1. c \in Files /\ content[c] = NoFile
        BY <3>6 DEF Exists
      <4>2. c \notin Dirs /\ Source(c) = c
        BY <3>3, <4>1, SourceIs
      <4>3. c = f
        BY <3>1, <3>3, <4>2, UnderFile
      <4> QED
        BY <4>1, <4>2, <4>3 DEF Due, Legible
    <3> QED
      BY <3>4, <3>5, <3>6
  <2> QED
    BY <1>1, <2>1, <2>3a, <2>11, <2>12, <2>13, VisitReplaced DEF n
<1> QED
  BY <1>4, <1>5

\* A file is left out, or it is read next.
LEMMA FileVisitKeeps ==
  ASSUME TreeOK, SearchTree, VisitFile, UNCHANGED treeVars
  PROVE  SearchTree'
<1> DEFINE n == Head(visits).node
           file == Source(n)
           out == \/ n # base /\ Dropped(n)
                  \/ Tree[n].skipped
                  \/ query.include /\ ~Tree[n].glob
                  \/ query.exclude /\ Tree[n].glob
                  \/ ~IsThere(file)
           large == NodeSize(file) > RepoSearchBytes
           cs == <<ReadIt(n)>>
           ks == Unwound(n)
           gone == unread
           reads == /\ NodeSize(file) <= RepoSearchBytes
                    /\ levels' = ks
                    /\ visits' = cs \o Tail(visits)
                    /\ UNCHANGED <<query, base, cascade, matches, total, capped, status, unread>>
<1>1. status = "walk" /\ visits # <<>> /\ Head(visits).op = "visit" /\ n \in Nodes \ Dirs
  BY DEF VisitFile, Visiting
<1>2. /\ FirstVisit(n) /\ base \in Nodes \cup {0}
      /\ query.noIgnore \in BOOLEAN /\ query.include \in BOOLEAN /\ query.exclude \in BOOLEAN
      /\ VisitIs(visits[1]) /\ n = visits[1].node /\ visits[1].op = "visit"
  BY <1>1, FirstIs, InWalk DEF FirstVisit
<1>3. n # 0 /\ base \in Upto(n) /\ n \in Upto(n)
  BY <1>1, <1>2 DEF VisitIs, Dirs, Upto
<1>4. Dropped(n) <=> ~query.noIgnore /\ Excluded(n)
  BY <1>2, <1>3 DEF FirstVisit
<1>4a. \/ (out \/ large) /\ PassOver(n, {})
       \/ PassOver(n, {n})
       \/ ~out /\ reads
  BY DEF VisitFile
<1>4b. \A f \in Watched : n \in Upto(f) => f = n
  BY <1>1, UnderFile DEF Watched
<1>4c. file \notin Dirs
  BY <1>1, SourceIs
<1>5. CASE (out \/ large) /\ PassOver(n, {})
  <2>1. PassOver(n, {})
    BY <1>5
  <2>2. ASSUME NEW f \in Watched, n \in Upto(f) PROVE Due(f) = {}
    <3>1. n = f /\ f \in Nodes
      BY <1>1, <1>4b, <2>2
    <3> HIDE DEF n
    <3>2. CASE ~IsThere(file)
      <4>1. file \notin Files \/ content[file] = NoFile
        BY <3>2 DEF IsThere, Exists
      <4> QED
        BY <3>1, <4>1 DEF Due, InScope, Legible
    <3>3. CASE large
      <4>1. file \in Files => NodeSize(file) = SizeOf(content[file])
        BY DEF NodeSize
      <4>2. CASE file \notin Files
        BY <3>1, <4>2 DEF Due, InScope
      <4>3. CASE content[file] = NoFile
        BY <3>1, <4>3 DEF Due, Legible
      <4>4. CASE file \in Files /\ content[file] # NoFile
        <5>1. content[file] \in Contents
          BY <4>4 DEF TreeOK
        <5>2. SizeOf(content[file]) \in Nat /\ RepoSearchBytes \in Nat
          BY <5>1, SizeNat, RepoSearchAssumption
        <5>3. ~(SizeOf(content[file]) <= RepoSearchBytes)
          BY <3>3, <4>1, <4>4, <5>2
        <5> QED
          BY <3>1, <5>3 DEF Due, Legible
      <4> QED
        BY <4>2, <4>3, <4>4
    <3>4. CASE n # base /\ Dropped(n)
      <4>1. ~Passed(n)
        BY <1>4, <3>4 DEF Passed
      <4>2. ~InScope(f)
        BY <1>3, <2>2, <3>1, <4>1, OnWay
      <4> QED
        BY <4>2 DEF Due
    <3>5. CASE Tree[n].skipped \/ (query.include /\ ~Tree[n].glob) \/ (query.exclude /\ Tree[n].glob)
      <4>1. ~InScope(f)
        BY <3>1, <3>5 DEF InScope
      <4> QED
        BY <4>1 DEF Due
    <3> QED
      BY <1>5, <3>2, <3>3, <3>4, <3>5
  <2> HIDE DEF n
  <2> QED
    BY <1>1, <2>1, <2>2, PassKeeps DEF n
<1>6. CASE PassOver(n, {n})
  <2> DEFINE lost == {n}
  <2>1. \A f \in Watched : n \in Upto(f) => lost \cap Upto(f) # {}
    OBVIOUS
  <2>2. PassOver(n, lost)
    BY <1>6
  <2> HIDE DEF n, lost
  <2> QED
    BY <1>1, <2>1, <2>2, PassKeeps DEF n
<1>7. CASE ~out /\ reads
  <2>1. /\ levels' = ks /\ visits' = cs \o Tail(visits) /\ unread' = gone /\ unread \subseteq gone
        /\ UNCHANGED <<query, base, cascade, matches, total, capped, status>>
    BY <1>7
  <2>2. IsSequence(cs) /\ DOMAIN cs = {1} /\ cs[1] = ReadIt(n)
    BY OneTask
  <2>2a. ~out
    BY <1>7
  <2>2b. file \in Files
    BY <1>4c, <2>2a DEF IsThere
  <2> HIDE DEF cs, ks, n, gone
  <2>3. cs[1].node = n /\ cs[1].op = "read"
    BY <2>2 DEF ReadIt
  <2>4. \A m \in Above[n] \ {0} : base \in Upto(m) => Passed(m)
    BY <1>2 DEF VisitIs
  <2>5. Passed(n)
    BY <1>1, <1>4, <2>2a DEF Passed
  <2>6. InScope(n)
    <3>1. \A m \in Upto(n) : m # 0 /\ base \in Upto(m) => Passed(m)
      BY <2>4, <2>5 DEF Upto
    <3> QED
      BY <1>3, <2>2a, <2>2b, <3>1 DEF InScope, Passed
  <2>7. VisitIs(cs[1])
    BY <1>1, <1>3, <2>3, <2>6 DEF VisitIs
  <2>8. VisitsApart(cs)
    BY <2>2 DEF VisitsApart
  <2>9. VisitsBack(cs)
    BY <2>2 DEF VisitsBack
  <2>10. Follows(cs, n)
    BY <1>3, <2>2, <2>3, <2>7, <2>8, <2>9 DEF Follows
  <2>11. LevelsAt(ks, n, cs)
    <3>1. query.noIgnore => ks = <<>>
      BY <1>2 DEF FirstVisit, ks
    <3>2. ~query.noIgnore => Rising(ks) /\ Elems(ks) = Above[n]
      BY <1>2 DEF FirstVisit, ks
    <3>3. Fits(Above[n], n)
      <4>1. n \notin Above[n]
        BY <1>1, AboveIn
      <4> QED
        BY <4>1 DEF Fits
    <3> QED
      BY <2>2, <2>3, <3>1, <3>2, <3>3 DEF LevelsAt
  <2>12. ASSUME NEW f \in Watched, n \in Upto(f) PROVE Awaited(cs, f)
    BY <2>2, <2>3, <2>12 DEF Awaited
  <2> QED
    BY <1>1, <2>1, <2>10, <2>11, <2>12, VisitReplaced DEF n
<1> QED
  BY <1>4a, <1>5, <1>6, <1>7

\* What is shown of a file after its matches were added to the others.
LEMMA ShownAdded ==
  ASSUME NEW ms, NEW xs, Once(ms), Once(xs), NEW n, \A x \in Elems(xs) : x.node = n,
         \A i \in DOMAIN ms : ms[i].node # n
  PROVE  /\ Once(ms \o xs) /\ Elems(ms \o xs) = Elems(ms) \cup Elems(xs)
         /\ ShownIn(ms \o xs, n) = Elems(xs)
         /\ \A f : f # n => ShownIn(ms \o xs, f) = ShownIn(ms, f)
<1>1. Elems(ms) \cap Elems(xs) = {}
  BY DEF Elems
<1>2. Once(ms \o xs) /\ Elems(ms \o xs) = Elems(ms) \cup Elems(xs)
  BY <1>1, OnceJoined
<1>3. \A f, u : ShownIn(u, f) = {x \in Elems(u) : x.node = f}
  BY DEF ShownIn, Elems
<1> DEFINE w == ms \o xs
<1>4. Elems(w) = Elems(ms) \cup Elems(xs)
  BY <1>2
<1> HIDE DEF w
<1>5. \A x \in Elems(ms) : x.node # n
  BY DEF Elems
<1>6. ShownIn(w, n) = Elems(xs)
  BY <1>3, <1>4, <1>5
<1>7. \A f : f # n => ShownIn(w, f) = ShownIn(ms, f)
  BY <1>3, <1>4
<1> QED
  BY <1>2, <1>6, <1>7 DEF w

\* A file is read, and what it shows is reported as far as there is room.
LEMMA ReadKeeps ==
  ASSUME TreeOK, SearchTree, ReadAndMatch, UNCHANGED treeVars
  PROVE  SearchTree'
<1> DEFINE n == Head(visits).node
           c == content[Source(n)]
           out == SizeOf(c) > RepoSearchBytes \/ c.binary
           report == Report(n, c)
           stops == report.counted > 0 /\ total + report.counted >= MaxMatches
           reads == /\ SizeOf(c) <= RepoSearchBytes /\ ~c.binary
                    /\ matches' = matches \o report.lines
                    /\ total' = total + report.counted
                    /\ capped' = stops
                    /\ visits' = IF stops THEN <<>> ELSE Tail(visits)
                    /\ UNCHANGED <<query, base, cascade, levels, status, unread>>
<1>1. status = "walk" /\ visits # <<>> /\ Head(visits).op = "read" /\ n \in Nodes
  BY DEF ReadAndMatch, Visiting
<1>2. /\ FirstVisit(n) /\ query \in Queries /\ IsSequence(visits)
      /\ VisitsOK(visits, levels) /\ ShowsDue(matches, visits, capped, unread) /\ CountOK
      /\ VisitIs(visits[1]) /\ n = visits[1].node /\ visits[1].op = "read" /\ 1 \in DOMAIN visits
  BY <1>1, FirstIs, InWalk DEF FirstVisit
<1>3. n \in Nodes \ Dirs /\ InScope(n) /\ n \in Upto(n) /\ Source(n) \in Files
  BY <1>2 DEF VisitIs, Upto, InScope
<1>4. \A f \in Nodes : n \in Upto(f) => f = n
  BY <1>3, UnderFile
<1>4a. \/ c = NoFile /\ PassOver(n, {})
       \/ PassOver(n, {n})
       \/ c # NoFile /\ out /\ PassOver(n, {})
       \/ c # NoFile /\ reads
  BY DEF ReadAndMatch
<1>4b. c # NoFile => c \in Contents /\ SizeOf(c) \in Nat /\ RepoSearchBytes \in Nat /\ c.binary \in BOOLEAN
  <2>1. c \in Contents \cup {NoFile}
    BY <1>3 DEF TreeOK
  <2> HIDE DEF c
  <2> QED
    BY <2>1, SizeNat, LinesOf, RepoSearchAssumption
<1>5. CASE (c = NoFile \/ out) /\ PassOver(n, {})
  <2>1. PassOver(n, {})
    BY <1>5
  <2>2. ASSUME NEW f \in Watched, n \in Upto(f) PROVE Due(f) = {}
    <3>1. n = f
      BY <1>4, <2>2 DEF Watched
    <3> HIDE DEF n
    <3>2. ~Legible(c)
      <4> HIDE DEF c
      <4> QED
        BY <1>4b, <1>5 DEF Legible
    <3> QED
      BY <3>1, <3>2 DEF Due
  <2> HIDE DEF n
  <2> QED
    BY <1>1, <2>1, <2>2, PassKeeps DEF n
<1>5a. CASE PassOver(n, {n})
  <2> DEFINE lost == {n}
  <2>1. \A f \in Watched : n \in Upto(f) => lost \cap Upto(f) # {}
    OBVIOUS
  <2>2. PassOver(n, lost)
    BY <1>5a
  <2> HIDE DEF n, lost
  <2> QED
    BY <1>1, <2>1, <2>2, PassKeeps DEF n
<1>6. CASE c # NoFile /\ reads
  <2> DEFINE r == Report(n, c)
             xs == r.lines
             more == r.counted
             full == more > 0 /\ total + more >= MaxMatches
             e == <<>>
             t == Tail(visits)
             w == IF full THEN e ELSE t
             ms == matches \o xs
             gone == unread
  <2>1. /\ matches' = ms /\ total' = total + more /\ capped' = full /\ visits' = w /\ unread' = gone
        /\ UNCHANGED <<query, base, cascade, levels, status>>
    BY <1>6
  <2>2. c \in Contents /\ Legible(c)
    BY <1>4b, <1>6 DEF Legible
  <2>3. ~capped /\ total \in Nat /\ total < MaxMatches /\ MaxMatches \in Nat \ {0}
    <3>1. ~capped
      BY <1>1, <1>2 DEF CountOK
    <3>2. total \in Nat /\ total <= MaxMatches /\ total # MaxMatches
      BY <1>2, <3>1 DEF CountOK
    <3> QED
      BY <3>1, <3>2, RepoSearchAssumption
  <2>4. ReportOK(r, n, c)
    <3> HIDE DEF n, c
    <3> QED
      BY <1>2, <2>2, <2>3, ReportIs
  <2> HIDE DEF r
  <2>5. /\ Once(xs) /\ (\A x \in Elems(xs) : x.node = n) /\ Elems(xs) \subseteq Expected(n, c)
        /\ more \in Nat /\ total + more <= MaxMatches
        /\ (total + more < MaxMatches /\ ~Overflows(c) => Elems(xs) = Expected(n, c))
    BY <2>4 DEF ReportOK
  <2> HIDE DEF xs, more
  <2>6. full <=> total + more = MaxMatches
    BY <2>3, <2>5
  <2>7. ~full /\ ~Overflows(c) => Elems(xs) = Expected(n, c)
    BY <2>3, <2>5, <2>6
  <2> HIDE DEF full
  <2>8. full \in BOOLEAN
    BY <2>6
  <2>9. Due(n) = Expected(n, c)
    BY <1>3, <2>2 DEF Due
  <2> HIDE DEF ms, gone
  <2>10. \A i \in DOMAIN matches : matches[i].node # n
    BY <1>2, <1>3 DEF ShowsDue, Awaited
  <2>11. /\ Once(ms) /\ Elems(ms) = Elems(matches) \cup Elems(xs)
         /\ ShownIn(ms, n) = Elems(xs)
         /\ \A f : f # n => ShownIn(ms, f) = ShownIn(matches, f)
    <3>1. Once(matches)
      BY <1>2 DEF ShowsDue
    <3> HIDE DEF n
    <3> QED
      BY <2>5, <2>10, <3>1, ShownAdded DEF ms
  \* what is left to visit
  <2>12. IsSequence(t) /\ IsSequence(e) /\ DOMAIN e = {} /\ e \o t = t
    <3>1. PICK E : visits \in Seq(E)
      BY <1>2 DEF IsSequence
    <3>2. t \in Seq(E)
      BY <1>1, <3>1
    <3>3. DOMAIN e = {} /\ e \in Seq({})
      OBVIOUS
    <3> HIDE DEF t, e
    <3>4. IsSequence(t) /\ IsSequence(e)
      BY <3>2, <3>3 DEF IsSequence
    <3>5. e \o t = t
      BY <3>4, NothingFollows DEF e
    <3> QED
      BY <3>3, <3>4, <3>5
  <2>13. Replaced(t, e, visits) /\ Follows(e, n)
    <3>1. t = e \o Tail(visits)
      BY <2>12
    <3> HIDE DEF t, e, n
    <3>2. Replaced(t, e, visits)
      BY <1>1, <1>2, <2>12, <3>1, HeadReplaced
    <3> QED
      BY <3>2, NothingFollows DEF e
  <2> HIDE DEF t, e
  <2>14. \A i \in DOMAIN t : \E j \in DOMAIN visits : j # 1 /\ t[i] = visits[j]
    <3> TAKE i \in DOMAIN t
    <3> DEFINE j == i - Len(e) + 1
    <3>1. j \in DOMAIN visits /\ j # 1 /\ t[i] = visits[j]
      BY <2>12, <2>13 DEF Replaced
    <3> HIDE DEF j
    <3> QED
      BY <3>1
  <2>15. \A f \in Nodes : Awaited(t, f) => Awaited(visits, f)
    BY <2>14 DEF Awaited
  <2>16. ~Awaited(t, n)
    <3>1. n \in Nodes \cup {0} /\ visits[1].node \in Upto(n)
      BY <1>1, <1>2, <1>3
    <3>2. \A j \in DOMAIN visits : visits[j].node \in Upto(n) => j = 1
      BY <1>2, <3>1 DEF VisitsOK, VisitsApart
    <3> QED
      BY <2>14, <3>2 DEF Awaited
  <2>17. \A f \in Nodes : f # n /\ ~Awaited(t, f) => ~Awaited(visits, f)
    <3> SUFFICES ASSUME NEW f \in Nodes, f # n, Awaited(visits, f) PROVE Awaited(t, f)
      OBVIOUS
    <3>1. PICK j \in DOMAIN visits : visits[j].node \in Upto(f)
      BY DEF Awaited
    <3>2. j # 1
      BY <1>2, <1>4, <3>1
    <3>3. PICK i \in DOMAIN t : t[i] = visits[j]
      BY <2>13, <3>2 DEF Replaced
    <3> QED
      BY <3>1, <3>3 DEF Awaited
  <2>18. \A f : ~Awaited(e, f)
    BY <2>12 DEF Awaited
  <2>19. VisitsOK(w, levels)
    <3>1. CASE full
      <4>1. w = e
        BY <3>1
      <4>2. IF query.noIgnore THEN levels = <<>> ELSE Rising(levels) /\ Elems(levels) \subseteq Nat
        BY <1>2 DEF VisitsOK, LevelsFit
      <4> QED
        BY <2>12, <4>1, <4>2 DEF VisitsOK, VisitsApart, VisitsBack, LevelsFit
    <3>2. CASE ~full
      <4>1. w = t
        BY <3>2
      <4>2. IF query.noIgnore THEN levels = <<>>
            ELSE /\ Rising(levels) /\ Elems(levels) \subseteq Nat
                 /\ \A i \in DOMAIN visits : Fits(Elems(levels), visits[i].node)
        BY <1>2 DEF VisitsOK, LevelsFit
      <4>3. LevelsFit(t, levels)
        BY <2>14, <4>2 DEF LevelsFit
      <4>4. \A i \in DOMAIN t : VisitIs(t[i])
        BY <1>2, <2>14 DEF VisitsOK
      <4>5. DOMAIN t \subseteq Nat /\ \A i \in DOMAIN t : /\ i + 1 \in DOMAIN visits /\ t[i] = visits[i + 1]
        <5>1. Len(e) = 0
          BY OnceFew DEF e
        <5>2. \A i \in DOMAIN t : i \in Nat /\ i - 0 + 1 = i + 1
          BY <2>13 DEF Replaced
        <5> QED
          BY <2>12, <2>13, <5>1, <5>2 DEF Replaced
      <4>6. VisitsBack(t)
        <5> SUFFICES ASSUME NEW i \in DOMAIN t, NEW j \in DOMAIN t, i < j
                     PROVE  Above[t[j].node] \subseteq Above[t[i].node]
          BY DEF VisitsBack
        <5>1. i + 1 < j + 1
          BY <4>5
        <5> QED
          BY <1>2, <4>5, <5>1 DEF VisitsOK, VisitsBack
      <4>7. VisitsApart(t)
        <5> SUFFICES ASSUME NEW m \in Nodes \cup {0}, NEW i \in DOMAIN t, NEW j \in DOMAIN t,
                            t[i].node \in Upto(m), t[j].node \in Upto(m)
                     PROVE  i = j
          BY DEF VisitsApart
        <5>1. i + 1 = j + 1
          BY <1>2, <4>5 DEF VisitsOK, VisitsApart
        <5> QED
          BY <4>5, <5>1
      <4> QED
        BY <2>12, <4>1, <4>3, <4>4, <4>6, <4>7 DEF VisitsOK
    <3> QED
      BY <3>1, <3>2
  <2>20. \A f \in Nodes : Awaited(w, f) => Awaited(visits, f) /\ f # n
    BY <2>15, <2>16, <2>18
  <2>21. \A f \in Nodes : ~full /\ f # n /\ ~Awaited(w, f) => ~Awaited(visits, f)
    BY <2>17
  <2>21a. \A f \in Watched : f \in Nodes
    BY DEF Watched
  <2>21b. PICK src : src = Source(n) /\ c = content[src]
    OBVIOUS
  <2> HIDE DEF w, n, c
  <2>22. \A i \in DOMAIN ms : ms[i].node \in Nodes \ Dirs /\ ~Awaited(w, ms[i].node)
    <3>1. \A x \in Elems(matches) : x.node \in Nodes \ Dirs /\ ~Awaited(visits, x.node)
      BY <1>2 DEF ShowsDue, Elems
    <3>2. \A x \in Elems(ms) : x.node \in Nodes \ Dirs /\ ~Awaited(w, x.node)
      BY <1>3, <2>5, <2>11, <2>20, <3>1
    <3> QED
      BY <3>2 DEF Elems
  <2>23. ASSUME NEW f \in Watched
         PROVE  /\ ShownIn(ms, f) \subseteq Due(f)
                /\ \/ full \/ Awaited(w, f) \/ gone \cap Upto(f) # {} \/ Overflows(content[Source(f)])
                   \/ ShownIn(ms, f) = Due(f)
    <3>1. CASE f = n
      BY <2>5, <2>7, <2>9, <2>11, <2>21b, <3>1
    <3>2. CASE f # n
      BY <1>2, <2>3, <2>11, <2>21, <2>21a, <3>2 DEF ShowsDue, gone
    <3> QED
      BY <3>1, <3>2
  <2>24. ShowsDue(ms, w, full, gone)
    BY <2>11, <2>22, <2>23 DEF ShowsDue
  <2>25. CountOK'
    <3>1. total' \in Nat /\ total' <= MaxMatches
      BY <2>1, <2>3, <2>5
    <3>2. capped' \in BOOLEAN /\ (capped' <=> total' = MaxMatches)
      <4>1. capped' = full /\ total' = total + more
        BY <2>1
      <4> QED
        BY <2>6, <2>8, <4>1, Zenon
    <3>3. capped' => visits' = <<>>
      BY <2>1 DEF w, e
    <3> QED
      BY <3>1, <3>2, <3>3 DEF CountOK
  <2> DEFINE ls == levels
  <2>26. /\ visits' = w /\ matches' = ms /\ capped' = full /\ levels' = ls /\ unread' = gone
         /\ UNCHANGED <<query, base, cascade>>
         /\ status \in {"start", "walk", "done"} /\ status' \in {"walk", "done"}
         /\ (status' = "done" => w = <<>>)
    BY <1>1, <2>1
  <2>27. VisitsOK(w, ls)
    BY <2>19
  <2> HIDE DEF ls
  <2> QED
    BY <2>24, <2>25, <2>26, <2>27, SearchKept
<1> QED
  BY <1>4a, <1>5, <1>5a, <1>6

\* The walk is over when nothing is left, and others edit meanwhile.
LEMMA RestKeeps ==
  ASSUME TreeOK, SearchTree, Edit \/ UNCHANGED treeVars, SearchDone \/ UNCHANGED searchVars
  PROVE  SearchTree'
<1>1. UNCHANGED <<query, base, cascade, levels, visits, matches, total, capped, unread>>
  BY DEF SearchDone, searchVars
<1>2. \/ status = "walk" /\ visits = <<>> /\ status' = "done"
      \/ status' = status
  BY DEF SearchDone, searchVars
<1>3. CASE status \in {"walk", "done"}
  <2> DEFINE vs == visits
             ls == levels
             ms == matches
             full == capped
             gone == unread
  <2>1. VisitsOK(vs, ls) /\ ShowsDue(ms, vs, full, gone) /\ CountOK
    BY <1>3, InWalk
  <2>2. /\ visits' = vs /\ levels' = ls /\ matches' = ms /\ capped' = full
        /\ unread' = gone /\ UNCHANGED <<query, base, cascade>>
        /\ status \in {"start", "walk", "done"} /\ status' \in {"walk", "done"}
    BY <1>1, <1>2, <1>3
  <2>3. status' = "done" => vs = <<>>
    BY <1>2, <1>3 DEF SearchTree
  <2>4. CountOK'
    BY <1>1, <2>1 DEF CountOK
  <2> HIDE DEF vs, ls, ms, full, gone
  <2> QED
    BY <2>1, <2>2, <2>3, <2>4, SearchKept
<1>4. CASE status \notin {"walk", "done"}
  BY <1>1, <1>2, <1>4 DEF SearchTree
<1> QED
  BY <1>3, <1>4

\* Every step keeps SearchTree.
LEMMA SearchTreeKept ==
  ASSUME TreeOK, SearchTree, [Next]_vars
  PROVE  SearchTree'
<1>1. CASE RepoSearchNext
  <2>0. UNCHANGED treeVars
    BY <1>1 DEF RepoSearchNext
  <2>1. CASE SearchStart
    BY <2>0, <2>1, SearchStartKeeps
  <2>2. CASE VisitDirectory
    BY <2>0, <2>2, DirectoryKeeps
  <2>3. CASE VisitFile
    BY <2>0, <2>3, FileVisitKeeps
  <2>4. CASE ReadAndMatch
    BY <2>0, <2>4, ReadKeeps
  <2>5. CASE SearchDone
    BY <2>0, <2>5, RestKeeps
  <2> QED
    BY <1>1, <2>1, <2>2, <2>3, <2>4, <2>5 DEF RepoSearchNext
<1>2. CASE UNCHANGED searchVars /\ (Edit \/ UNCHANGED treeVars)
  BY <1>2, RestKeeps
<1>3. ReadsNext \/ WalkNext => UNCHANGED treeVars
  BY DEF ReadsNext, WalkNext
<1> QED
  BY <1>1, <1>2, <1>3 DEF Next, vars, OthersEdit, Returned

\* A repository search shows nothing twice and counts no more than its cap. Of a
\* file that nobody touched it shows only what the options and the ignore files it
\* could read leave in scope, and all of that unless it says it is truncated,
\* reading failed on the way to the file, or the lines of context are beyond the
\* ints; whatever the files that others edit meanwhile, whichever reads fail, and
\* for any number of lines of context (searchFilesAtRoot, ignoreStack).
THEOREM SearchesAreExact == Spec => []SearchIsExact
<1>1. Init => TreeOK /\ SearchTree
  BY SearchTreeInit DEF Init, TreeInit, TreeOK
<1>2. TreeOK /\ SearchTree /\ [Next]_vars => TreeOK' /\ SearchTree'
  BY TreeStep, SearchTreeKept
<1>3. SearchTree => SearchIsExact
  BY SearchTreeExact
<1> QED
  BY <1>1, <1>2, <1>3, PTL DEF Spec
=============================================================================
