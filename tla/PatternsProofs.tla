---------------------------- MODULE PatternsProofs ----------------------------
(***************************************************************************)
(* The patterns of work and traffic, for any numbers of nodes and GPUs and *)
(* any size that their divisors divide: nothing is lost, nothing is sent   *)
(* twice, and symmetric patterns are symmetric.                            *)
(***************************************************************************)
EXTENDS MCPatterns, WellFoundedInduction, TLAPS

-----------------------------------------------------------------------------
(* Sums.                                                                   *)

LEMMA LeastNumber ==
  ASSUME NEW T \in SUBSET Nat, T # {}
  PROVE  \E i \in T : \A k \in T : i <= k
<1>1. PICK i \in T : \A k \in T : <<k, i>> \notin OpToRel(<, Nat)
  BY NatLessThanWellFounded, WFMin
<1>2. \A k \in T : <<k, i>> \in Nat \X Nat /\ (k < i => <<k, i>> \in OpToRel(<, Nat))
  BY DEF OpToRel
<1>3. \A k \in T : ~(k < i)
  BY <1>1, <1>2
<1> QED
  BY <1>3

LEMMA MaxOfBounded ==
  ASSUME NEW b \in Nat, NEW S \in SUBSET (0 .. b), S # {}
  PROVE  Max(S) \in S /\ Max(S) <= b
<1> DEFINE T == {b - x : x \in S}
<1>0. \A x \in S : x \in 0 .. b
  OBVIOUS
<1>1. T \in SUBSET Nat /\ T # {}
  <2>1. \A x \in S : b - x \in T /\ b - x \in Nat
    BY <1>0
  <2> QED
    BY <2>1
<1>2. PICK t \in T : \A k \in T : t <= k
  BY <1>1, LeastNumber
<1>3. PICK x \in S : t = b - x
  BY <1>2
<1>4. \A y \in S : x >= y
  BY <1>0, <1>2, <1>3
<1>5. Max(S) \in S
  BY <1>4 DEF Max
<1>6. Max(S) \in 0 .. b
  BY <1>5, Zenon
<1>7. \A y \in 0 .. b : y <= b
  OBVIOUS
<1> QED
  BY <1>5, <1>6, <1>7, Zenon

\* The running sums of f, as SumOf defines them.
Running(f, k) == CHOOSE sum : sum = [i \in 0 .. k |-> IF i = 0 THEN 0 ELSE sum[i - 1] + f[i - 1]]

\* Whatever function adds f up gives its sum.
LEMMA SumIs ==
  ASSUME NEW k \in Nat, NEW f, NEW run,
         \A i \in 0 .. k - 1 : f[i] \in Int,
         run[0] = 0, \A i \in 1 .. k : run[i] = run[i - 1] + f[i - 1]
  PROVE  SumOf(f, k) = run[k]
<1> DEFINE u == Running(f, k)
           T == {i \in 0 .. k : u[i] # run[i]}
<1>1. u = [i \in 0 .. k |-> IF i = 0 THEN 0 ELSE u[i - 1] + f[i - 1]]
  <2> DEFINE h == [i \in 0 .. k |-> run[i]]
  <2>1. h = [i \in 0 .. k |-> IF i = 0 THEN 0 ELSE h[i - 1] + f[i - 1]]
    <3> SUFFICES ASSUME NEW i \in 0 .. k
                 PROVE  h[i] = IF i = 0 THEN 0 ELSE h[i - 1] + f[i - 1]
      OBVIOUS
    <3>1. CASE i = 0
      BY <3>1
    <3>2. CASE i # 0
      <4>1. i \in 1 .. k /\ i - 1 \in 0 .. k
        BY <3>2
      <4> QED
        BY <3>2, <4>1
    <3> QED
      BY <3>1, <3>2
  <2> HIDE DEF h
  <2> QED
    BY <2>1 DEF Running
<1> HIDE DEF u
<1>2. u[0] = 0 /\ \A i \in 1 .. k : u[i] = u[i - 1] + f[i - 1]
  BY <1>1
<1>3. T = {}
  <2> SUFFICES ASSUME T # {} PROVE FALSE
    OBVIOUS
  <2>1. T \in SUBSET Nat
    OBVIOUS
  <2>2. PICK i \in T : \A j \in T : i <= j
    BY <2>1, LeastNumber
  <2>3. i \in 1 .. k /\ i - 1 \in 0 .. k /\ i - 1 \notin T
    BY <1>2, <2>2
  <2>4. u[i - 1] = run[i - 1]
    BY <2>3
  <2> QED
    BY <1>2, <2>2, <2>3, <2>4
<1>4. SumOf(f, k) = u[k]
  BY DEF SumOf, Running, u
<1> QED
  BY <1>3, <1>4

\* A rank that all give the same to, or only one, or all but one.
LEMMA SumOfSame ==
  ASSUME NEW k \in Nat, NEW c \in Int, NEW f, \A i \in 0 .. k - 1 : f[i] = c
  PROVE  SumOf(f, k) = k * c
<1> DEFINE run == [i \in 0 .. k |-> i * c]
<1>1. run[0] = 0
  OBVIOUS
<1>2. \A i \in 1 .. k : run[i] = run[i - 1] + f[i - 1]
  <2> SUFFICES ASSUME NEW i \in 1 .. k PROVE run[i] = run[i - 1] + f[i - 1]
    OBVIOUS
  <2>1. i - 1 \in 0 .. k /\ i - 1 \in 0 .. k - 1 /\ i * c = (i - 1) * c + c
    OBVIOUS
  <2> QED
    BY <2>1
<1> HIDE DEF run
<1>3. SumOf(f, k) = run[k]
  BY <1>1, <1>2, SumIs
<1> QED
  BY <1>3 DEF run

LEMMA SumOfOne ==
  ASSUME NEW k \in Nat, NEW a \in 0 .. k - 1, NEW c \in Int, NEW f,
         \A i \in 0 .. k - 1 : f[i] = IF i = a THEN c ELSE 0
  PROVE  SumOf(f, k) = c
<1> DEFINE run == [i \in 0 .. k |-> IF i > a THEN c ELSE 0]
<1>1. run[0] = 0
  OBVIOUS
<1>2. \A i \in 1 .. k : run[i] = run[i - 1] + f[i - 1]
  <2> SUFFICES ASSUME NEW i \in 1 .. k PROVE run[i] = run[i - 1] + f[i - 1]
    OBVIOUS
  <2>1. i - 1 \in 0 .. k /\ i - 1 \in 0 .. k - 1
    OBVIOUS
  <2> QED
    BY <2>1
<1> HIDE DEF run
<1>3. SumOf(f, k) = run[k]
  BY <1>1, <1>2, SumIs
<1> QED
  BY <1>3 DEF run

LEMMA SumOfRest ==
  ASSUME NEW k \in Nat, NEW a \in 0 .. k - 1, NEW b \in Int, NEW c \in Int, NEW f,
         \A i \in 0 .. k - 1 : f[i] = IF i = a THEN b ELSE c
  PROVE  SumOf(f, k) = b + (k - 1) * c
<1> DEFINE run == [i \in 0 .. k |-> IF i > a THEN b + (i - 1) * c ELSE i * c]
<1>1. run[0] = 0
  OBVIOUS
<1>2. \A i \in 1 .. k : run[i] = run[i - 1] + f[i - 1]
  <2> SUFFICES ASSUME NEW i \in 1 .. k PROVE run[i] = run[i - 1] + f[i - 1]
    OBVIOUS
  <2>1. i - 1 \in 0 .. k /\ i - 1 \in 0 .. k - 1 /\ i * c = (i - 1) * c + c
    OBVIOUS
  <2>2. CASE i - 1 = a
    BY <2>1, <2>2
  <2>3. CASE i - 1 < a
    BY <2>1, <2>3
  <2>4. CASE i - 1 > a
    <3>1. (i - 1) * c = (i - 2) * c + c
      OBVIOUS
    <3> QED
      BY <2>1, <2>4, <3>1
  <2> QED
    BY <2>1, <2>2, <2>3, <2>4
<1> HIDE DEF run
<1>3. SumOf(f, k) = run[k]
  BY <1>1, <1>2, SumIs
<1> QED
  BY <1>3 DEF run

\* What i has of a share c that is all at a.
At(a, c, i) == IF i = a THEN c ELSE 0

LEMMA SumOfTwo ==
  ASSUME NEW k \in Nat, NEW a \in 0 .. k - 1, NEW b \in 0 .. k - 1, NEW c \in Int, NEW f,
         \A i \in 0 .. k - 1 : f[i] = At(a, c, i) + At(b, c, i)
  PROVE  SumOf(f, k) = 2 * c
<1> DEFINE run == [i \in 0 .. k |-> (IF i > a THEN c ELSE 0) + (IF i > b THEN c ELSE 0)]
<1>1. run[0] = 0
  OBVIOUS
<1>2. \A i \in 1 .. k : run[i] = run[i - 1] + f[i - 1]
  <2> SUFFICES ASSUME NEW i \in 1 .. k PROVE run[i] = run[i - 1] + f[i - 1]
    OBVIOUS
  <2>1. i \in 0 .. k /\ i - 1 \in 0 .. k /\ i - 1 \in 0 .. k - 1
    OBVIOUS
  <2>2. /\ f[i - 1] = (IF i - 1 = a THEN c ELSE 0) + (IF i - 1 = b THEN c ELSE 0)
        /\ run[i] = (IF i > a THEN c ELSE 0) + (IF i > b THEN c ELSE 0)
        /\ run[i - 1] = (IF i - 1 > a THEN c ELSE 0) + (IF i - 1 > b THEN c ELSE 0)
    BY <2>1 DEF At
  <2> HIDE DEF run
  <2> QED
    BY <2>2
<1> HIDE DEF run
<1>3. SumOf(f, k) = run[k]
  <2>1. \A i \in 0 .. k - 1 : f[i] \in Int
    BY DEF At
  <2> QED
    BY <1>1, <1>2, <2>1, SumIs
<1> QED
  BY <1>3 DEF run
\* The shares of a vector of every second rank, from rank 0 or from rank 1.
LEMMA SumOfEven ==
  ASSUME NEW k \in Nat, NEW c \in Int, NEW f,
         \A i \in 0 .. k - 1 : f[i] = IF i % 2 = 0 THEN c ELSE 0
  PROVE  SumOf(f, k) = ((k + 1) \div 2) * c
<1> DEFINE run == [i \in 0 .. k |-> ((i + 1) \div 2) * c]
<1>1. run[0] = 0
  OBVIOUS
<1>2. \A i \in 1 .. k : run[i] = run[i - 1] + f[i - 1]
  <2> SUFFICES ASSUME NEW i \in 1 .. k PROVE run[i] = run[i - 1] + f[i - 1]
    OBVIOUS
  <2>1. i \in 0 .. k /\ i - 1 \in 0 .. k /\ i - 1 \in 0 .. k - 1
    OBVIOUS
  <2>2. /\ run[i] = ((i + 1) \div 2) * c /\ run[i - 1] = (i \div 2) * c
        /\ f[i - 1] = IF (i - 1) % 2 = 0 THEN c ELSE 0
    BY <2>1
  <2>3. (i + 1) \div 2 = (i \div 2) + (IF (i - 1) % 2 = 0 THEN 1 ELSE 0) /\ i \div 2 \in Int
    OBVIOUS
  <2>4. (i \div 2 + 1) * c = (i \div 2) * c + c
    BY <2>3
  <2> HIDE DEF run
  <2> QED
    BY <2>2, <2>3, <2>4
<1> HIDE DEF run
<1>3. SumOf(f, k) = run[k]
  BY <1>1, <1>2, SumIs
<1> QED
  BY <1>3 DEF run

LEMMA SumOfOdd ==
  ASSUME NEW k \in Nat, NEW c \in Int, NEW f,
         \A i \in 0 .. k - 1 : f[i] = IF i % 2 = 1 THEN c ELSE 0
  PROVE  SumOf(f, k) = (k \div 2) * c
<1> DEFINE run == [i \in 0 .. k |-> (i \div 2) * c]
<1>1. run[0] = 0
  OBVIOUS
<1>2. \A i \in 1 .. k : run[i] = run[i - 1] + f[i - 1]
  <2> SUFFICES ASSUME NEW i \in 1 .. k PROVE run[i] = run[i - 1] + f[i - 1]
    OBVIOUS
  <2>1. i \in 0 .. k /\ i - 1 \in 0 .. k /\ i - 1 \in 0 .. k - 1
    OBVIOUS
  <2>2. /\ run[i] = (i \div 2) * c /\ run[i - 1] = ((i - 1) \div 2) * c
        /\ f[i - 1] = IF (i - 1) % 2 = 1 THEN c ELSE 0
    BY <2>1
  <2>3. /\ i \div 2 = ((i - 1) \div 2) + (IF (i - 1) % 2 = 1 THEN 1 ELSE 0)
        /\ (i - 1) \div 2 \in Int
    OBVIOUS
  <2>4. ((i - 1) \div 2 + 1) * c = ((i - 1) \div 2) * c + c
    BY <2>3
  <2> HIDE DEF run
  <2> QED
    BY <2>2, <2>3, <2>4
<1> HIDE DEF run
<1>3. SumOf(f, k) = run[k]
  BY <1>1, <1>2, SumIs
<1> QED
  BY <1>3 DEF run

-----------------------------------------------------------------------------
(* Exact division.                                                         *)

Divides(d, s) == d \in Nat \ {0} /\ \E q \in Nat : s = d * q

LEMMA ExactDivision ==
  ASSUME NEW d, NEW s, Divides(d, s)
  PROVE  s = d * (s \div d) /\ s \div d \in Nat
<1>1. PICK q \in Nat : s = d * q
  BY DEF Divides
<1>2. (d * q) \div d = q
  BY DEF Divides
<1> QED
  BY <1>1, <1>2

LEMMA ZeroRemainder ==
  ASSUME NEW d \in Nat \ {0}, NEW s \in Nat, s % d = 0
  PROVE  Divides(d, s)
<1>1. s = d * (s \div d) /\ s \div d \in Nat
  OBVIOUS
<1> QED
  BY <1>1 DEF Divides

LEMMA DividesFactor ==
  ASSUME NEW a \in Nat \ {0}, NEW b \in Nat \ {0}, NEW s, Divides(a * b, s)
  PROVE  Divides(a, s)
<1>1. PICK q \in Nat : s = (a * b) * q
  BY DEF Divides
<1>2. (a * b) * q = a * (b * q) /\ b * q \in Nat
  OBVIOUS
<1> QED
  BY <1>1, <1>2 DEF Divides
-----------------------------------------------------------------------------
(* The inputs.                                                             *)

InRange ==
  /\ vectorPattern \in VectorPatterns /\ matrixPattern \in CpuPatterns
  /\ n \in 1 .. MaxCount /\ g \in 1 .. MaxGpus

\* Every state is a pattern with numbers of nodes and GPUs within the bounds.
LEMMA InputsInRange == Spec => []InRange
<1>1. Init => InRange
  BY PatternsBounds DEF Init, InRange
<1>2. InRange /\ [Next]_vars => InRange'
  <2> SUFFICES ASSUME InRange, [Next]_vars PROVE InRange'
    OBVIOUS
  <2>1. CASE MoreNodes
    BY <2>1, PatternsBounds DEF MoreNodes, InRange
  <2>2. CASE MoreGpus
    BY <2>2, PatternsBounds DEF MoreGpus, InRange
  <2>3. CASE UNCHANGED vars
    BY <2>3 DEF vars, InRange
  <2> QED
    BY <2>1, <2>2, <2>3 DEF Next
<1> QED
  BY <1>1, <1>2, PTL DEF Spec

\* What divides the size.
LEMMA Divisors ==
  ASSUME NEW w \in 1 .. MaxCount, NEW h \in 1 .. MaxGpus
  PROVE  /\ Size \in Nat /\ w \in Nat \ {0} /\ h \in Nat \ {0}
         /\ Divides(2 * w * h * h, Size)
         /\ w * h > 1 => Divides((w * h) * (w * h - 1), Size)
<1>1. Size \in Nat /\ w \in Nat \ {0} /\ h \in Nat \ {0}
  BY PatternsBounds
<1>2. Size % (2 * w * h * h) = 0 /\ (w * h > 1 => Size % ((w * h) * (w * h - 1)) = 0)
  BY PatternsBounds
<1>3. 2 * w * h * h \in Nat \ {0}
  BY <1>1
<1>4. w * h > 1 => (w * h) * (w * h - 1) \in Nat \ {0}
  <2> DEFINE m == w * h
  <2>1. m \in Nat
    BY <1>1
  <2> HIDE DEF m
  <2>2. m > 1 => m * (m - 1) \in Nat \ {0}
    BY <2>1
  <2> QED
    BY <2>2 DEF m
<1> QED
  BY <1>1, <1>2, <1>3, <1>4, ZeroRemainder

LEMMA NodesDivide ==
  ASSUME NEW w \in 1 .. MaxCount
  PROVE  /\ Size \in Nat /\ w \in Nat \ {0} /\ Divides(w, Size) /\ Divides(2 * w, Size)
         /\ w > 1 => Divides(w - 1, Size) /\ Divides(w * (w - 1), Size)
<1>1. 1 \in 1 .. MaxGpus
  BY PatternsBounds
<1>2. /\ Size \in Nat /\ w \in Nat \ {0} /\ Divides(2 * w * 1 * 1, Size)
      /\ w * 1 > 1 => Divides((w * 1) * (w * 1 - 1), Size)
  BY <1>1, Divisors
<1>3. 2 * w * 1 * 1 = 2 * w /\ w * 1 = w /\ 2 * w = w * 2
  BY <1>2
<1>4. Divides(w * 2, Size) /\ (w > 1 => Divides(w * (w - 1), Size))
  BY <1>2, <1>3
<1>5. Divides(w, Size)
  BY <1>2, <1>4, DividesFactor
<1>6. ASSUME w > 1 PROVE Divides(w - 1, Size)
  <2>1. w - 1 \in Nat \ {0} /\ w * (w - 1) = (w - 1) * w
    BY <1>2, <1>6
  <2> QED
    BY <1>2, <1>4, <1>6, <2>1, DividesFactor
<1> QED
  BY <1>2, <1>3, <1>4, <1>5, <1>6

-----------------------------------------------------------------------------
(* Vectors.                                                                *)

\* Of any size that the number of members divides, a pattern gives every member the same
\* share and the others nothing; the shares add up.
LEMMA VectorIsSpread ==
  ASSUME InRange
  PROVE  VectorsSpread
<1> DEFINE v == CreateVector(Size, vectorPattern, n)
<1>0. n \in Nat \ {0} /\ Indices(n) = 0 .. n - 1 /\ Size \in Nat
  BY NodesDivide DEF InRange, Indices
<1>1. CASE vectorPattern = "UNIFORM"
  <2>1. Members = 0 .. n - 1 /\ \A i \in 0 .. n - 1 : v[i] = Size
    BY <1>0, <1>1 DEF Members, CreateVector
  <2>2. SumOf(v, n) = n * Size
    BY <1>0, <2>1, SumOfSame
  <2> QED
    BY <1>0, <1>1, <2>1, <2>2 DEF VectorsSpread
<1>2. CASE vectorPattern = "ALL_RANKS"
  <2> DEFINE share == Size \div n
  <2>1. Members = 0 .. n - 1 /\ \A i \in 0 .. n - 1 : v[i] = share
    BY <1>0, <1>2 DEF Members, CreateVector
  <2>2. Size = n * share /\ share \in Nat
    BY NodesDivide, ExactDivision DEF InRange
  <2> HIDE DEF share, v
  <2>3. SumOf(v, n) = n * share
    BY <1>0, <2>1, <2>2, SumOfSame
  <2> QED
    BY <1>0, <1>2, <2>1, <2>2, <2>3 DEF VectorsSpread, v
<1>3. CASE vectorPattern = "ROOT_ONLY"
  <2>1. Members = {0} /\ 0 \in 0 .. n - 1 /\ \A i \in 0 .. n - 1 : v[i] = IF i = 0 THEN Size ELSE 0
    BY <1>0, <1>3 DEF Members, CreateVector
  <2>2. SumOf(v, n) = Size
    BY <1>0, <2>1, SumOfOne
  <2> QED
    BY <1>0, <1>3, <2>1, <2>2 DEF VectorsSpread
<1>4. CASE vectorPattern = "EVEN_RANKS"
  <2> DEFINE half == IF n % 2 = 0 THEN n \div 2 ELSE n \div 2 + 1
             share == Size \div half
  <2>1. half \in 1 .. MaxCount /\ half = (n + 1) \div 2
    BY <1>0, PatternsBounds DEF InRange
  <2>2. Size = half * share /\ share \in Nat
    <3> HIDE DEF half
    <3> QED
      BY <2>1, NodesDivide, ExactDivision
  <2>3. /\ Members = {i \in 0 .. n - 1 : i % 2 = 0}
        /\ \A i \in 0 .. n - 1 : v[i] = IF i % 2 = 0 THEN share ELSE 0
    BY <1>0, <1>4 DEF Members, CreateVector
  <2> HIDE DEF half, share, v
  <2>4. SumOf(v, n) = ((n + 1) \div 2) * share
    <3>1. n \in Nat /\ share \in Int /\ \A i \in 0 .. n - 1 : v[i] = IF i % 2 = 0 THEN share ELSE 0
      BY <1>0, <2>2, <2>3
    <3> QED
      BY ONLY <3>1, SumOfEven
  <2>5. SumOf(v, n) = Size
    BY <2>1, <2>2, <2>4
  <2> QED
    BY <1>0, <1>4, <2>3, <2>5 DEF VectorsSpread, v
<1>5. CASE vectorPattern = "ODD_RANKS"
  <2> DEFINE share == Size \div (n \div 2)
  <2>1. /\ Members = {i \in 0 .. n - 1 : i % 2 = 1}
        /\ \A i \in 0 .. n - 1 : v[i] = IF i % 2 = 1 THEN share ELSE 0
    BY <1>0, <1>5 DEF Members, CreateVector
  <2> HIDE DEF v
  <2>2. ASSUME Members # {} PROVE SumOf(v, n) = Size
    <3>1. n \div 2 \in 1 .. MaxCount
      <4>1. PICK i \in 0 .. n - 1 : i % 2 = 1
        BY <2>1, <2>2
      <4>2. n >= 2
        BY <1>0, <4>1
      <4> QED
        BY <1>0, <4>2, PatternsBounds DEF InRange
    <3>2. Size = (n \div 2) * share /\ share \in Nat
      BY <3>1, NodesDivide, ExactDivision
    <3> HIDE DEF share
    <3>3. /\ n \in Nat /\ share \in Int
          /\ \A i \in 0 .. n - 1 : v[i] = IF i % 2 = 1 THEN share ELSE 0
      BY <1>0, <2>1, <3>2
    <3>4. SumOf(v, n) = (n \div 2) * share
      BY ONLY <3>3, SumOfOdd
    <3> QED
      BY <3>2, <3>4
  <2> HIDE DEF share
  <2> QED
    BY <1>0, <1>5, <2>1, <2>2 DEF VectorsSpread, v
<1> QED
  BY <1>1, <1>2, <1>3, <1>4, <1>5 DEF InRange, VectorPatterns

\* Every vector of work gives each rank of its pattern the same share and the others nothing,
\* and the shares add up to the size of the task, for any number of nodes.
THEOREM VectorsAreSpread == Spec => []VectorsSpread
  BY InputsInRange, VectorIsSpread, PTL
-----------------------------------------------------------------------------
(* Matrices.                                                               *)

LEMMA InMatrix ==
  ASSUME NEW w \in Nat \ {0}, NEW i \in 0 .. w - 1, NEW j \in 0 .. w - 1
  PROVE  /\ i * w + j \in 0 .. w * w - 1
         /\ (i * w + j) \div w = i /\ (i * w + j) % w = j
<1>1. i * w + j \in 0 .. w * w - 1
  OBVIOUS
<1>2. (i * w + j) \div w = i /\ (i * w + j) % w = j
  OBVIOUS
<1> QED
  BY <1>1, <1>2

\* An index of a matrix is a row and a column.
LEMMA RowAndColumn ==
  ASSUME NEW w \in Nat \ {0}, NEW k \in 0 .. w * w - 1
  PROVE  k \div w \in 0 .. w - 1 /\ k % w \in 0 .. w - 1 /\ k = (k \div w) * w + (k % w)
<1>1. k \div w \in 0 .. w - 1
  OBVIOUS
<1>2. k % w \in 0 .. w - 1
  OBVIOUS
<1>3. k = w * (k \div w) + (k % w)
  OBVIOUS
<1>4. w * (k \div w) = (k \div w) * w
  BY <1>1
<1> QED
  BY <1>1, <1>2, <1>3, <1>4

LEMMA Neighbours ==
  ASSUME NEW w \in Nat, w > 1, NEW i \in 0 .. w - 1
  PROVE  /\ (i + 1) % w = (IF i = w - 1 THEN 0 ELSE i + 1)
         /\ (i - 1) % w = (IF i = 0 THEN w - 1 ELSE i - 1)
OBVIOUS

\* The sums of a row, of a column and of all rows, from what is known of each.
LEMMA RowLine ==
  ASSUME NEW w \in Nat \ {0}, NEW f, NEW i \in 0 .. w - 1
  PROVE  \E row : /\ RowTotal(f, w, i) = SumOf(row, w)
                  /\ \A j \in 0 .. w - 1 : row[j] = f[i * w + j]
<1> DEFINE row == [j \in Indices(w) |-> f[i * w + j]]
<1>1. RowTotal(f, w, i) = SumOf(row, w)
  BY DEF RowTotal
<1>2. \A j \in 0 .. w - 1 : row[j] = f[i * w + j]
  BY DEF Indices
<1> HIDE DEF row
<1> QED
  BY <1>1, <1>2

LEMMA ColumnLine ==
  ASSUME NEW w \in Nat \ {0}, NEW f, NEW i \in 0 .. w - 1
  PROVE  \E column : /\ ColumnTotal(f, w, i) = SumOf(column, w)
                     /\ \A j \in 0 .. w - 1 : column[j] = f[j * w + i]
<1> DEFINE column == [j \in Indices(w) |-> f[j * w + i]]
<1>1. ColumnTotal(f, w, i) = SumOf(column, w)
  BY DEF ColumnTotal
<1>2. \A j \in 0 .. w - 1 : column[j] = f[j * w + i]
  BY DEF Indices
<1> HIDE DEF column
<1> QED
  BY <1>1, <1>2

LEMMA AllLines ==
  ASSUME NEW w \in Nat \ {0}, NEW f
  PROVE  \E rows : /\ TotalOf(f, w) = SumOf(rows, w)
                   /\ \A j \in 0 .. w - 1 : rows[j] = RowTotal(f, w, j)
<1> DEFINE rows == [j \in Indices(w) |-> RowTotal(f, w, j)]
<1>1. TotalOf(f, w) = SumOf(rows, w)
  BY DEF TotalOf
<1>2. \A j \in 0 .. w - 1 : rows[j] = RowTotal(f, w, j)
  BY DEF Indices
<1> HIDE DEF rows
<1> QED
  BY <1>1, <1>2

\* A matrix of messages of p bytes each.
Sends(f, pattern, w, p) ==
  \A i, j \in 0 .. w - 1 : f[i * w + j] = p * Messages(pattern, w, i, j)

LEMMA MatrixSends ==
  ASSUME NEW w \in Nat, w > 1, NEW s, NEW pattern
  PROVE  Sends(CreateMatrix(s, pattern, w), pattern, w, Payload(s, pattern, w))
<1> DEFINE p == Payload(s, pattern, w)
           m == CreateMatrix(s, pattern, w)
<1>1. m = [k \in 0 .. w * w - 1 |-> p * Messages(pattern, w, k \div w, k % w)]
  BY DEF CreateMatrix, Indices
<1> HIDE DEF p, m
<1>2. SUFFICES ASSUME NEW i \in 0 .. w - 1, NEW j \in 0 .. w - 1
               PROVE  m[i * w + j] = p * Messages(pattern, w, i, j)
  BY DEF Sends, p, m
<1>3. /\ i * w + j \in 0 .. w * w - 1
      /\ (i * w + j) \div w = i /\ (i * w + j) % w = j
  BY InMatrix
<1>4. m[i * w + j] = p * Messages(pattern, w, (i * w + j) \div w, (i * w + j) % w)
  BY <1>1, <1>3
<1> QED
  BY <1>3, <1>4

\* How many messages each rank of a symmetric pattern sends, and receives.
Degree(pattern, w) ==
  CASE pattern = "ALL_TO_ALL" -> w - 1
    [] pattern = "RING" -> 2
    [] OTHER -> 1

LEMMA SymmetricLines ==
  ASSUME NEW w \in Nat, w > 1, NEW p \in Nat, NEW f, NEW pattern \in GpuPatterns,
         Sends(f, pattern, w, p), NEW i \in 0 .. w - 1
  PROVE  /\ RowTotal(f, w, i) = Degree(pattern, w) * p
         /\ ColumnTotal(f, w, i) = Degree(pattern, w) * p
<1> DEFINE before == (i - 1) % w
           after == (i + 1) % w
<1>0. /\ before \in 0 .. w - 1 /\ after \in 0 .. w - 1
      /\ \A j \in 0 .. w - 1 : /\ (i = (j - 1) % w) <=> (j = after)
                               /\ (i = (j + 1) % w) <=> (j = before)
  <2>1. before \in 0 .. w - 1 /\ after \in 0 .. w - 1
    BY Neighbours
  <2>2. SUFFICES ASSUME NEW j \in 0 .. w - 1
                 PROVE  /\ (i = (j - 1) % w) <=> (j = after)
                        /\ (i = (j + 1) % w) <=> (j = before)
    BY <2>1
  <2>3. /\ (j + 1) % w = (IF j = w - 1 THEN 0 ELSE j + 1)
        /\ (j - 1) % w = (IF j = 0 THEN w - 1 ELSE j - 1)
    BY Neighbours
  <2>4. /\ after = (IF i = w - 1 THEN 0 ELSE i + 1)
        /\ before = (IF i = 0 THEN w - 1 ELSE i - 1)
    BY Neighbours
  <2> HIDE DEF before, after
  <2> QED
    BY <2>3, <2>4
<1>a. before \in 0 .. w - 1 /\ after \in 0 .. w - 1
  BY <1>0
<1>b. w \in Nat /\ p \in Int /\ 0 \in Int
  OBVIOUS
<1>1. PICK row : /\ RowTotal(f, w, i) = SumOf(row, w)
                 /\ \A j \in 0 .. w - 1 : row[j] = p * Messages(pattern, w, i, j)
  BY RowLine DEF Sends
<1>2. PICK column : /\ ColumnTotal(f, w, i) = SumOf(column, w)
                    /\ \A j \in 0 .. w - 1 : column[j] = p * Messages(pattern, w, j, i)
  BY ColumnLine DEF Sends
<1>3. CASE pattern = "ALL_TO_ALL"
  <2>1. \A j \in 0 .. w - 1 : row[j] = IF j = i THEN 0 ELSE p
    BY <1>1, <1>3 DEF Messages
  <2>2. \A j \in 0 .. w - 1 : column[j] = IF j = i THEN 0 ELSE p
    BY <1>2, <1>3 DEF Messages
  <2>3. SumOf(row, w) = 0 + (w - 1) * p
    BY ONLY <1>b, <2>1, SumOfRest, i \in 0 .. w - 1
  <2>4. SumOf(column, w) = 0 + (w - 1) * p
    BY ONLY <1>b, <2>2, SumOfRest, i \in 0 .. w - 1
  <2> QED
    BY <1>1, <1>2, <1>3, <2>3, <2>4 DEF Degree
<1>4. CASE pattern = "RING"
  <2> HIDE DEF before, after
  <2>1. \A j \in 0 .. w - 1 : row[j] = At(before, p, j) + At(after, p, j)
    BY <1>0, <1>1, <1>4 DEF Messages, At, before, after
  <2>2. \A j \in 0 .. w - 1 : column[j] = At(after, p, j) + At(before, p, j)
    BY <1>0, <1>2, <1>4 DEF Messages, At, before, after
  <2>3. SumOf(row, w) = 2 * p
    BY ONLY <1>b, <1>a, <2>1, SumOfTwo
  <2>4. SumOf(column, w) = 2 * p
    BY ONLY <1>b, <1>a, <2>2, SumOfTwo
  <2> QED
    BY <1>1, <1>2, <1>4, <2>3, <2>4 DEF Degree
<1>5. CASE pattern = "RING_CLOCKWISE"
  <2> HIDE DEF before, after
  <2>1. \A j \in 0 .. w - 1 : row[j] = IF j = after THEN p ELSE 0
    BY <1>0, <1>1, <1>5 DEF Messages, before, after
  <2>2. \A j \in 0 .. w - 1 : column[j] = IF j = before THEN p ELSE 0
    BY <1>0, <1>2, <1>5 DEF Messages, before, after
  <2>3. SumOf(row, w) = p
    BY ONLY <1>b, <1>a, <2>1, SumOfOne
  <2>4. SumOf(column, w) = p
    BY ONLY <1>b, <1>a, <2>2, SumOfOne
  <2> QED
    BY <1>1, <1>2, <1>5, <2>3, <2>4 DEF Degree
<1>6. CASE pattern = "RING_COUNTER_CLOCKWISE"
  <2> HIDE DEF before, after
  <2>1. \A j \in 0 .. w - 1 : row[j] = IF j = before THEN p ELSE 0
    BY <1>0, <1>1, <1>6 DEF Messages, before, after
  <2>2. \A j \in 0 .. w - 1 : column[j] = IF j = after THEN p ELSE 0
    BY <1>0, <1>2, <1>6 DEF Messages, before, after
  <2>3. SumOf(row, w) = p
    BY ONLY <1>b, <1>a, <2>1, SumOfOne
  <2>4. SumOf(column, w) = p
    BY ONLY <1>b, <1>a, <2>2, SumOfOne
  <2> QED
    BY <1>1, <1>2, <1>6, <2>3, <2>4 DEF Degree
<1> QED
  BY <1>3, <1>4, <1>5, <1>6 DEF GpuPatterns
\* A symmetric pattern spreads the size s over all ranks, whatever number of them: no rank
\* sends to itself, all send and receive as much, and the link of a node, which is charged
\* with what two GPUs exchange, is charged with no more than there is.
LEMMA SymmetricMatrix ==
  ASSUME NEW w \in Nat, w > 1, NEW s \in Nat, NEW pattern \in GpuPatterns,
         Divides(w * Degree(pattern, w), s)
  PROVE  LET m == CreateMatrix(s, pattern, w) IN
         /\ Silent(m, w)
         /\ TotalOf(m, w) = s
         /\ \A i \in 0 .. w - 1 : RowTotal(m, w, i) = s \div w /\ ColumnTotal(m, w, i) = s \div w
         /\ DominantTransfer(m, w) <= s
<1> DEFINE m == CreateMatrix(s, pattern, w)
           p == Payload(s, pattern, w)
           d == Degree(pattern, w)
<1>1. /\ d \in Nat \ {0}
      /\ \A i, j \in 0 .. w - 1 : Messages(pattern, w, i, j) \in 0 .. d
      /\ \A i \in 0 .. w - 1 : Messages(pattern, w, i, i) = 0
  <2>1. d \in Nat \ {0}
    BY DEF Degree
  <2> SUFFICES ASSUME NEW i \in 0 .. w - 1, NEW j \in 0 .. w - 1
               PROVE  Messages(pattern, w, i, j) \in 0 .. d /\ Messages(pattern, w, i, i) = 0
    BY <2>1
  <2>2. (i + 1) % w # i /\ (i - 1) % w # i
    BY Neighbours
  <2>3. CASE pattern = "ALL_TO_ALL"
    BY <2>3 DEF Messages, Degree
  <2>4. CASE pattern = "RING"
    BY <2>2, <2>4 DEF Messages, Degree
  <2>5. CASE pattern = "RING_CLOCKWISE"
    BY <2>2, <2>5 DEF Messages, Degree
  <2>6. CASE pattern = "RING_COUNTER_CLOCKWISE"
    BY <2>2, <2>6 DEF Messages, Degree
  <2> QED
    BY <2>3, <2>4, <2>5, <2>6 DEF GpuPatterns
<1>2. p = s \div (w * d)
  <2>1. w * w - w = w * (w - 1) /\ w * 1 = w
    OBVIOUS
  <2> QED
    BY <2>1 DEF Payload, Degree, GpuPatterns
<1>3. Sends(m, pattern, w, p)
  BY MatrixSends
<1> HIDE DEF m, p, d
<1>4. s = w * (d * p) /\ p \in Nat /\ d * p \in Nat
  <2>1. s = (w * d) * p /\ p \in Nat
    BY <1>2, ExactDivision DEF d
  <2> QED
    BY <1>1, <2>1
<1>5. d * p = s \div w
  <2> DEFINE q == d * p
  <2>1. q \in Nat /\ s = w * q
    BY <1>4
  <2> HIDE DEF q
  <2>2. (w * q) \div w = q
    BY <2>1
  <2> QED
    BY <2>1, <2>2 DEF q
<1>6. \A i \in 0 .. w - 1 : RowTotal(m, w, i) = d * p /\ ColumnTotal(m, w, i) = d * p
  BY <1>3, <1>4, SymmetricLines DEF d
<1>7. TotalOf(m, w) = s
  <2>1. PICK rows : TotalOf(m, w) = SumOf(rows, w) /\ \A j \in 0 .. w - 1 : rows[j] = RowTotal(m, w, j)
    <3>1. w \in Nat \ {0} /\ 0 \in 0 .. w - 1
      OBVIOUS
    <3> QED
      BY <3>1, AllLines
  <2> DEFINE q == d * p
  <2>2. \A j \in 0 .. w - 1 : rows[j] = q
    BY <1>6, <2>1
  <2>3. q \in Int
    BY <1>4
  <2> HIDE DEF q
  <2>4. SumOf(rows, w) = w * q
    BY <2>2, <2>3, SumOfSame
  <2> QED
    BY <1>4, <2>1, <2>4 DEF q
<1>8. Silent(m, w)
  <2> SUFFICES ASSUME NEW i \in 0 .. w - 1 PROVE m[i * w + i] = 0
    BY DEF Silent, Indices
  <2>1. m[i * w + i] = p * Messages(pattern, w, i, i)
    BY <1>3 DEF Sends
  <2> QED
    BY <1>1, <1>4, <2>1
<1>9. DominantTransfer(m, w) <= s
  <2> DEFINE pairs == {a \in Indices(w) \X Indices(w) : a[1] < a[2]}
             sums == {0} \cup {m[a[1] * w + a[2]] + m[a[2] * w + a[1]] : a \in pairs}
  <2>1. sums \subseteq 0 .. s
    <3>1. SUFFICES ASSUME NEW i \in 0 .. w - 1, NEW j \in 0 .. w - 1
                   PROVE  m[i * w + j] + m[j * w + i] \in 0 .. s
      BY <1>4 DEF Indices
    <3>2. /\ m[i * w + j] = p * Messages(pattern, w, i, j)
          /\ m[j * w + i] = p * Messages(pattern, w, j, i)
      BY <1>3 DEF Sends
    <3>3. \A k \in 0 .. d : p * k \in 0 .. d * p
      <4> SUFFICES ASSUME NEW k \in 0 .. d PROVE p * k \in 0 .. d * p
        OBVIOUS
      <4>1. k \in Nat /\ d - k \in Nat /\ p * k \in Nat /\ p * (d - k) \in Nat
        BY <1>1, <1>4
      <4>2. d * p = p * k + p * (d - k)
        BY <1>1, <1>4
      <4> QED
        BY <4>1, <4>2
    <3>4. m[i * w + j] \in 0 .. d * p /\ m[j * w + i] \in 0 .. d * p
      BY <1>1, <3>2, <3>3
    <3>5. 2 * (d * p) <= s
      <4> DEFINE q == d * p
      <4>1. q \in Nat /\ s = w * q
        BY <1>4
      <4> HIDE DEF q
      <4>2. w * q = 2 * q + (w - 2) * q /\ (w - 2) * q \in Nat
        BY <4>1
      <4> QED
        BY <4>1, <4>2 DEF q
    <3> QED
      BY <1>4, <3>4, <3>5
  <2>2. DominantTransfer(m, w) = Max(sums)
    BY DEF DominantTransfer
  <2>3. 0 \in sums
    OBVIOUS
  <2> HIDE DEF sums
  <2> QED
    BY <2>1, <2>2, <2>3, MaxOfBounded
<1> QED
  BY <1>5, <1>6, <1>7, <1>8, <1>9 DEF m
\* In a rooted pattern rank 0 is an end of every message.
LEMMA RootedMatrix ==
  ASSUME NEW w \in Nat, w > 1, NEW s \in Nat,
         NEW pattern \in {"GATHER", "SCATTER", "MASTER_WORKER"}
  PROVE  LET m == CreateMatrix(s, pattern, w)
             p == Payload(s, pattern, w)
             all == (IF pattern = "MASTER_WORKER" THEN 2 ELSE 1) * ((w - 1) * p)
         IN p \in Int =>
            /\ Silent(m, w)
            /\ TotalOf(m, w) = all
            /\ RowTotal(m, w, 0) + ColumnTotal(m, w, 0) = all
<1> DEFINE m == CreateMatrix(s, pattern, w)
           p == Payload(s, pattern, w)
<1> SUFFICES ASSUME p \in Int
             PROVE  LET all == (IF pattern = "MASTER_WORKER" THEN 2 ELSE 1) * ((w - 1) * p)
                    IN /\ Silent(m, w) /\ TotalOf(m, w) = all
                       /\ RowTotal(m, w, 0) + ColumnTotal(m, w, 0) = all
  OBVIOUS
<1>0. w \in Nat \ {0} /\ w \in Nat /\ 0 \in 0 .. w - 1 /\ 0 \in Int
  OBVIOUS
<1>1. Sends(m, pattern, w, p)
  BY MatrixSends
<1> HIDE DEF m, p
<1>2. Silent(m, w)
  <2> SUFFICES ASSUME NEW i \in 0 .. w - 1 PROVE m[i * w + i] = 0
    BY DEF Silent, Indices
  <2>1. m[i * w + i] = p * Messages(pattern, w, i, i)
    BY <1>1 DEF Sends
  <2>2. Messages(pattern, w, i, i) = 0
    BY DEF Messages
  <2> QED
    BY <2>1, <2>2
<1>3. PICK column : /\ ColumnTotal(m, w, 0) = SumOf(column, w)
                    /\ \A j \in 0 .. w - 1 : column[j] = p * Messages(pattern, w, j, 0)
  <2>1. ASSUME NEW i \in 0 .. w - 1
        PROVE  \E column : /\ ColumnTotal(m, w, i) = SumOf(column, w)
                           /\ \A j \in 0 .. w - 1 : column[j] = p * Messages(pattern, w, j, i)
    BY <1>0, <1>1, ColumnLine DEF Sends
  <2> QED
    BY <1>0, <2>1
<1>4. PICK rows : /\ TotalOf(m, w) = SumOf(rows, w)
                  /\ \A j \in 0 .. w - 1 : rows[j] = RowTotal(m, w, j)
  BY <1>0, AllLines
<1>6. ASSUME NEW i \in 0 .. w - 1
      PROVE  \E row : /\ RowTotal(m, w, i) = SumOf(row, w)
                      /\ \A j \in 0 .. w - 1 : row[j] = p * Messages(pattern, w, i, j)
  BY <1>0, <1>1, RowLine DEF Sends
<1>7. CASE pattern = "GATHER"
  <2>1. \A j \in 0 .. w - 1 : column[j] = IF j = 0 THEN 0 ELSE p
    BY <1>3, <1>7 DEF Messages
  <2>2. SumOf(column, w) = 0 + (w - 1) * p
    BY ONLY <1>0, <2>1, p \in Int, SumOfRest
  <2>3. ASSUME NEW i \in 0 .. w - 1 PROVE RowTotal(m, w, i) = IF i = 0 THEN 0 ELSE p
    <3>1. PICK row : /\ RowTotal(m, w, i) = SumOf(row, w)
                     /\ \A j \in 0 .. w - 1 : row[j] = p * Messages(pattern, w, i, j)
      BY <1>6
    <3> DEFINE q == IF i = 0 THEN 0 ELSE p
    <3>2. \A j \in 0 .. w - 1 : row[j] = IF j = 0 THEN q ELSE 0
      BY <1>7, <3>1 DEF Messages
    <3>3. q \in Int
      OBVIOUS
    <3> HIDE DEF q
    <3>4. SumOf(row, w) = q
      BY ONLY <1>0, <3>2, <3>3, SumOfOne
    <3> QED
      BY <3>1, <3>4 DEF q
  <2>4. SumOf(rows, w) = 0 + (w - 1) * p
    <3>1. \A j \in 0 .. w - 1 : rows[j] = IF j = 0 THEN 0 ELSE p
      BY <1>4, <2>3
    <3> QED
      BY ONLY <1>0, <3>1, p \in Int, SumOfRest
  <2>5. RowTotal(m, w, 0) = 0
    BY <1>0, <2>3
  <2> QED
    BY <1>2, <1>3, <1>4, <1>7, <2>2, <2>4, <2>5
<1>8. CASE pattern = "SCATTER"
  <2>1. \A j \in 0 .. w - 1 : column[j] = 0
    BY <1>3, <1>8 DEF Messages
  <2>2. SumOf(column, w) = w * 0
    BY ONLY <1>0, <2>1, SumOfSame
  <2>3. ASSUME NEW i \in 0 .. w - 1 PROVE RowTotal(m, w, i) = IF i = 0 THEN (w - 1) * p ELSE 0
    <3>1. PICK row : /\ RowTotal(m, w, i) = SumOf(row, w)
                     /\ \A j \in 0 .. w - 1 : row[j] = p * Messages(pattern, w, i, j)
      BY <1>6
    <3> DEFINE q == IF i = 0 THEN p ELSE 0
    <3>2. \A j \in 0 .. w - 1 : row[j] = IF j = 0 THEN 0 ELSE q
      BY <1>8, <3>1 DEF Messages
    <3>3. q \in Int
      OBVIOUS
    <3> HIDE DEF q
    <3>4. SumOf(row, w) = 0 + (w - 1) * q
      BY ONLY <1>0, <3>2, <3>3, SumOfRest
    <3> QED
      BY <3>1, <3>4 DEF q
  <2>4. SumOf(rows, w) = (w - 1) * p
    <3> DEFINE q == (w - 1) * p
    <3>1. \A j \in 0 .. w - 1 : rows[j] = IF j = 0 THEN q ELSE 0
      BY <1>4, <2>3
    <3>2. q \in Int
      OBVIOUS
    <3> HIDE DEF q
    <3> QED
      BY <1>0, <3>1, <3>2, SumOfOne DEF q
  <2>5. RowTotal(m, w, 0) = (w - 1) * p
    BY <1>0, <2>3
  <2> QED
    BY <1>2, <1>3, <1>4, <1>8, <2>2, <2>4, <2>5
<1>9. CASE pattern = "MASTER_WORKER"
  <2>1. \A j \in 0 .. w - 1 : column[j] = IF j = 0 THEN 0 ELSE p
    BY <1>3, <1>9 DEF Messages
  <2>2. SumOf(column, w) = 0 + (w - 1) * p
    BY ONLY <1>0, <2>1, p \in Int, SumOfRest
  <2>3. ASSUME NEW i \in 0 .. w - 1 PROVE RowTotal(m, w, i) = IF i = 0 THEN (w - 1) * p ELSE p
    <3>1. PICK row : /\ RowTotal(m, w, i) = SumOf(row, w)
                     /\ \A j \in 0 .. w - 1 : row[j] = p * Messages(pattern, w, i, j)
      BY <1>6
    <3>2. CASE i = 0
      <4>1. \A j \in 0 .. w - 1 : row[j] = IF j = 0 THEN 0 ELSE p
        BY <1>9, <3>1, <3>2 DEF Messages
      <4>2. SumOf(row, w) = 0 + (w - 1) * p
        BY ONLY <1>0, <4>1, p \in Int, SumOfRest
      <4> QED
        BY <3>1, <3>2, <4>2
    <3>3. CASE i # 0
      <4>1. \A j \in 0 .. w - 1 : row[j] = IF j = 0 THEN p ELSE 0
        BY <1>9, <3>1, <3>3 DEF Messages
      <4>2. SumOf(row, w) = p
        BY ONLY <1>0, <4>1, p \in Int, SumOfOne
      <4> QED
        BY <3>1, <3>3, <4>2
    <3> QED
      BY <3>2, <3>3
  <2>4. SumOf(rows, w) = (w - 1) * p + (w - 1) * p
    <3> DEFINE q == (w - 1) * p
    <3>1. \A j \in 0 .. w - 1 : rows[j] = IF j = 0 THEN q ELSE p
      BY <1>4, <2>3
    <3>2. q \in Int
      OBVIOUS
    <3> HIDE DEF q
    <3>3. SumOf(rows, w) = q + (w - 1) * p
      BY ONLY <1>0, <3>1, <3>2, p \in Int, SumOfRest
    <3> QED
      BY <3>3 DEF q
  <2>5. RowTotal(m, w, 0) = (w - 1) * p
    BY <1>0, <2>3
  <2> QED
    BY <1>2, <1>3, <1>4, <1>9, <2>2, <2>4, <2>5
<1> QED
  BY <1>7, <1>8, <1>9 DEF m, p
\* One node has nobody to send to.
LEMMA LonelyMatrix ==
  ASSUME NEW s, NEW pattern
  PROVE  LET m == CreateMatrix(s, pattern, 1) IN
         /\ Silent(m, 1) /\ TotalOf(m, 1) = 0
         /\ RowTotal(m, 1, 0) = 0 /\ ColumnTotal(m, 1, 0) = 0
         /\ DominantTransfer(m, 1) = 0
<1> DEFINE m == CreateMatrix(s, pattern, 1)
<1>0. 1 \in Nat \ {0} /\ 0 .. 1 - 1 = {0} /\ 0 \in 0 .. 1 - 1 /\ 0 \in Int /\ 1 \in Nat
  OBVIOUS
<1>1. m = [k \in {0} |-> 0] /\ m[0] = 0
  BY DEF CreateMatrix
<1> HIDE DEF m
<1>2. Silent(m, 1)
  BY <1>0, <1>1 DEF Silent, Indices
<1>3. \A i, j \in 0 .. 1 - 1 : m[i * 1 + j] = 0
  BY <1>0, <1>1
<1>4. RowTotal(m, 1, 0) = 0
  <2>1. PICK row : RowTotal(m, 1, 0) = SumOf(row, 1) /\ \A j \in 0 .. 1 - 1 : row[j] = m[0 * 1 + j]
    BY <1>0, RowLine
  <2>2. SumOf(row, 1) = 1 * 0
    BY <1>0, <1>3, <2>1, SumOfSame
  <2> QED
    BY <2>1, <2>2
<1>5. ColumnTotal(m, 1, 0) = 0
  <2>1. PICK row : ColumnTotal(m, 1, 0) = SumOf(row, 1) /\ \A j \in 0 .. 1 - 1 : row[j] = m[j * 1 + 0]
    BY <1>0, ColumnLine
  <2>2. SumOf(row, 1) = 1 * 0
    BY <1>0, <1>3, <2>1, SumOfSame
  <2> QED
    BY <2>1, <2>2
<1>6. TotalOf(m, 1) = 0
  <2>1. PICK row : TotalOf(m, 1) = SumOf(row, 1) /\ \A j \in 0 .. 1 - 1 : row[j] = RowTotal(m, 1, j)
    BY <1>0, AllLines
  <2>2. SumOf(row, 1) = 1 * 0
    BY <1>0, <1>4, <2>1, SumOfSame
  <2> QED
    BY <2>1, <2>2
<1>7. DominantTransfer(m, 1) = 0
  <2> DEFINE pairs == {p \in Indices(1) \X Indices(1) : p[1] < p[2]}
  <2>1. pairs = {}
    BY <1>0 DEF Indices
  <2>2. DominantTransfer(m, 1) = Max({0})
    BY <2>1 DEF DominantTransfer
  <2>3. Max({0}) \in {0}
    BY MaxOfBounded, {0} \in SUBSET (0 .. 0), {0} # {}, 0 \in Nat
  <2> QED
    BY <2>2, <2>3
<1> QED
  BY <1>2, <1>4, <1>5, <1>6, <1>7 DEF m

LEMMA MatrixIsSpread ==
  ASSUME InRange
  PROVE  MatricesSpread
<1> DEFINE m == CreateMatrix(Size, matrixPattern, n)
<1>0. n \in Nat \ {0} /\ n \in Nat /\ n \in 1 .. MaxCount /\ Size \in Nat /\ Indices(n) = 0 .. n - 1
  BY NodesDivide DEF InRange, Indices
<1>1. CASE n = 1
  <2>1. /\ Silent(m, n) /\ TotalOf(m, n) = 0
        /\ RowTotal(m, n, 0) = 0 /\ ColumnTotal(m, n, 0) = 0
    BY <1>1, LonelyMatrix
  <2>2. Traffic = 0 /\ Indices(n) = {0} /\ Traffic \div n = 0
    BY <1>1 DEF Traffic, Indices
  <2> QED
    BY <2>1, <2>2 DEF MatricesSpread
<1>2. CASE n > 1 /\ matrixPattern \in GpuPatterns
  <2>1. Divides(n * Degree(matrixPattern, n), Size)
    <3>1. Divides(n, Size) /\ Divides(2 * n, Size) /\ Divides(n * (n - 1), Size)
      BY <1>0, <1>2, NodesDivide
    <3>2. 2 * n = n * 2 /\ n * 1 = n
      BY <1>0
    <3> QED
      BY <3>1, <3>2 DEF Degree
  <2>2. /\ Silent(m, n) /\ TotalOf(m, n) = Size
        /\ \A i \in 0 .. n - 1 : /\ RowTotal(m, n, i) = Size \div n
                                 /\ ColumnTotal(m, n, i) = Size \div n
    BY <1>0, <1>2, <2>1, SymmetricMatrix
  <2>3. Traffic = Size
    BY <1>0, <1>2 DEF Traffic, GpuPatterns
  <2> HIDE DEF m
  <2> QED
    BY <1>0, <1>2, <2>2, <2>3 DEF MatricesSpread, m
<1>3. CASE n > 1 /\ matrixPattern \notin GpuPatterns
  <2> DEFINE p == Payload(Size, matrixPattern, n)
             all == (IF matrixPattern = "MASTER_WORKER" THEN 2 ELSE 1) * ((n - 1) * p)
  <2>1. matrixPattern \in {"GATHER", "SCATTER", "MASTER_WORKER"}
    BY <1>3 DEF InRange, CpuPatterns, GpuPatterns
  <2>2. p \in Int /\ all = Traffic
    <3>1. CASE matrixPattern = "MASTER_WORKER"
      <4> DEFINE q == Size \div (n - 1)
      <4>1. Size = (n - 1) * q /\ q \in Nat
        BY <1>0, <1>3, NodesDivide, ExactDivision
      <4>2. p = (Size * 2) \div (n - 1) /\ Traffic = 4 * Size
        BY <1>0, <1>3, <3>1 DEF Payload, Traffic
      <4> HIDE DEF q, p
      <4>3. Size * 2 = (n - 1) * (2 * q) /\ n - 1 \in Nat \ {0}
        BY <1>0, <1>3, <4>1
      <4>4. ((n - 1) * (2 * q)) \div (n - 1) = 2 * q
        <5> DEFINE a == n - 1
                   b == 2 * q
        <5>1. a \in Nat \ {0} /\ b \in Nat
          BY <4>1, <4>3
        <5> HIDE DEF a, b
        <5>2. (a * b) \div a = b
          BY <5>1
        <5> QED
          BY <5>2 DEF a, b
      <4>5. p = 2 * q
        BY <4>2, <4>3, <4>4
      <4>6. 2 * ((n - 1) * (2 * q)) = 4 * ((n - 1) * q)
        BY <1>0, <4>1
      <4> QED
        BY <3>1, <4>1, <4>2, <4>5, <4>6
    <3>2. CASE matrixPattern # "MASTER_WORKER"
      <4>1. Size = n * p /\ p \in Nat
        <5>1. p = Size \div n
          BY <2>1, <3>2 DEF Payload
        <5> QED
          BY <1>0, <5>1, NodesDivide, ExactDivision
      <4>2. Traffic = Size - p
        BY <1>0, <1>3, <2>1, <3>2 DEF Traffic, Payload
      <4> HIDE DEF p
      <4>3. (n - 1) * p = n * p - p
        BY <1>0, <4>1
      <4> QED
        BY <3>2, <4>1, <4>2, <4>3
    <3> QED
      BY <3>1, <3>2
  <2>3. Silent(m, n) /\ TotalOf(m, n) = all /\ RowTotal(m, n, 0) + ColumnTotal(m, n, 0) = all
    BY <1>0, <1>3, <2>1, <2>2, RootedMatrix
  <2> HIDE DEF m, p, all
  <2> QED
    BY <1>3, <2>2, <2>3 DEF MatricesSpread, m
<1> QED
  BY <1>0, <1>1, <1>2, <1>3

\* Every matrix of messages moves the bytes its pattern stands for, whatever the number of
\* nodes: none from a node to itself, as much from and to each node in a symmetric pattern,
\* all from or to rank 0 in a rooted one.
THEOREM MatricesAreSpread == Spec => []MatricesSpread
  BY InputsInRange, MatrixIsSpread, PTL
-----------------------------------------------------------------------------
(* GPUs.                                                                   *)

LEMMA ExactQuotient ==
  ASSUME NEW d \in Nat \ {0}, NEW q \in Nat
  PROVE  (d * q) \div d = q
OBVIOUS

\* What is exchanged within each of w nodes of h GPUs, and between the nodes.
Splits(w, h, pattern, intra, inter) ==
  /\ intra \in Nat /\ inter \in Nat
  /\ Divides(h * Degree(pattern, h), intra)
  /\ w > 1 => Divides(w * Degree(pattern, w), inter) /\ w * intra + inter = Size
  /\ w = 1 => intra = Size

LEMMA SplitOfAllToAll ==
  ASSUME NEW w \in 1 .. MaxCount, NEW h \in 1 .. MaxGpus, h > 1
  PROVE  Splits(w, h, "ALL_TO_ALL", IntraNodeSize(Size, "ALL_TO_ALL", w, h),
                                    InterNodeSize(Size, "ALL_TO_ALL", w, h))
<1> DEFINE m == w * h
           q == Size \div (m * (m - 1))
           i == IntraNodeSize(Size, "ALL_TO_ALL", w, h)
           e == InterNodeSize(Size, "ALL_TO_ALL", w, h)
<1>1. w \in Nat \ {0} /\ h \in Nat \ {0} /\ m \in Nat /\ m > 1
  <2>1. w \in Nat \ {0} /\ h \in Nat \ {0}
    BY Divisors
  <2>2. (w - 1) * h \in Nat /\ w * h = (w - 1) * h + h
    BY <2>1
  <2> QED
    BY <2>1, <2>2
<1>2. Size = (m * (m - 1)) * q /\ q \in Nat
  BY <1>1, Divisors, ExactDivision
<1>3. i = (m * (h - 1) * q) \div w /\ e = m * (m - h) * q
  BY DEF IntraNodeSize, InterNodeSize
<1> HIDE DEF i, e, q
<1>4. m * (h - 1) * q = w * (h * (h - 1) * q) /\ h * (h - 1) * q \in Nat
  BY <1>1, <1>2
<1>5. i = h * (h - 1) * q
  <2> DEFINE b == h * (h - 1) * q
  <2>1. b \in Nat /\ i = (w * b) \div w
    BY <1>3, <1>4
  <2> HIDE DEF b
  <2>2. i = b
    BY <1>1, <2>1, ExactQuotient
  <2> QED
    BY <2>2 DEF b
<1>6. e = (w * (w - 1)) * (h * h * q) /\ (w - 1) \in Nat /\ h * h * q \in Nat
  BY <1>1, <1>2, <1>3
<1>7. w * i + e = Size
  <2>1. w * i = m * (h - 1) * q
    BY <1>4, <1>5
  <2> HIDE DEF m
  <2>2. m * (h - 1) * q + m * (m - h) * q = (m * (m - 1)) * q
    BY <1>1, <1>2
  <2> QED
    BY <1>2, <1>3, <2>1, <2>2
<1>8. i = (h * (h - 1)) * q /\ h * (h - 1) \in Nat \ {0}
  BY <1>1, <1>2, <1>5
<1>9. w > 1 => w * (w - 1) \in Nat \ {0}
  BY <1>1
<1>10. i \in Nat /\ e \in Nat
  <2>1. (w * (w - 1)) \in Nat
    BY <1>1
  <2> QED
    BY <1>2, <1>6, <1>8, <2>1
<1>11. w = 1 => i = Size
  <2> SUFFICES ASSUME w = 1 PROVE i = Size
    OBVIOUS
  <2>1. m = h
    BY <1>1
  <2> QED
    BY <1>2, <1>8, <2>1
<1> HIDE DEF m
<1>12. Divides(h * Degree("ALL_TO_ALL", h), i)
  BY <1>2, <1>8 DEF Divides, Degree
<1>13. w > 1 => Divides(w * Degree("ALL_TO_ALL", w), e)
  BY <1>6, <1>9 DEF Divides, Degree
<1> QED
  BY <1>7, <1>10, <1>11, <1>12, <1>13 DEF Splits, i, e

LEMMA SplitOfRing ==
  ASSUME NEW w \in 1 .. MaxCount, NEW h \in 1 .. MaxGpus, h > 1
  PROVE  Splits(w, h, "RING", IntraNodeSize(Size, "RING", w, h), InterNodeSize(Size, "RING", w, h))
<1> DEFINE m == w * h
           q == Size \div (m * 2)
           i == IntraNodeSize(Size, "RING", w, h)
           e == InterNodeSize(Size, "RING", w, h)
<1>1. w \in Nat \ {0} /\ h \in Nat \ {0} /\ m \in Nat \ {0}
  <2>1. w \in Nat \ {0} /\ h \in Nat \ {0}
    BY Divisors
  <2> QED
    BY <2>1
<1>2. PICK r \in Nat : Size = (2 * w * h * h) * r
  BY Divisors DEF Divides
<1>3. q = h * r /\ h * r \in Nat
  <2>1. Size = (m * 2) * (h * r) /\ m * 2 \in Nat \ {0} /\ h * r \in Nat
    BY <1>1, <1>2
  <2> DEFINE a == m * 2
             b == h * r
  <2>2. a \in Nat \ {0} /\ b \in Nat /\ q = (a * b) \div a
    BY <2>1
  <2> HIDE DEF a, b, q
  <2>3. q = b
    BY <2>2, ExactQuotient
  <2> QED
    BY <2>1, <2>3 DEF b
<1>4. /\ w = 1 => i = q * h * 2 /\ e = 0
      /\ w > 1 => i = q * (h - 1) * 2 /\ e = q * w * 2
  BY DEF IntraNodeSize, InterNodeSize
<1> HIDE DEF i, e, q, m
<1>5. CASE w = 1
  <2>1. i = Size
    BY <1>1, <1>2, <1>3, <1>4, <1>5
  <2>2. i = (h * 2) * (h * r) /\ h * 2 \in Nat \ {0}
    BY <1>1, <1>2, <1>3, <1>4, <1>5
  <2>3. Divides(h * Degree("RING", h), i)
    BY <1>3, <2>2 DEF Divides, Degree
  <2>4. i \in Nat /\ e \in Nat
    BY <2>1, <1>4, <1>5, PatternsBounds
  <2> QED
    BY <1>5, <2>1, <2>3, <2>4 DEF Splits, i, e
<1>6. CASE w > 1
  <2>1. i = (h * 2) * (r * (h - 1)) /\ r * (h - 1) \in Nat /\ h * 2 \in Nat \ {0}
    BY <1>1, <1>2, <1>3, <1>4, <1>6
  <2>2. e = (w * 2) * (h * r) /\ w * 2 \in Nat \ {0}
    BY <1>1, <1>2, <1>3, <1>4, <1>6
  <2>3. w * i + e = Size
    BY <1>1, <1>2, <2>1, <2>2
  <2>4. Divides(h * Degree("RING", h), i)
    BY <2>1 DEF Divides, Degree
  <2>5. Divides(w * Degree("RING", w), e)
    BY <1>3, <2>2 DEF Divides, Degree
  <2>6. i \in Nat /\ e \in Nat
    BY <1>3, <2>1, <2>2
  <2> QED
    BY <1>6, <2>3, <2>4, <2>5, <2>6 DEF Splits, i, e
<1> QED
  BY <1>5, <1>6, <1>1

LEMMA SplitOfOneWayRing ==
  ASSUME NEW w \in 1 .. MaxCount, NEW h \in 1 .. MaxGpus, h > 1,
         NEW pattern \in {"RING_CLOCKWISE", "RING_COUNTER_CLOCKWISE"}
  PROVE  Splits(w, h, pattern, IntraNodeSize(Size, pattern, w, h), InterNodeSize(Size, pattern, w, h))
<1> DEFINE m == w * h
           q == Size \div m
           i == IntraNodeSize(Size, pattern, w, h)
           e == InterNodeSize(Size, pattern, w, h)
<1>1. w \in Nat \ {0} /\ h \in Nat \ {0} /\ m \in Nat \ {0}
  <2>1. w \in Nat \ {0} /\ h \in Nat \ {0}
    BY Divisors
  <2> QED
    BY <2>1
<1>2. PICK r \in Nat : Size = (2 * w * h * h) * r
  BY Divisors DEF Divides
<1>3. q = h * (2 * r) /\ h * (2 * r) \in Nat
  <2>1. Size = m * (h * (2 * r)) /\ h * (2 * r) \in Nat
    BY <1>1, <1>2
  <2> DEFINE b == h * (2 * r)
  <2>2. b \in Nat /\ q = (m * b) \div m
    BY <2>1
  <2> HIDE DEF m, b, q
  <2>3. q = b
    BY <1>1, <2>2, ExactQuotient
  <2> QED
    BY <2>1, <2>3 DEF b
<1>4. /\ w = 1 => i = q * h /\ e = 0
      /\ w > 1 => i = q * (h - 1) /\ e = q * w
  BY DEF IntraNodeSize, InterNodeSize
<1> HIDE DEF i, e, q, m
<1>5. Degree(pattern, w) = 1 /\ Degree(pattern, h) = 1 /\ h * 1 = h /\ w * 1 = w
  BY <1>1 DEF Degree
<1>6. CASE w = 1
  <2>1. i = Size
    BY <1>1, <1>2, <1>3, <1>4, <1>6
  <2>2. i = h * (h * (2 * r))
    BY <1>1, <1>2, <1>3, <1>4, <1>6
  <2>3. Divides(h * Degree(pattern, h), i)
    BY <1>1, <1>3, <1>5, <2>2 DEF Divides
  <2>4. i \in Nat /\ e \in Nat
    BY <2>1, <1>4, <1>6, PatternsBounds
  <2> QED
    BY <1>6, <2>1, <2>3, <2>4 DEF Splits, i, e
<1>7. CASE w > 1
  <2>1. i = h * ((2 * r) * (h - 1)) /\ (2 * r) * (h - 1) \in Nat
    BY <1>1, <1>2, <1>3, <1>4, <1>7
  <2>2. e = w * (h * (2 * r))
    BY <1>1, <1>2, <1>3, <1>4, <1>7
  <2>3. w * i + e = Size
    BY <1>1, <1>2, <2>1, <2>2
  <2>4. Divides(h * Degree(pattern, h), i)
    BY <1>1, <1>5, <2>1 DEF Divides
  <2>5. Divides(w * Degree(pattern, w), e)
    BY <1>1, <1>3, <1>5, <2>2 DEF Divides
  <2>6. i \in Nat /\ e \in Nat
    BY <1>1, <1>3, <2>1, <2>2
  <2> QED
    BY <1>7, <2>3, <2>4, <2>5, <2>6 DEF Splits, i, e
<1> QED
  BY <1>6, <1>7, <1>1

LEMMA GpuTrafficIsConserved ==
  ASSUME InRange
  PROVE  GpuTrafficConserved
<1> SUFFICES ASSUME matrixPattern \in GpuPatterns, n * g > 1
             PROVE  LET m == CreateMatrices(Size, matrixPattern, n, g) IN
                    /\ n * TotalOf(m.intra, g) + TotalOf(m.inter, n) = Size
                    /\ DominantTransfer(m.intra, g) <= TotalOf(m.intra, g)
  BY DEF GpuTrafficConserved
<1> DEFINE i == IntraNodeSize(Size, matrixPattern, n, g)
           e == InterNodeSize(Size, matrixPattern, n, g)
           intra == CreateMatrix(i, matrixPattern, g)
           inter == CreateMatrix(e, matrixPattern, n)
<1>0. /\ n \in Nat \ {0} /\ g \in Nat \ {0} /\ n \in Nat /\ g \in Nat /\ Size \in Nat
      /\ n \in 1 .. MaxCount /\ g \in 1 .. MaxGpus
  BY Divisors DEF InRange
<1>1. /\ CreateMatrices(Size, matrixPattern, n, g).intra = intra
      /\ CreateMatrices(Size, matrixPattern, n, g).inter = inter
  BY DEF CreateMatrices
<1>2. CASE g = 1
  <2>1. n > 1
    BY <1>0, <1>2
  <2>2. e = Size
    BY <1>2 DEF InterNodeSize
  <2>3. Divides(n * Degree(matrixPattern, n), Size)
    <3>1. Divides(n, Size) /\ Divides(2 * n, Size) /\ Divides(n * (n - 1), Size)
      BY <1>0, <2>1, NodesDivide
    <3>2. 2 * n = n * 2 /\ n * 1 = n
      BY <1>0
    <3> QED
      BY <3>1, <3>2 DEF Degree
  <2>4. TotalOf(inter, n) = Size
    BY <1>0, <2>1, <2>2, <2>3, SymmetricMatrix
  <2>5. TotalOf(intra, g) = 0 /\ DominantTransfer(intra, g) = 0
    BY <1>2, LonelyMatrix
  <2> HIDE DEF intra, inter
  <2> QED
    BY <1>0, <1>1, <2>4, <2>5
<1>3. CASE g > 1
  <2>1. Splits(n, g, matrixPattern, i, e)
    BY <1>0, <1>3, SplitOfAllToAll, SplitOfRing, SplitOfOneWayRing DEF GpuPatterns
  <2> HIDE DEF i, e
  <2>2. TotalOf(intra, g) = i /\ DominantTransfer(intra, g) <= i
    BY <1>0, <1>3, <2>1, SymmetricMatrix DEF Splits
  <2>3. CASE n = 1
    <3>1. TotalOf(inter, n) = 0
      BY <2>3, LonelyMatrix
    <3> HIDE DEF intra, inter
    <3> QED
      BY <1>0, <1>1, <2>1, <2>2, <2>3, <3>1 DEF Splits
  <2>4. CASE n > 1
    <3>1. TotalOf(inter, n) = e
      BY <1>0, <2>1, <2>4, SymmetricMatrix DEF Splits
    <3> HIDE DEF intra, inter
    <3> QED
      BY <1>0, <1>1, <2>1, <2>2, <2>4, <3>1 DEF Splits
  <2> QED
    BY <1>0, <2>3, <2>4
<1> QED
  BY <1>0, <1>2, <1>3

\* The GPUs of any number of nodes exchange the size of the task between them, each byte
\* either within a node or between nodes, and the link of a node is charged with no more
\* than goes over it.
THEOREM GpuTrafficIsOfTheTask == Spec => []GpuTrafficConserved
  BY InputsInRange, GpuTrafficIsConserved, PTL
-----------------------------------------------------------------------------
(* Files and burst buffers.                                                *)

\* The place of an index in the transposed matrix.
LEMMA Transposition ==
  ASSUME NEW w \in Nat \ {0}, NEW k \in 0 .. w * w - 1
  PROVE  LET t == (k % w) * w + k \div w IN
         t \in 0 .. w * w - 1 /\ t \div w = k % w /\ t % w = k \div w
<1>1. k \div w \in 0 .. w - 1 /\ k % w \in 0 .. w - 1
  BY RowAndColumn
<1> QED
  BY <1>1, InMatrix

\* All the first row but its first place gives the size of the task.
LEMMA PfsIsMirrored ==
  ASSUME NEW h \in Nat, h > 1, NEW s \in Nat, Divides(h - 1, s)
  PROVE  /\ PfsRead(s, h) = Transposed(PfsWrite(s, h), h)
         /\ RowTotal(PfsWrite(s, h), h, 0) = s
<1> DEFINE share == s \div (h - 1)
<1>0. h \in Nat \ {0} /\ 0 \in 0 .. h - 1 /\ Indices(h * h) = 0 .. h * h - 1 /\ h \in Nat /\ 0 \in Int
  BY DEF Indices
<1>1. s = (h - 1) * share /\ share \in Nat
  BY ExactDivision
<1>a. share \in Int
  BY <1>1
<1> HIDE DEF share
<1>2. PfsWrite(s, h) = [k \in 0 .. h * h - 1 |-> IF k \in 1 .. h - 1 THEN share ELSE 0]
  BY <1>0 DEF PfsWrite, share
<1>3. PfsRead(s, h) = [k \in 0 .. h * h - 1 |-> IF k >= h /\ k % h = 0 THEN share ELSE 0]
  BY <1>0 DEF PfsRead, share
<1>4. ASSUME NEW k \in 0 .. h * h - 1
      PROVE  PfsRead(s, h)[k] = PfsWrite(s, h)[(k % h) * h + k \div h]
  <2> DEFINE i == k \div h
             j == k % h
             t == j * h + i
  <2>1. i \in 0 .. h - 1 /\ j \in 0 .. h - 1 /\ k = i * h + j
    BY <1>0, RowAndColumn
  <2>2. t \in 0 .. h * h - 1
    BY <1>0, Transposition
  <2>3. PfsRead(s, h)[k] = (IF k >= h /\ j = 0 THEN share ELSE 0)
    BY <1>3
  <2>4. PfsWrite(s, h)[t] = (IF t \in 1 .. h - 1 THEN share ELSE 0)
    BY <1>2, <2>2
  <2> HIDE DEF i, j
  <2>5. k >= h <=> i >= 1
    <3>1. CASE i = 0
      BY <1>0, <2>1, <3>1
    <3>2. CASE i # 0
      <4>1. (i - 1) * h \in Nat /\ i * h = (i - 1) * h + h
        BY <1>0, <2>1, <3>2
      <4> QED
        BY <1>0, <2>1, <3>2, <4>1
    <3> QED
      BY <3>1, <3>2
  <2>6. t \in 1 .. h - 1 <=> (j = 0 /\ i >= 1)
    <3>1. CASE j = 0
      BY <1>0, <2>1, <3>1
    <3>2. CASE j # 0
      <4>1. (j - 1) * h \in Nat /\ j * h = (j - 1) * h + h
        BY <1>0, <2>1, <3>2
      <4> QED
        BY <1>0, <2>1, <3>2, <4>1
    <3> QED
      BY <3>1, <3>2
  <2> HIDE DEF t
  <2> QED
    BY <2>3, <2>4, <2>5, <2>6 DEF i, j, t
<1>5. PfsRead(s, h) = Transposed(PfsWrite(s, h), h)
  <2>1. Transposed(PfsWrite(s, h), h) =
          [k \in 0 .. h * h - 1 |-> PfsWrite(s, h)[(k % h) * h + k \div h]]
    BY <1>0 DEF Transposed
  <2> QED
    BY <1>3, <1>4, <2>1
<1>6. RowTotal(PfsWrite(s, h), h, 0) = s
  <2> DEFINE f == PfsWrite(s, h)
  <2> HIDE DEF f
  <2>1. PICK row : /\ RowTotal(f, h, 0) = SumOf(row, h)
                   /\ \A j \in 0 .. h - 1 : row[j] = f[j]
    <3>1. ASSUME NEW i \in 0 .. h - 1
          PROVE  \E row : /\ RowTotal(f, h, i) = SumOf(row, h)
                          /\ \A j \in 0 .. h - 1 : row[j] = f[i * h + j]
      BY ONLY h \in Nat \ {0}, RowLine, Zenon
    <3>2. PICK row : /\ RowTotal(f, h, 0) = SumOf(row, h)
                     /\ \A j \in 0 .. h - 1 : row[j] = f[0 * h + j]
      BY <1>0, <3>1
    <3>3. \A j \in 0 .. h - 1 : 0 * h + j = j
      BY <1>0
    <3> QED
      BY <3>2, <3>3
  <2>2. ASSUME NEW j \in 0 .. h - 1 PROVE row[j] = IF j = 0 THEN 0 ELSE share
    <3>1. j \in 0 .. h * h - 1
      <4>1. 0 * h = 0 /\ 0 * h + j \in 0 .. h * h - 1
        BY <1>0, InMatrix
      <4> QED
        BY <4>1
    <3>2. f[j] = IF j \in 1 .. h - 1 THEN share ELSE 0
      BY <1>2, <3>1 DEF f
    <3> QED
      BY <2>1, <3>2
  <2>3. SumOf(row, h) = 0 + (h - 1) * share
    BY ONLY <1>0, <1>a, <2>2, SumOfRest
  <2> QED
    BY <1>1, <2>1, <2>3 DEF f
<1> QED
  BY <1>5, <1>6

\* All the row of the node but its own place gives the size less the node's own share.
LEMMA BurstBuffersAreMirrored ==
  ASSUME NEW w \in Nat, w > 0, NEW s \in Nat, Divides(w, s), NEW r \in 0 .. w - 1
  PROVE  /\ BurstBufferRead(s, r, w) = Transposed(BurstBufferWrite(s, r, w), w)
         /\ RowTotal(BurstBufferWrite(s, r, w), w, r) = s - s \div w
         /\ TotalOf(BurstBufferWrite(s, r, w), w) = s - s \div w
<1> DEFINE bytes == BurstBufferWrite(s, r, w)
<1>0. Indices(w * w) = 0 .. w * w - 1
  BY DEF Indices
<1>b. w \in Nat \ {0}
  OBVIOUS
<1>c. 0 \in Int
  OBVIOUS
<1>1. PICK share \in Nat : share = s \div w /\ s = w * share
  BY ExactDivision
<1>a. share \in Int
  OBVIOUS
<1>2. bytes = [k \in 0 .. w * w - 1 |-> IF k \div w = r /\ k % w # r THEN share ELSE 0]
  BY <1>0, <1>1 DEF BurstBufferWrite
<1>3. BurstBufferRead(s, r, w) =
        [k \in 0 .. w * w - 1 |-> IF k % w = r /\ k \div w # r THEN share ELSE 0]
  BY <1>0, <1>1 DEF BurstBufferRead
<1> HIDE DEF bytes
<1>4. BurstBufferRead(s, r, w) = Transposed(bytes, w)
  <2>1. Transposed(bytes, w) = [k \in 0 .. w * w - 1 |-> bytes[(k % w) * w + k \div w]]
    BY <1>0 DEF Transposed
  <2>2. ASSUME NEW k \in 0 .. w * w - 1
        PROVE  bytes[(k % w) * w + k \div w] = IF k % w = r /\ k \div w # r THEN share ELSE 0
    <3> DEFINE t == (k % w) * w + k \div w
    <3>1. t \in 0 .. w * w - 1 /\ t \div w = k % w /\ t % w = k \div w
      BY <1>b, Transposition
    <3> HIDE DEF t
    <3>2. bytes[t] = IF t \div w = r /\ t % w # r THEN share ELSE 0
      BY <1>2, <3>1
    <3> QED
      BY <3>1, <3>2 DEF t
  <2> QED
    BY <1>3, <2>1, <2>2
<1>5. ASSUME NEW i \in 0 .. w - 1
      PROVE  RowTotal(bytes, w, i) = IF i = r THEN (w - 1) * share ELSE 0
  <2>1. PICK row : /\ RowTotal(bytes, w, i) = SumOf(row, w)
                   /\ \A j \in 0 .. w - 1 : row[j] = bytes[i * w + j]
    BY <1>b, RowLine, SMTT(30)
  <2>2. \A j \in 0 .. w - 1 : row[j] = IF i = r /\ j # r THEN share ELSE 0
    <3> SUFFICES ASSUME NEW j \in 0 .. w - 1
                 PROVE  row[j] = IF i = r /\ j # r THEN share ELSE 0
      OBVIOUS
    <3> DEFINE t == i * w + j
    <3>1. t \in 0 .. w * w - 1 /\ t \div w = i /\ t % w = j
      BY <1>b, InMatrix
    <3>2. row[j] = bytes[t]
      BY <2>1
    <3> HIDE DEF t
    <3> QED
      BY <1>2, <3>1, <3>2
  <2>3. CASE i = r
    <3>1. \A j \in 0 .. w - 1 : row[j] = IF j = r THEN 0 ELSE share
      BY <2>2, <2>3
    <3>2. SumOf(row, w) = 0 + (w - 1) * share
      BY ONLY <3>1, SumOfRest, w \in Nat, r \in 0 .. w - 1, 0 \in Int, share \in Int, ZenonT(60)
    <3> QED
      BY <1>1, <2>1, <2>3, <3>2
  <2>4. CASE i # r
    <3>1. \A j \in 0 .. w - 1 : row[j] = 0
      BY <2>2, <2>4
    <3>2. SumOf(row, w) = w * 0
      BY <1>c, <3>1, SumOfSame
    <3> QED
      BY <2>1, <2>4, <3>2
  <2> QED
    BY <2>3, <2>4
<1>6. TotalOf(bytes, w) = (w - 1) * share
  <2>1. PICK rows : TotalOf(bytes, w) = SumOf(rows, w) /\ \A j \in 0 .. w - 1 : rows[j] = RowTotal(bytes, w, j)
    BY <1>b, AllLines
  <2>2. PICK q \in Int : q = (w - 1) * share
    OBVIOUS
  <2>3. \A j \in 0 .. w - 1 : rows[j] = IF j = r THEN q ELSE 0
    BY <1>5, <2>1, <2>2
  <2>4. SumOf(rows, w) = q
    BY ONLY <2>3, SumOfOne, w \in Nat, r \in 0 .. w - 1, q \in Int, ZenonT(60)
  <2> QED
    BY <2>1, <2>2, <2>4
<1>7. (w - 1) * share = s - share
  BY <1>1
<1> QED
  BY <1>1, <1>4, <1>5, <1>6, <1>7 DEF bytes

LEMMA IoIsMirrored ==
  ASSUME InRange
  PROVE  IoMirrored
<1>1. n \in Nat \ {0} /\ Size \in Nat /\ Divides(n, Size) /\ Indices(n) = 0 .. n - 1
  BY NodesDivide DEF InRange, Indices
<1>2. /\ PfsRead(Size, n + 1) = Transposed(PfsWrite(Size, n + 1), n + 1)
      /\ RowTotal(PfsWrite(Size, n + 1), n + 1, 0) = Size
  <2>1. n + 1 \in Nat /\ n + 1 > 1 /\ (n + 1) - 1 = n
    BY <1>1
  <2> QED
    BY <1>1, <2>1, PfsIsMirrored
<1>3. \A r \in Indices(n) :
        /\ BurstBufferRead(Size, r, n) = Transposed(BurstBufferWrite(Size, r, n), n)
        /\ RowTotal(BurstBufferWrite(Size, r, n), n, r) = Size - Size \div n
        /\ TotalOf(BurstBufferWrite(Size, r, n), n) = Size - Size \div n
  BY <1>1, BurstBuffersAreMirrored
<1> QED
  BY <1>2, <1>3 DEF IoMirrored

\* Reading moves the bytes of writing in the other direction; a node exchanges its whole size
\* with the file system, and all but its own share with the burst buffers of the others.
THEOREM IoIsTheSameBothWays == Spec => []IoMirrored
  BY InputsInRange, IoIsMirrored, PTL
=============================================================================
