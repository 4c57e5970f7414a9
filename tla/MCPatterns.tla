------------------------------ MODULE MCPatterns ------------------------------
(* The operators of Patterns against what they are to distribute, for every *)
(* pattern and all node and GPU counts up to a bound.  A state is an input. *)
EXTENDS Patterns

CONSTANTS MaxCount, MaxGpus, Size

\* The code divides doubles.  Size is one that all divisors of the patterns divide, so that
\* \div is the same division; for all bounds there are such sizes.
ASSUME PatternsBounds ==
  /\ MaxCount \in Nat \ {0} /\ MaxGpus \in Nat \ {0} /\ Size \in Nat
  /\ \A nodes \in 1 .. MaxCount, gpus \in 1 .. MaxGpus :
       /\ Size % (2 * nodes * gpus * gpus) = 0
       /\ nodes * gpus > 1 => Size % ((nodes * gpus) * (nodes * gpus - 1)) = 0

VARIABLES vectorPattern, matrixPattern, n, g

vars == <<vectorPattern, matrixPattern, n, g>>

Init ==
  /\ vectorPattern \in VectorPatterns /\ matrixPattern \in CpuPatterns
  /\ n = 1 /\ g = 1

MoreNodes == n < MaxCount /\ n' = n + 1 /\ UNCHANGED <<vectorPattern, matrixPattern, g>>
MoreGpus == g < MaxGpus /\ g' = g + 1 /\ UNCHANGED <<vectorPattern, matrixPattern, n>>

Next == MoreNodes \/ MoreGpus

Spec == Init /\ [][Next]_vars

-----------------------------------------------------------------------------
\* The sum of f[0], ..., f[k - 1], and the sums over a matrix f of w rows and columns.
SumOf(f, k) ==
  LET sum[i \in 0 .. k] == IF i = 0 THEN 0 ELSE sum[i - 1] + f[i - 1] IN sum[k]

RowTotal(f, w, i) == SumOf([j \in Indices(w) |-> f[i * w + j]], w)
ColumnTotal(f, w, j) == SumOf([i \in Indices(w) |-> f[i * w + j]], w)
TotalOf(f, w) == SumOf([i \in Indices(w) |-> RowTotal(f, w, i)], w)
Silent(f, w) == \A i \in Indices(w) : f[i * w + i] = 0

\* The ranks that take part in a vector pattern.
Members ==
  CASE vectorPattern \in {"ALL_RANKS", "UNIFORM"} -> Indices(n)
    [] vectorPattern = "ROOT_ONLY" -> {0}
    [] vectorPattern = "EVEN_RANKS" -> {i \in Indices(n) : i % 2 = 0}
    [] vectorPattern = "ODD_RANKS" -> {i \in Indices(n) : i % 2 = 1}

\* A vector gives every rank of its pattern the same share and the others nothing, and the
\* shares add up to the size of the task (UNIFORM: to that size for each rank), whether
\* the number of nodes is even, odd or one.
VectorsSpread ==
  LET v == CreateVector(Size, vectorPattern, n) IN
  /\ \A i \in Indices(n) \ Members : v[i] = 0
  /\ \A i, k \in Members : v[i] = v[k]
  /\ Members # {} => SumOf(v, n) = IF vectorPattern = "UNIFORM" THEN n * Size ELSE Size

\* The bytes a matrix pattern puts on the network in all.
Traffic ==
  CASE n = 1 -> 0
    [] n > 1 /\ matrixPattern \in {"GATHER", "SCATTER"} -> Size - Size \div n
    [] n > 1 /\ matrixPattern = "MASTER_WORKER" -> 4 * Size
    [] OTHER -> Size

\* No rank sends to itself, every pattern moves a fixed number of bytes for all numbers of
\* nodes, in a symmetric pattern all ranks send and receive as much, and in a rooted one
\* rank 0 is an end of every message.
MatricesSpread ==
  LET m == CreateMatrix(Size, matrixPattern, n) IN
  /\ Silent(m, n)
  /\ TotalOf(m, n) = Traffic
  /\ matrixPattern \in GpuPatterns =>
       \A i \in Indices(n) : /\ RowTotal(m, n, i) = Traffic \div n
                             /\ ColumnTotal(m, n, i) = Traffic \div n
  /\ matrixPattern \notin GpuPatterns =>
       RowTotal(m, n, 0) + ColumnTotal(m, n, 0) = Traffic

\* The GPUs of all nodes together exchange the size of the task, no byte being counted on
\* both the link and the network or on neither; the link of a node is charged with no more
\* than goes over it.
GpuTrafficConserved ==
  matrixPattern \in GpuPatterns /\ n * g > 1 =>
    LET m == CreateMatrices(Size, matrixPattern, n, g) IN
    /\ n * TotalOf(m.intra, g) + TotalOf(m.inter, n) = Size
    /\ DominantTransfer(m.intra, g) <= TotalOf(m.intra, g)

Transposed(f, w) == [k \in Indices(w * w) |-> f[(k % w) * w + k \div w]]

\* Reading moves the same bytes as writing in the other direction; a node exchanges its
\* whole size with the file system, and with the burst buffers of the other nodes all but
\* the share on its own.
IoMirrored ==
  /\ PfsRead(Size, n + 1) = Transposed(PfsWrite(Size, n + 1), n + 1)
  /\ RowTotal(PfsWrite(Size, n + 1), n + 1, 0) = Size
  /\ \A r \in Indices(n) :
       /\ BurstBufferRead(Size, r, n) = Transposed(BurstBufferWrite(Size, r, n), n)
       /\ RowTotal(BurstBufferWrite(Size, r, n), n, r) = Size - Size \div n
       /\ TotalOf(BurstBufferWrite(Size, r, n), n) = Size - Size \div n
=============================================================================
