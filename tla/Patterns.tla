------------------------------ MODULE Patterns ------------------------------
(***************************************************************************)
(* How the simulator spreads the work of a task over the nodes of its job: *)
(* vectors of sizes per rank and matrices of bytes between ranks           *)
(* (util/Utility), between the GPUs of a node, between a node and the      *)
(* parallel file system and between the nodes that share their burst       *)
(* buffers (tasks).  A matrix is a vector indexed by row * width + column; *)
(* indices start at 0, as in the code.  Sizes are doubles in the code and  *)
(* integers here: \div stands for an exact division, and the instances     *)
(* checked use sizes that all these divisors divide.                       *)
(***************************************************************************)
EXTENDS Integers, Sequences, FiniteSets, FiniteSetsExt

VectorPatterns == {"ALL_RANKS", "ROOT_ONLY", "EVEN_RANKS", "ODD_RANKS", "UNIFORM"}

CpuPatterns == {"ALL_TO_ALL", "GATHER", "SCATTER", "MASTER_WORKER", "RING",
                "RING_CLOCKWISE", "RING_COUNTER_CLOCKWISE"}

GpuPatterns == {"ALL_TO_ALL", "RING", "RING_CLOCKWISE", "RING_COUNTER_CLOCKWISE"}

Indices(n) == 0 .. n - 1

(* (Definitions named Wrong... are deliberate mistakes, see module JobNode.) *)

WrongCreateVector(size, pattern, n) ==
  [i \in Indices(n) |->
     CASE pattern = "UNIFORM" -> size
       [] pattern = "EVEN_RANKS" -> IF i % 2 = 0 THEN size \div (n \div 2 + 1) ELSE 0
       [] pattern = "ODD_RANKS" -> IF i % 2 = 1 THEN size \div (n \div 2) ELSE 0
       [] pattern = "ROOT_ONLY" -> IF i = 0 THEN size ELSE 0
       [] pattern = "ALL_RANKS" -> size \div n]

\* Utility::createVector.
CreateVector(size, pattern, n) ==
  [i \in Indices(n) |->
     CASE pattern = "UNIFORM" -> size
       [] pattern = "EVEN_RANKS" ->
            IF i % 2 # 0 THEN 0
            ELSE size \div (IF n % 2 = 0 THEN n \div 2 ELSE n \div 2 + 1)
       [] pattern = "ODD_RANKS" -> IF i % 2 = 1 THEN size \div (n \div 2) ELSE 0
       [] pattern = "ROOT_ONLY" -> IF i = 0 THEN size ELSE 0
       [] pattern = "ALL_RANKS" -> size \div n]

WrongPayload(size, pattern, n) ==
  CASE pattern = "ALL_TO_ALL" -> size \div (n * n)
    [] pattern = "RING" -> size \div (n * 2)
    [] pattern = "MASTER_WORKER" -> (size * 2) \div (n - 1)
    [] OTHER -> size \div n

\* The payload of one message in Utility::createMatrix.
Payload(size, pattern, n) ==
  CASE pattern = "ALL_TO_ALL" -> size \div (n * n - n)
    [] pattern = "RING" -> size \div (n * 2)
    [] pattern = "MASTER_WORKER" -> (size * 2) \div (n - 1)
    [] OTHER -> size \div n

\* The messages that the code adds up at index i * n + j, by their number.
Messages(pattern, n, i, j) ==
  CASE pattern = "ALL_TO_ALL" -> IF i # j THEN 1 ELSE 0
    [] pattern = "GATHER" -> IF i > 0 /\ j = 0 THEN 1 ELSE 0
    [] pattern = "SCATTER" -> IF i = 0 /\ j > 0 THEN 1 ELSE 0
    [] pattern = "RING" -> (IF j = (i - 1) % n THEN 1 ELSE 0) + (IF j = (i + 1) % n THEN 1 ELSE 0)
    [] pattern = "RING_CLOCKWISE" -> IF j = (i + 1) % n THEN 1 ELSE 0
    [] pattern = "RING_COUNTER_CLOCKWISE" -> IF j = (i - 1) % n THEN 1 ELSE 0
    [] pattern = "MASTER_WORKER" -> IF (i = 0) # (j = 0) THEN 1 ELSE 0

\* Utility::createMatrix.
CreateMatrix(size, pattern, n) ==
  IF n = 1 THEN [k \in {0} |-> 0]
  ELSE [k \in Indices(n * n) |->
          Payload(size, pattern, n) * Messages(pattern, n, k \div n, k % n)]

\* Utility::createMatrices: the sizes within each node and between the nodes.
IntraNodeSize(size, pattern, n, g) ==
  LET gpus == n * g IN
  CASE g = 1 -> 0
    [] g > 1 /\ pattern = "ALL_TO_ALL" ->
         (gpus * (g - 1) * (size \div (gpus * (gpus - 1)))) \div n
    [] g > 1 /\ pattern = "RING" ->
         (size \div (gpus * 2)) * (IF n = 1 THEN g ELSE g - 1) * 2
    [] g > 1 /\ pattern \in {"RING_CLOCKWISE", "RING_COUNTER_CLOCKWISE"} ->
         (size \div gpus) * (IF n = 1 THEN g ELSE g - 1)

WrongInterNodeSize(size, pattern, n, g) == IF n = 1 THEN 0 ELSE size

InterNodeSize(size, pattern, n, g) ==
  LET gpus == n * g IN
  CASE g = 1 -> size
    [] g > 1 /\ pattern = "ALL_TO_ALL" -> gpus * (gpus - g) * (size \div (gpus * (gpus - 1)))
    [] g > 1 /\ pattern = "RING" -> IF n = 1 THEN 0 ELSE (size \div (gpus * 2)) * n * 2
    [] g > 1 /\ pattern \in {"RING_CLOCKWISE", "RING_COUNTER_CLOCKWISE"} ->
         IF n = 1 THEN 0 ELSE (size \div gpus) * n

CreateMatrices(size, pattern, n, g) ==
  [intra |-> CreateMatrix(IntraNodeSize(size, pattern, n, g), pattern, g),
   inter |-> CreateMatrix(InterNodeSize(size, pattern, n, g), pattern, n)]

\* Node::execGpuTransferAsync: the most that any two of the node's g GPUs exchange.
DominantTransfer(bytes, g) ==
  LET pairs == {p \in Indices(g) \X Indices(g) : p[1] < p[2]} IN
  Max({0} \cup {bytes[p[1] * g + p[2]] + bytes[p[2] * g + p[1]] : p \in pairs})

WrongPfsRead(size, h) ==
  [k \in Indices(h * h) |-> IF k % h = 0 THEN size \div (h - 1) ELSE 0]

\* PfsReadTask::executeAsync and PfsWriteTask::executeAsync: host 0 is the node, the other
\* h - 1 hosts are those of the file system.
PfsRead(size, h) ==
  [k \in Indices(h * h) |-> IF k >= h /\ k % h = 0 THEN size \div (h - 1) ELSE 0]

PfsWrite(size, h) ==
  [k \in Indices(h * h) |-> IF k \in 1 .. h - 1 THEN size \div (h - 1) ELSE 0]

\* BurstBufferReadTask::executeAsync and BurstBufferWriteTask::executeAsync on
\* wide-striped burst buffers, for the node with the given rank among n.
BurstBufferRead(size, rank, n) ==
  [k \in Indices(n * n) |-> IF k % n = rank /\ k \div n # rank THEN size \div n ELSE 0]

BurstBufferWrite(size, rank, n) ==
  [k \in Indices(n * n) |-> IF k \div n = rank /\ k % n # rank THEN size \div n ELSE 0]
=============================================================================
