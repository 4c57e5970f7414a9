----------------------------- MODULE MCElastisim -----------------------------
(* Small instances of Elastisim for TLC: two jobs, two nodes. *)
EXTENDS ElastisimRefinement, TLC

CONSTANTS a, b, n1, n2

AllMalleable == [j \in Jobs |-> "MALLEABLE"]
AdaptiveAndMalleable == (a :> "ADAPTIVE") @@ (b :> "MALLEABLE")

OneNode == [j \in Jobs |-> 1]
TwoNodes == [j \in Jobs |-> 2]
UpToTwo == (a :> 2) @@ (b :> 1)

\* A list may name a node twice; a careful algorithm does not send such a one.
NodeLists == {<<n1>>, <<n2>>, <<n1, n2>>, <<n2, n1>>, <<n1, n1>>}

NoWalltime == [j \in Jobs |-> FALSE]
WalltimeOfA == (a :> TRUE) @@ (b :> FALSE)

TwoIterations == [j \in Jobs |-> 2]
TwoAndOne == (a :> 2) @@ (b :> 1)
=============================================================================
