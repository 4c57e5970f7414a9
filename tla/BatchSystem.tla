----------------------------- MODULE BatchSystem -----------------------------
(***************************************************************************)
(* What a batch system promises its users, with no actors, messages or     *)
(* reservations: a job is submitted once, holds nodes that no other job    *)
(* holds from its start to its end, gains and gives nodes back in one      *)
(* step while it runs, and ends once.  Module ElastisimRefinement shows    *)
(* that Elastisim implements it.                                           *)
(***************************************************************************)
EXTENDS FiniteSets, Integers

CONSTANTS Jobs, Nodes, MinNodes, MaxNodes

VARIABLES
  phase,   \* where each job is in its life
  holds    \* the nodes each job holds

batchVars == <<phase, holds>>

Sizes(j) == {S \in SUBSET Nodes : Cardinality(S) \in MinNodes[j] .. MaxNodes[j]}

HeldByOthers(j) == UNION {holds[i] : i \in Jobs \ {j}}

BatchInit ==
  /\ phase = [j \in Jobs |-> "absent"]
  /\ holds = [j \in Jobs |-> {}]

Submit(j) ==
  /\ phase[j] = "absent"
  /\ phase' = [phase EXCEPT ![j] = "queued"]
  /\ UNCHANGED holds

Start(j, S) ==
  /\ phase[j] = "queued"
  /\ S \cap HeldByOthers(j) = {}
  /\ phase' = [phase EXCEPT ![j] = "running"]
  /\ holds' = [holds EXCEPT ![j] = S]

Resize(j, S) ==
  /\ phase[j] = "running"
  /\ S \cap HeldByOthers(j) = {}
  /\ holds' = [holds EXCEPT ![j] = S]
  /\ UNCHANGED phase

End(j) ==
  /\ phase[j] \in {"queued", "running"}
  /\ phase' = [phase EXCEPT ![j] = "ended"]
  /\ holds' = [holds EXCEPT ![j] = {}]

BatchNext ==
  \E j \in Jobs :
    \/ Submit(j) \/ End(j)
    \/ \E S \in Sizes(j) : Start(j, S) \/ Resize(j, S)

BatchSpec == BatchInit /\ [][BatchNext]_batchVars
=============================================================================
