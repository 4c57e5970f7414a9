------------------------- MODULE ElastisimRefinement -------------------------
(* Elastisim implements BatchSystem, with a careful algorithm and without  *)
(* oversubscription, as long as no kill overtakes a message.               *)
EXTENDS Elastisim

\* A job holds the nodes that list it in Node::runningJobs.
Holds == [j \in Jobs |-> {n \in Nodes : j \in node[n].running}]

Phase ==
  [j \in Jobs |->
     CASE state[j] = "PENDING_SUBMISSION" -> "absent"
       [] state[j] \in Final -> "ended"
       [] Active(j) -> "running"
       [] OTHER -> "queued"]

Batch == INSTANCE BatchSystem WITH phase <- Phase, holds <- Holds

\* Every step of the simulator is a step of the abstract batch system or changes nothing
\* of it: in particular no reconfiguration or start takes a node that is held, whatever
\* the order in which one response shrinks a job and starts another on its nodes.
ImplementsBatch ==
  Batch!BatchInit /\ [][~Undisturbed' \/ Batch!BatchNext]_(Batch!batchVars)
=============================================================================
