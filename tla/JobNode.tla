------------------------------ MODULE JobNode ------------------------------
(***************************************************************************)
(* The passive objects of the batch system: jobs (software/Job), compute   *)
(* nodes (system/Node) and the two lists of modified objects that          *)
(* PlatformManager keeps for the next invocation of the scheduling         *)
(* algorithm.  They have no thread of control: the actors of modules       *)
(* Scheduler and Elastisim call the operations defined here.               *)
(*                                                                         *)
(* A job's node lists are sequences, because a position is a rank and      *)
(* Job::updateState compares the lists element by element.  Node counts,   *)
(* GPUs per node, run-time arguments, statistics and times are data that   *)
(* no transition of these objects depends on, and are left out.            *)
(***************************************************************************)
EXTENDS Integers, FiniteSets, Sequences, Functions

CONSTANTS
  Jobs, Nodes,              \* the jobs of the workload, the compute nodes
  Type,                     \* Type[j] : the JobType of j
  MinNodes, MaxNodes,       \* num_nodes_min/max; both num_nodes for a rigid job
  AllowOversubscription     \* allow_oversubscription

JobTypes == {"RIGID", "MOLDABLE", "MALLEABLE", "EVOLVING", "ADAPTIVE"}

\* The types whose nodes may change while the job runs (Job::assignNode).
Elastic == {"MALLEABLE", "EVOLVING", "ADAPTIVE"}

JobStates == {"PENDING_SUBMISSION", "PENDING", "PENDING_ALLOCATION",
              "PENDING_KILL", "RUNNING", "PENDING_RECONFIGURATION",
              "IN_RECONFIGURATION", "COMPLETED", "KILLED"}

Final == {"COMPLETED", "KILLED"}

NodeStates == {"FREE", "ALLOCATED", "RESERVED"}

\* Job::checkSpecification; it dies where this is false.
ValidSpecification(j) == MinNodes[j] >= 1 /\ MinNodes[j] <= MaxNodes[j]

ASSUME JobSpecification ==
  /\ Type \in [Jobs -> JobTypes]
  /\ MinNodes \in [Jobs -> Int] /\ MaxNodes \in [Jobs -> Int]
  /\ \A j \in Jobs : ValidSpecification(j)
  /\ AllowOversubscription \in BOOLEAN

VARIABLES
  state,          \* Job::state
  assigned,       \* Job::assignedNodes, the nodes the algorithm wants
  executing,      \* Job::executingNodes, the nodes the job runs on, by rank
  node,           \* Node::state, Node::runningJobs and Node::expectedJobs
  modifiedJobs,   \* PlatformManager::modifiedJobs
  modifiedNodes   \* PlatformManager::modifiedComputeNodes

jobVars  == <<state, assigned, executing, modifiedJobs>>
nodeVars == <<node, modifiedNodes>>

NodeRecord == [state : NodeStates, running : SUBSET Jobs, expected : SUBSET Jobs]

JobNodeTypeOK ==
  /\ state \in [Jobs -> JobStates]
  /\ assigned \in [Jobs -> Seq(Nodes)]
  /\ executing \in [Jobs -> Seq(Nodes)]
  /\ node \in [Nodes -> NodeRecord]
  /\ modifiedJobs \subseteq Jobs
  /\ modifiedNodes \subseteq Nodes

\* The constructors; that of a node enters it in the list.
JobInit ==
  /\ state = [j \in Jobs |-> "PENDING_SUBMISSION"]
  /\ assigned = [j \in Jobs |-> <<>>]
  /\ executing = [j \in Jobs |-> <<>>]
  /\ modifiedJobs = {}

NodeInit ==
  /\ node = [n \in Nodes |-> [state |-> "FREE", running |-> {}, expected |-> {}]]
  /\ modifiedNodes = Nodes

Assigned(j) == Range(assigned[j])
Executing(j) == Range(executing[j])

-----------------------------------------------------------------------------
(* Operations of one node: the record of the node after the call.          *)

(* (An operator whose name begins with Wrong is a deliberate mistake in the *)
(* definition that follows it.  No specification uses it: each property is  *)
(* tested by putting one of them in place of the definition it distorts.)   *)

ExpectJob(nd, j) ==
  [nd EXCEPT !.expected = @ \cup {j},
             !.state = IF @ = "FREE" THEN "RESERVED" ELSE @]

WrongRemoveExpectedJob(nd, j) == [nd EXCEPT !.expected = @ \ {j}]

RemoveExpectedJob(nd, j) ==
  [nd EXCEPT !.expected = @ \ {j},
             !.state = IF nd.expected \ {j} = {} /\ @ = "RESERVED" THEN "FREE" ELSE @]

AllocateJob(nd, j) ==
  [nd EXCEPT !.running = @ \cup {j}, !.state = "ALLOCATED"]

WrongCompleteJob(nd, j) == [nd EXCEPT !.state = "FREE"]

\* Node::completeJob and Node::killJob, which differ in the actor they end.
CompleteJob(nd, j) ==
  [nd EXCEPT !.running = @ \ {j},
             !.state = IF nd.running \ {j} = {} THEN "FREE" ELSE @]

\* The checks before an allocation and a reservation; xbt_die where they fail.
MayAllocate(nd) == AllowOversubscription \/ nd.running = {}

\* ... on every node of q in turn: a node that q names again is no longer empty.
MayAllocateAll(nds, q) ==
  /\ \A n \in Range(q) : MayAllocate(nds[n])
  /\ AllowOversubscription \/ IsInjective(q)

MayExpect(nd, j) ==
  \/ AllowOversubscription
  \/ /\ nd.running = {} \/ j \in nd.running
     /\ nd.expected = {} \/ j \in nd.expected

(* The same operation on every node of S, on the nodes nds. *)

Expect(nds, S, j) ==
  [n \in Nodes |-> IF n \in S THEN ExpectJob(nds[n], j) ELSE nds[n]]
RemoveExpected(nds, S, j) ==
  [n \in Nodes |-> IF n \in S THEN RemoveExpectedJob(nds[n], j) ELSE nds[n]]
Allocate(nds, S, j) ==
  [n \in Nodes |-> IF n \in S THEN AllocateJob(nds[n], j) ELSE nds[n]]
Complete(nds, S, j) ==
  [n \in Nodes |-> IF n \in S THEN CompleteJob(nds[n], j) ELSE nds[n]]

-----------------------------------------------------------------------------
(* Operations of a job.                                                    *)

\* Job::setState makes the assigned nodes the executing ones on two transitions.
TakesOver(old, new) ==
  \/ old = "PENDING_ALLOCATION" /\ new = "RUNNING"
  \/ old = "PENDING_RECONFIGURATION" /\ new = "IN_RECONFIGURATION"

WrongUnreserves(old, new) == old = "PENDING_RECONFIGURATION" /\ new = "IN_RECONFIGURATION"

\* ... and gives its reservations back on these.
Unreserves(old, new) ==
  \/ old = "PENDING_RECONFIGURATION" /\ new = "IN_RECONFIGURATION"
  \/ new \in Final

WrongAddModifiedJob(j) == UNCHANGED modifiedJobs

AddModifiedJob(j) == modifiedJobs' = modifiedJobs \cup {j}

WrongSetState(j, new) ==
  /\ state' = [state EXCEPT ![j] = new]
  /\ executing' = IF TakesOver(state[j], new)
                  THEN [executing EXCEPT ![j] = assigned[j]]
                  ELSE executing
  /\ IF state[j] = new THEN UNCHANGED modifiedJobs ELSE AddModifiedJob(j)

SetState(j, new) ==
  /\ state' = [state EXCEPT ![j] = new]
  /\ executing' = IF TakesOver(state[j], new)
                  THEN [executing EXCEPT ![j] = assigned[j]]
                  ELSE executing
  /\ AddModifiedJob(j)

\* What Job::setState(j, new) does to the nodes nds.
NodesAfterSetState(nds, j, new) ==
  IF Unreserves(state[j], new) THEN RemoveExpected(nds, Assigned(j), j) ELSE nds

\* The nodes Job::setState(j, new) reports as modified.
NodesTouchedBySetState(j, new) ==
  IF Unreserves(state[j], new) THEN Assigned(j) ELSE {}

\* Job::updateState: the state that the lists q (assigned) and x (executing) call for.
UpdatedState(old, q, x) ==
  CASE old = "PENDING" /\ q # x -> "PENDING_ALLOCATION"
    [] old = "RUNNING" /\ q # x -> "PENDING_RECONFIGURATION"
    [] old = "PENDING_RECONFIGURATION" /\ q = x -> "RUNNING"
    [] OTHER -> old

\* Job::checkConfigurationValidity; it dies where this is false.
ValidConfiguration(j, q) == Len(q) \in MinNodes[j] .. MaxNodes[j]

\* Job::assignNode for each node of q, after clearAssignedNodes: it dies where this is false.
MayAssign(j, q) ==
  \/ state[j] = "PENDING"
  \/ /\ Type[j] \in Elastic
     /\ \A n \in Range(q) : MayExpect(RemoveExpected(node, Assigned(j), j)[n], j)

\* The non-kill branch of SchedulingInterface::handleSchedule for one job:
\* clearAssignedNodes, assignNode for each node of q, updateState.
Assign(j, q) ==
  LET cleared == RemoveExpected(node, Assigned(j), j)
      new == UpdatedState(state[j], q, executing[j])
  IN  /\ assigned' = [assigned EXCEPT ![j] = q]
      /\ state' = [state EXCEPT ![j] = new]
      /\ modifiedJobs' = IF new # state[j] THEN modifiedJobs \cup {j} ELSE modifiedJobs
      /\ IF state[j] = "PENDING"
         THEN /\ node' = cleared
              /\ modifiedNodes' = modifiedNodes \cup Assigned(j)
         ELSE /\ node' = Expect(cleared, Range(q), j)
              /\ modifiedNodes' = modifiedNodes \cup Assigned(j) \cup Range(q)
      /\ UNCHANGED executing
=============================================================================
