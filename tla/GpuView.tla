------------------------------- MODULE GpuView -------------------------------
(***************************************************************************)
(* What the scheduling algorithm is told of the GPUs of a node.  Node::    *)
(* toJson sends their states with that of the node, but only the node's    *)
(* own operations enter it in PlatformManager::modifiedComputeNodes:       *)
(* Gpu::allocate and Gpu::deallocate do not, so that the picture grows     *)
(* stale while a kernel starts and ends.  This module adds to module Gpu   *)
(* the jobs on the node, the list and the picture; every step of it is a   *)
(* step of Gpu or leaves Gpu's variables as they are.                      *)
(***************************************************************************)
EXTENDS Gpu

VARIABLES
  running,   \* Node::runningJobs, by the application of each job
  modified,  \* the node is in PlatformManager::modifiedComputeNodes
  told       \* the states of the GPUs in the last message with this node

viewVars == <<vars, running, modified, told>>

ViewTypeOK ==
  running \subseteq AllApps /\ modified \in BOOLEAN /\ told \in [Gpus -> {"FREE", "ALLOCATED"}]

\* Node::Node.
ViewInit ==
  /\ Init
  /\ running = {}
  /\ modified = TRUE
  /\ told = [g \in Gpus |-> "FREE"]

AddModifiedComputeNode == modified' = TRUE

\* Node::allocateJob and Node::expandJob, which create the application.
AllocateJob(a) ==
  /\ Shared \/ running = {}
  /\ StartApp(a)
  /\ running' = running \cup {a}
  /\ AddModifiedComputeNode
  /\ UNCHANGED told

\* (Deliberately mistaken, see module JobNode.)
WrongCompleteJob(a) ==
  /\ a \in running /\ caller[a] = "ended"
  /\ running' = running \ {a}
  /\ UNCHANGED <<vars, modified, told>>

\* Node::completeJob, or Node::killJob after the application has ended by itself.
CompleteJob(a) ==
  /\ a \in running /\ caller[a] = "ended"
  /\ running' = running \ {a}
  /\ AddModifiedComputeNode
  /\ UNCHANGED <<vars, told>>

\* Node::killJob.
KillJob(a) ==
  /\ KillApp(a)
  /\ running' = running \ {a}
  /\ AddModifiedComputeNode
  /\ UNCHANGED told

\* Node::expectJob and Node::removeExpectedJob.
Expect == AddModifiedComputeNode /\ UNCHANGED <<vars, running, told>>

\* SchedulingInterface::invokeScheduling.
Invoke ==
  /\ told' = IF modified THEN gpuState ELSE told
  /\ modified' = FALSE
  /\ UNCHANGED <<vars, running>>

\* An application and its actors enter the node in no list.
Execute(a) ==
  /\ StartTask(a) \/ Exchanged(a) \/ EndTask(a) \/ EndApp(a)
  /\ UNCHANGED <<running, modified, told>>

RunSleeper(s) == AsyncSleep(s) /\ UNCHANGED <<running, modified, told>>

Work == (\E a \in AllApps : Execute(a)) \/ \E s \in Sleepers : RunSleeper(s)

ViewNext ==
  \/ \E a \in AllApps : AllocateJob(a) \/ CompleteJob(a) \/ KillJob(a)
  \/ Expect \/ Invoke \/ Work

ViewSpec == ViewInit /\ [][ViewNext]_viewVars

\* Actors run, sleeps and exchanges end.  No job need be started, ended or killed by the
\* scheduler, and it need not invoke the algorithm.
FairViewSpec ==
  /\ ViewSpec
  /\ \A a \in AllApps : WF_viewVars(Execute(a))
  /\ \A s \in Sleepers : WF_viewVars(RunSleeper(s))

-----------------------------------------------------------------------------
\* The algorithm can rely on the GPUs of a node without jobs: whatever it was told while
\* kernels started and ended, the last job to leave, whose kernels have all ended by then,
\* enters the node in the list, and no GPU changes after that (Gpu.cpp:18-28, Node.cpp:136).
\* It cannot once a job was killed, whose kernels go on changing the GPUs unlisted, nor can it
\* while a job runs.
GpusKnownAtRest == ~killed /\ running = {} => modified \/ told = gpuState
=============================================================================
