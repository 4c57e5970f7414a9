------------------------------ MODULE Scheduler ------------------------------
(***************************************************************************)
(* The Scheduler actor (system/Scheduler) and the part of                  *)
(* SchedulingInterface it calls.  The actor takes messages from its        *)
(* mailbox one at a time.  A handler runs without interruption except at   *)
(* its simcalls (creating or killing an actor, posting a message, locking  *)
(* a mutex), where the other actors may run; pc cuts each handler there:   *)
(*                                                                         *)
(*   idle --message--> invoke --> respond --> [answer -->] forward --> idle *)
(*                                                                         *)
(* invoke sends the modified jobs and nodes to the scheduling algorithm;   *)
(* respond applies its decisions, one job after the other; answer answers  *)
(* the job that is waiting at a scheduling point; forward starts and kills *)
(* the jobs of the response.  The algorithm is another process: it decides *)
(* on what it was sent (seen, seenNode), anything the constants allow.     *)
(***************************************************************************)
EXTENDS JobNode

CONSTANTS
  NoJob,                      \* "no job" in a message or a request
  Walltime,                   \* Walltime[j] : walltime of j is positive
  Iterations,                 \* Iterations[j] : loop iterations of all phases of j
  ScheduleOnSubmit,           \* schedule_on_job_submit
  ScheduleOnFinalize,         \* schedule_on_job_finalize
  ScheduleOnSchedulingPoint,  \* schedule_on_scheduling_point
  ScheduleOnReconfiguration,  \* schedule_on_reconfiguration
  MinInterval,                \* min_scheduling_interval is positive
  Allocations,                \* the node lists the algorithm may send
  MayKill,                    \* the jobs the algorithm may kill
  Careful                     \* it never sends nodes that another job has or is to have, nor
                              \* a node twice

ASSUME SchedulerConfiguration ==
  /\ NoJob \notin Jobs
  /\ Walltime \in [Jobs -> BOOLEAN]
  /\ Iterations \in [Jobs -> Nat \ {0}]
  /\ {ScheduleOnSubmit, ScheduleOnFinalize, ScheduleOnSchedulingPoint,
      ScheduleOnReconfiguration, MinInterval, Careful} \subseteq BOOLEAN
  /\ Allocations \subseteq Seq(Nodes)
  /\ MayKill \subseteq Jobs

VARIABLES
  mailbox,     \* mailbox "Scheduler"
  simMailbox,  \* mailbox "SimulationEngine"
  pc,          \* where the Scheduler actor is
  inv, req,    \* invocationType and requestingJob of Scheduler::schedule
  scheduled,   \* scheduledJobs, the jobs of the response still to be forwarded
  decided,     \* the jobs the response has named so far
  seen,        \* the state of each job as the algorithm was last told
  seenDone,    \* its completed phases, likewise
  seenNode,    \* the state and the running jobs of each node, likewise
  recent,      \* less than min_scheduling_interval since lastInvocation
  app,         \* the application actors of each job (see module Elastisim)
  monitor,     \* the WalltimeMonitor actor of each job
  done,        \* Workload::completedPhases of each job, counted in iterations
  fault,       \* how the process ended early: the xbt_die or the null pointer
  overtaken    \* history: jobs killed while a message of their application was queued

scheduleVars == <<pc, inv, req, scheduled, decided>>
viewVars == <<seen, seenDone, seenNode>>
actorVars == <<app, monitor, done>>

SchedMsg == [type : {"JOB_SUBMIT", "SCHEDULING_POINT", "EVOLVING_REQUEST",
                     "WALLTIME_EXCEEDED", "WORKLOAD_PROCESSED"}, job : Jobs]
            \cup [type : {"INVOKE_SCHEDULING", "SCHEDULER_FINALIZE"}, job : {NoJob}]

SimMsg == [type : {"SUBMIT_JOB", "JOB_COMPLETED", "JOB_KILLED"}, job : Jobs]
          \cup [type : {"NUMBER_OF_JOBS"}, job : {NoJob}]

InvocationTypes == {"INVOKE_PERIODIC", "INVOKE_JOB_SUBMIT", "INVOKE_JOB_COMPLETED",
                    "INVOKE_JOB_KILLED", "INVOKE_SCHEDULING_POINT",
                    "INVOKE_EVOLVING_REQUEST", "INVOKE_RECONFIGURATION"}

Waiting == {"INVOKE_SCHEDULING_POINT", "INVOKE_EVOLVING_REQUEST"}

Faults == {"none", "allocation", "reservation", "configuration", "null", "status"}

\* What the algorithm is told of a node, the states of its GPUs left out (see module GpuView).
NodeView == [state : NodeStates, running : SUBSET Jobs]

\* Where the actor is; a request it is to answer has a job.
ControlTypeOK ==
  /\ pc \in {"idle", "invoke", "respond", "answer", "forward", "finished"}
  /\ inv \in InvocationTypes \cup {"none"}
  /\ req \in Jobs \cup {NoJob}
  /\ pc \in {"invoke", "respond", "answer"} /\ inv \in Waiting => req \in Jobs
  /\ pc = "answer" => inv \in Waiting
  /\ scheduled \in Seq(Jobs)
  /\ decided \subseteq Jobs

ActorTypeOK ==
  /\ app \in [Jobs -> {"none", "starting", "first", "later"}]
  /\ monitor \in [Jobs -> {"none", "armed", "ended"}]
  /\ done \in [Jobs -> Int]

SchedulerTypeOK ==
  /\ ControlTypeOK
  /\ ActorTypeOK
  /\ mailbox \in Seq(SchedMsg)
  /\ simMailbox \in Seq(SimMsg)
  /\ seen \in [Jobs -> JobStates] /\ seenDone \in [Jobs -> Int]
  /\ seenNode \in [Nodes -> NodeView]
  /\ recent \in BOOLEAN
  /\ fault \in Faults
  /\ overtaken \subseteq Jobs

\* checkConfigurationValidity of the constructor is an assumption of module Elastisim.
SchedulerInit ==
  /\ mailbox = <<>>
  /\ simMailbox = <<>>
  /\ pc = "idle" /\ inv = "none" /\ req = NoJob
  /\ scheduled = <<>> /\ decided = {}
  /\ seen = [j \in Jobs |-> "PENDING_SUBMISSION"] /\ seenDone = [j \in Jobs |-> 0]
  /\ seenNode = [n \in Nodes |-> [state |-> "FREE", running |-> {}]]
  /\ recent = MinInterval
  /\ app = [j \in Jobs |-> "none"]
  /\ monitor = [j \in Jobs |-> "none"]
  /\ done = [j \in Jobs |-> 0]
  /\ fault = "none"
  /\ overtaken = {}

Message(type, j) == [type |-> type, job |-> j]

\* A message the application of j has posted (detached, so it outlives the application).
FromApp(m, j) ==
  m.job = j /\ m.type \in {"SCHEDULING_POINT", "EVOLVING_REQUEST", "WORKLOAD_PROCESSED"}

Queued(mb, m) == \E i \in DOMAIN mb : mb[i] = m

(* (Definitions named Wrong... are deliberate mistakes, see module JobNode.) *)

WrongCancelled(mb, m) == mb

\* The mailbox once the actor blocked in putting m has been killed.
Cancelled(mb, m) ==
  IF Queued(mb, m)
  THEN LET i == CHOOSE i \in DOMAIN mb : mb[i] = m
       IN  SubSeq(mb, 1, i - 1) \o SubSeq(mb, i + 1, Len(mb))
  ELSE mb

-----------------------------------------------------------------------------
(* Scheduler::schedule: the invocation, unless it comes too soon.          *)

Throttled == MinInterval /\ recent

Return == pc' = "idle" /\ inv' = "none" /\ req' = NoJob /\ UNCHANGED <<scheduled, decided>>

Schedule(wanted, type, j) ==
  IF wanted /\ ~Throttled
  THEN pc' = "invoke" /\ inv' = type /\ req' = j /\ UNCHANGED <<scheduled, decided>>
  ELSE Return

\* SchedulingInterface::invokeScheduling: tell the algorithm what changed.
Invoke ==
  /\ pc = "invoke"
  /\ pc' = "respond"
  /\ seen' = [j \in Jobs |-> IF j \in modifiedJobs THEN state[j] ELSE seen[j]]
  /\ seenDone' = [j \in Jobs |-> IF j \in modifiedJobs THEN done[j] ELSE seenDone[j]]
  /\ seenNode' = [n \in Nodes |->
                    IF n \in modifiedNodes
                    THEN [state |-> node[n].state, running |-> node[n].running]
                    ELSE seenNode[n]]
  /\ modifiedJobs' = {} /\ modifiedNodes' = {}
  /\ UNCHANGED <<state, assigned, executing, node, mailbox, simMailbox, inv, req,
                 scheduled, decided, recent, actorVars, fault, overtaken>>

-----------------------------------------------------------------------------
(* SchedulingInterface::handleSchedule: the decisions of the algorithm.    *)

\* The job at its scheduling point is about to leave node n.
Leaves(n) ==
  /\ inv \in Waiting
  /\ n \notin Assigned(req)
  /\ req \in decided \/ seen[req] = "PENDING_RECONFIGURATION"

\* The nodes that a careful algorithm does not send for j: those it has sent for another
\* job in this response, and those it sees allocated or reserved, unless j itself has them
\* or is to have them, or j is still to start and the waiting job leaves them.
Taken(j) ==
  (UNION {Assigned(i) : i \in decided \ {j}})
  \cup {n \in Nodes :
          /\ seenNode[n].state # "FREE"
          /\ j \notin seenNode[n].running /\ n \notin Assigned(j)
          /\ ~ (seen[j] = "PENDING" /\ seenNode[n].running = {req} /\ Leaves(n))}

\* What the algorithm may ask for: a start, or new nodes for an elastic job.
MaySend(j, q) ==
  /\ \/ seen[j] = "PENDING"
     \/ /\ seen[j] \in {"RUNNING", "PENDING_RECONFIGURATION", "IN_RECONFIGURATION"}
        /\ Type[j] \in Elastic
  /\ ValidConfiguration(j, q)
  /\ Careful => IsInjective(q) /\ Range(q) \cap Taken(j) = {}

Live(s) == s \notin Final \cup {"PENDING_SUBMISSION"}

WrongNamed(j) ==
  /\ decided' = decided \cup {j}
  /\ scheduled' = IF state[j] = "PENDING" THEN Append(scheduled, j) ELSE scheduled

Named(j) == decided' = decided \cup {j} /\ scheduled' = Append(scheduled, j)

DecideNodes(j, q) ==
  /\ pc = "respond" /\ j \notin decided
  /\ MaySend(j, q)
  /\ IF MayAssign(j, q)
     THEN Assign(j, q) /\ Named(j) /\ UNCHANGED fault
     ELSE fault' = "reservation" /\ UNCHANGED <<jobVars, nodeVars, scheduled, decided>>
  /\ UNCHANGED <<mailbox, simMailbox, pc, inv, req, viewVars, recent, actorVars, overtaken>>

DecideKill(j) ==
  /\ pc = "respond" /\ j \notin decided
  /\ j \in MayKill /\ Live(seen[j])
  /\ SetState(j, "PENDING_KILL")
  /\ Named(j)
  /\ UNCHANGED <<assigned, nodeVars, mailbox, simMailbox, pc, inv, req, viewVars,
                 recent, actorVars, fault, overtaken>>

WrongEndResponse ==
  /\ pc = "respond"
  /\ pc' = "forward"
  /\ UNCHANGED <<jobVars, nodeVars, mailbox, simMailbox, inv, req, scheduled, decided,
                 viewVars, recent, actorVars, fault, overtaken>>

EndResponse ==
  /\ pc = "respond"
  /\ pc' = IF inv \in Waiting THEN "answer" ELSE "forward"
  /\ UNCHANGED <<jobVars, nodeVars, mailbox, simMailbox, inv, req, scheduled, decided,
                 viewVars, recent, actorVars, fault, overtaken>>

-----------------------------------------------------------------------------
(* What the decisions lead to.                                             *)

\* There is no actor to kill: the monitor of a job that was never started, or the
\* application on a node that the job has twice, which Node::killJob erases the first time.
NoActor(j, exceededWalltime) ==
  \/ Walltime[j] /\ ~exceededWalltime /\ monitor[j] = "none"
  \/ ~IsInjective(executing[j])

\* forwardJobKill, mb being the mailbox as the handler found it.  Killing an actor that
\* is not there dereferences a null pointer.
ForwardJobKill(j, exceededWalltime, mb) ==
  IF NoActor(j, exceededWalltime)
  THEN /\ fault' = "null"
       /\ mailbox' = mb
       /\ UNCHANGED <<jobVars, nodeVars, simMailbox, actorVars, overtaken>>
  ELSE /\ node' = NodesAfterSetState(Complete(node, Executing(j), j), j, "KILLED")
       /\ modifiedNodes' = modifiedNodes \cup Executing(j)
                             \cup NodesTouchedBySetState(j, "KILLED")
       /\ SetState(j, "KILLED")
       /\ app' = [app EXCEPT ![j] = "none"]
       /\ IF Walltime[j] /\ ~exceededWalltime
          THEN /\ monitor' = [monitor EXCEPT ![j] = "ended"]
               /\ mailbox' = Cancelled(mb, Message("WALLTIME_EXCEEDED", j))
          ELSE mailbox' = mb /\ UNCHANGED monitor
       /\ simMailbox' = Append(simMailbox, Message("JOB_KILLED", j))
       /\ overtaken' = IF \E i \in DOMAIN mb : FromApp(mb[i], j)
                       THEN overtaken \cup {j} ELSE overtaken
       /\ UNCHANGED <<assigned, done, fault>>

\* forwardJobAllocation, with Node::allocateJob on every node of the job.  (Where a job has a
\* node twice, it has two applications there; app stands for all of them.)
ForwardJobAllocation(j) ==
  IF MayAllocateAll(node, assigned[j])
  THEN /\ SetState(j, "RUNNING")
       /\ node' = Allocate(node, Assigned(j), j)
       /\ modifiedNodes' = modifiedNodes \cup Assigned(j)
       /\ app' = [app EXCEPT ![j] = "starting"]
       /\ monitor' = IF Walltime[j] THEN [monitor EXCEPT ![j] = "armed"] ELSE monitor
       /\ UNCHANGED <<assigned, done, fault>>
  ELSE fault' = "allocation" /\ UNCHANGED <<jobVars, nodeVars, actorVars>>

\* handleReconfiguration: reconfigureJob on the nodes j keeps, expandJob on those it
\* gains (no check here, unlike allocateJob), completeJob on those it leaves.
HandleReconfiguration(j) ==
  LET gained == Assigned(j) \ Executing(j)
      left == Executing(j) \ Assigned(j)
      unreserved == NodesAfterSetState(node, j, "IN_RECONFIGURATION")
  IN  /\ SetState(j, "IN_RECONFIGURATION")
      /\ node' = Complete(Allocate(unreserved, gained, j), left, j)
      /\ modifiedNodes' = modifiedNodes \cup Assigned(j) \cup left
      /\ app' = [app EXCEPT ![j] = "starting"]
      /\ UNCHANGED <<assigned, monitor, done>>

WrongContinue(j) == UNCHANGED <<jobVars, nodeVars, actorVars>>

\* Node::continueJob on every node of j: its application starts once more.
Continue(j) ==
  /\ app' = IF executing[j] = <<>> THEN app ELSE [app EXCEPT ![j] = "starting"]
  /\ UNCHANGED <<jobVars, nodeVars, monitor, done>>

\* The answer to the job that has asked and waits.
Answer ==
  /\ pc = "answer"
  /\ pc' = "forward"
  /\ CASE state[req] = "PENDING_KILL" -> ForwardJobKill(req, FALSE, mailbox)
       [] state[req] = "PENDING_RECONFIGURATION" ->
            /\ HandleReconfiguration(req)
            /\ UNCHANGED <<mailbox, simMailbox, fault, overtaken>>
       [] OTHER -> Continue(req) /\ UNCHANGED <<mailbox, simMailbox, fault, overtaken>>
  /\ UNCHANGED <<inv, req, scheduled, decided, viewVars, recent>>

\* The loop over scheduledJobs: one job.
Forward ==
  /\ pc = "forward" /\ scheduled # <<>>
  /\ scheduled' = Tail(scheduled)
  /\ LET j == Head(scheduled)
     IN CASE state[j] = "PENDING_ALLOCATION" ->
               ForwardJobAllocation(j) /\ UNCHANGED <<mailbox, simMailbox, overtaken>>
          [] state[j] = "PENDING_KILL" -> ForwardJobKill(j, FALSE, mailbox)
          [] OTHER -> UNCHANGED <<jobVars, nodeVars, mailbox, simMailbox, actorVars,
                                  fault, overtaken>>
  /\ UNCHANGED <<pc, inv, req, decided, viewVars, recent>>

EndSchedule ==
  /\ pc = "forward" /\ scheduled = <<>>
  /\ pc' = "idle" /\ inv' = "none" /\ req' = NoJob /\ decided' = {}
  /\ recent' = MinInterval
  /\ UNCHANGED <<jobVars, nodeVars, mailbox, simMailbox, scheduled, viewVars, actorVars,
                 fault, overtaken>>

-----------------------------------------------------------------------------
(* The messages.                                                           *)

Received(type, j) ==
  /\ pc = "idle"
  /\ mailbox # <<>> /\ Head(mailbox) = Message(type, j)

HandleInvoke ==
  /\ Received("INVOKE_SCHEDULING", NoJob)
  /\ mailbox' = Tail(mailbox)
  /\ Schedule(TRUE, "INVOKE_PERIODIC", NoJob)
  /\ UNCHANGED <<jobVars, nodeVars, simMailbox, viewVars, recent, actorVars, fault, overtaken>>

HandleJobSubmit(j) ==
  /\ Received("JOB_SUBMIT", j)
  /\ mailbox' = Tail(mailbox)
  /\ SetState(j, "PENDING")
  /\ Schedule(ScheduleOnSubmit, "INVOKE_JOB_SUBMIT", j)
  /\ UNCHANGED <<assigned, nodeVars, simMailbox, viewVars, recent, actorVars, fault, overtaken>>

HandleSchedulingPoint(j) ==
  /\ Received("SCHEDULING_POINT", j)
  /\ mailbox' = Tail(mailbox)
  /\ IF ScheduleOnSchedulingPoint
     THEN /\ Schedule(TRUE, "INVOKE_SCHEDULING_POINT", j)
          /\ UNCHANGED <<jobVars, nodeVars, actorVars>>
     ELSE IF state[j] = "PENDING_RECONFIGURATION"
     THEN /\ HandleReconfiguration(j)
          /\ Schedule(ScheduleOnReconfiguration, "INVOKE_RECONFIGURATION", j)
     ELSE Continue(j) /\ Return
  /\ UNCHANGED <<simMailbox, viewVars, recent, fault, overtaken>>

HandleEvolvingRequest(j) ==
  /\ Received("EVOLVING_REQUEST", j)
  /\ mailbox' = Tail(mailbox)
  /\ Schedule(TRUE, "INVOKE_EVOLVING_REQUEST", j)
  /\ UNCHANGED <<jobVars, nodeVars, simMailbox, viewVars, recent, actorVars, fault, overtaken>>

HandleWalltimeExceeded(j) ==
  /\ Received("WALLTIME_EXCEEDED", j)
  /\ ForwardJobKill(j, TRUE, Tail(mailbox))
  /\ Schedule(ScheduleOnFinalize, "INVOKE_JOB_KILLED", j)
  /\ UNCHANGED <<viewVars, recent>>

HandleProcessedWorkload(j) ==
  /\ Received("WORKLOAD_PROCESSED", j)
  /\ done' = [done EXCEPT ![j] = Iterations[j]]
  /\ node' = NodesAfterSetState(Complete(node, Executing(j), j), j, "COMPLETED")
  /\ modifiedNodes' = modifiedNodes \cup Executing(j) \cup NodesTouchedBySetState(j, "COMPLETED")
  /\ SetState(j, "COMPLETED")
  /\ IF Walltime[j]
     THEN /\ monitor' = [monitor EXCEPT ![j] = "ended"]
          /\ mailbox' = Cancelled(Tail(mailbox), Message("WALLTIME_EXCEEDED", j))
     ELSE mailbox' = Tail(mailbox) /\ UNCHANGED monitor
  /\ simMailbox' = Append(simMailbox, Message("JOB_COMPLETED", j))
  /\ Schedule(ScheduleOnFinalize, "INVOKE_JOB_COMPLETED", j)
  /\ UNCHANGED <<assigned, viewVars, recent, app, fault, overtaken>>

HandleFinalize ==
  /\ Received("SCHEDULER_FINALIZE", NoJob)
  /\ mailbox' = Tail(mailbox)
  /\ pc' = "finished"
  /\ UNCHANGED <<jobVars, nodeVars, simMailbox, inv, req, scheduled, decided, viewVars,
                 recent, actorVars, fault, overtaken>>

HandleMessage ==
  \/ HandleInvoke
  \/ \E j \in Jobs :
       \/ HandleJobSubmit(j)
       \/ HandleSchedulingPoint(j)
       \/ HandleEvolvingRequest(j)
       \/ HandleWalltimeExceeded(j)
       \/ HandleProcessedWorkload(j)
  \/ HandleFinalize

Respond ==
  \/ \E j \in Jobs : DecideKill(j) \/ \E q \in Allocations : DecideNodes(j, q)
  \/ EndResponse

SchedulerNext ==
  /\ fault = "none"
  /\ HandleMessage \/ Invoke \/ Respond \/ Answer \/ Forward \/ EndSchedule
=============================================================================
