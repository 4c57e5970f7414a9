------------------------------ MODULE Elastisim ------------------------------
(***************************************************************************)
(* The simulated batch system: the Scheduler actor composed with the       *)
(* actors around it.  SimGrid runs actors one at a time and switches at    *)
(* simcalls, so a step of an actor is an action.                           *)
(*                                                                         *)
(*   JobSubmitter      sends the jobs to SimulationEngine, in any order of *)
(*                     submission times                                    *)
(*   SimulationEngine  forwards them, counts the jobs that end, finalizes  *)
(*   Application       all ranks of one job as one actor: module           *)
(*                     Application models the ranks and implements this    *)
(*   WalltimeMonitor   one per started job with a walltime                 *)
(*   PeriodicInvoker   posts INVOKE_SCHEDULING                             *)
(*                                                                         *)
(* An actor that is blocked in put waits until its message is received:    *)
(* what it does next is guarded by the message having left the mailbox.    *)
(***************************************************************************)
EXTENDS Scheduler

CONSTANTS
  Periodic      \* scheduling_interval is positive

\* Scheduler::checkConfigurationValidity: the algorithm is invoked one way or the other.
IsInvoked == Periodic \/ (ScheduleOnSubmit /\ ScheduleOnFinalize)

ASSUME ElastisimConfiguration ==
  /\ Periodic \in BOOLEAN
  /\ IsInvoked
  /\ IsFiniteSet(Jobs)

VARIABLES
  left,          \* iterations of each job's workload still to do
  submitted,     \* the jobs JobSubmitter has sent
  engine,        \* where SimulationEngine is
  expectedJobs,  \* its counter of unfinished jobs
  registered     \* its vector of jobs

engineVars == <<submitted, engine, expectedJobs, registered>>

vars == <<jobVars, nodeVars, mailbox, simMailbox, scheduleVars, viewVars, recent,
          actorVars, fault, overtaken, left, engineVars>>

TypeOK ==
  /\ JobNodeTypeOK
  /\ SchedulerTypeOK
  /\ left \in [Jobs -> Nat]
  /\ submitted \subseteq Jobs
  /\ registered \subseteq Jobs
  /\ engine \in {"waiting", "running", "finalizing", "done"}
  /\ expectedJobs \in Int

Init ==
  /\ JobInit
  /\ NodeInit
  /\ SchedulerInit
  /\ left = Iterations
  /\ submitted = {} /\ registered = {}
  /\ engine = "waiting"
  /\ expectedJobs = 0

passive == <<jobVars, nodeVars>>
schedulerOnly == <<scheduleVars, viewVars, recent, overtaken>>

-----------------------------------------------------------------------------
(* Application, all ranks of job j together.                               *)

\* The barrier after the one-time phases, then rank 0 sets the job running.
AppStarts(j) ==
  /\ app[j] = "starting"
  /\ SetState(j, "RUNNING")
  /\ app' = [app EXCEPT ![j] = "first"]
  /\ UNCHANGED <<assigned, nodeVars, mailbox, monitor, done, left>>

AppIterates(j) ==
  /\ app[j] \in {"first", "later"}
  /\ left[j] > 1
  /\ left' = [left EXCEPT ![j] = @ - 1]
  /\ app' = [app EXCEPT ![j] = "later"]
  /\ UNCHANGED <<passive, mailbox, monitor, done>>

(* (Definitions named Wrong... are deliberate mistakes, see module JobNode.) *)

WrongAppCompletes(j) ==
  /\ app[j] \in {"first", "later"}
  /\ left[j] = 1
  /\ left' = [left EXCEPT ![j] = @ - 2]
  /\ app' = [app EXCEPT ![j] = "none"]
  /\ mailbox' = Append(mailbox, Message("WORKLOAD_PROCESSED", j))
  /\ UNCHANGED <<passive, monitor, done>>

\* The last iteration.
AppCompletes(j) ==
  /\ app[j] \in {"first", "later"}
  /\ left[j] = 1
  /\ left' = [left EXCEPT ![j] = 0]
  /\ app' = [app EXCEPT ![j] = "none"]
  /\ mailbox' = Append(mailbox, Message("WORKLOAD_PROCESSED", j))
  /\ UNCHANGED <<passive, monitor, done>>

\* The requests a job of this type can make, never before its first iteration.
Requests(j) ==
  (IF Type[j] \in {"MALLEABLE", "ADAPTIVE"} THEN {"SCHEDULING_POINT"} ELSE {})
  \cup (IF Type[j] \in {"EVOLVING", "ADAPTIVE"} THEN {"EVOLVING_REQUEST"} ELSE {})

\* A request, after Job::advanceWorkload, which enters the job in no list.
AppRequests(j, type) ==
  /\ app[j] = "later"
  /\ type \in Requests(j)
  /\ mailbox' = Append(mailbox, Message(type, j))
  /\ app' = [app EXCEPT ![j] = "none"]
  /\ done' = [done EXCEPT ![j] = Iterations[j] - left[j]]
  /\ UNCHANGED <<passive, monitor, left>>

Application(j) ==
  /\ fault = "none"
  /\ \/ AppStarts(j)
     \/ AppIterates(j)
     \/ AppCompletes(j)
     \/ \E type \in {"SCHEDULING_POINT", "EVOLVING_REQUEST"} : AppRequests(j, type)
  /\ UNCHANGED <<schedulerOnly, simMailbox, fault, engineVars>>

-----------------------------------------------------------------------------
(* WalltimeMonitor and PeriodicInvoker.                                    *)

\* The walltime and the grace period are over: at any time after the start.
WalltimeExceeded(j) ==
  /\ fault = "none"
  /\ monitor[j] = "armed"
  /\ monitor' = [monitor EXCEPT ![j] = "ended"]
  /\ mailbox' = Append(mailbox, Message("WALLTIME_EXCEEDED", j))
  /\ UNCHANGED <<passive, schedulerOnly, simMailbox, app, done, fault, left, engineVars>>

InvokePeriodically ==
  /\ fault = "none"
  /\ Periodic
  /\ pc # "finished"
  /\ ~Queued(mailbox, Message("INVOKE_SCHEDULING", NoJob))
  /\ mailbox' = Append(mailbox, Message("INVOKE_SCHEDULING", NoJob))
  /\ UNCHANGED <<passive, schedulerOnly, simMailbox, actorVars, fault, left, engineVars>>

\* Time passes until min_scheduling_interval is over.
IntervalElapses ==
  /\ fault = "none"
  /\ recent
  /\ recent' = FALSE
  /\ UNCHANGED <<passive, mailbox, simMailbox, scheduleVars, viewVars, actorVars, fault,
                 overtaken, left, engineVars>>

-----------------------------------------------------------------------------
(* JobSubmitter and SimulationEngine.                                      *)

Submitting == \E i \in DOMAIN simMailbox : simMailbox[i].type \in {"SUBMIT_JOB", "NUMBER_OF_JOBS"}

SendNumberOfJobs ==
  /\ engine = "waiting" /\ ~Submitting
  /\ simMailbox' = Append(simMailbox, Message("NUMBER_OF_JOBS", NoJob))
  /\ UNCHANGED <<mailbox, engineVars>>

SubmitJob(j) ==
  /\ engine # "waiting" /\ ~Submitting
  /\ j \notin submitted
  /\ submitted' = submitted \cup {j}
  /\ simMailbox' = Append(simMailbox, Message("SUBMIT_JOB", j))
  /\ UNCHANGED <<mailbox, engine, expectedJobs, registered>>

SimReceived(type, j) == simMailbox # <<>> /\ Head(simMailbox) = Message(type, j)

ReceiveNumberOfJobs ==
  /\ engine = "waiting"
  /\ SimReceived("NUMBER_OF_JOBS", NoJob)
  /\ simMailbox' = Tail(simMailbox)
  /\ engine' = "running"
  /\ expectedJobs' = Cardinality(Jobs)
  /\ UNCHANGED <<mailbox, submitted, registered>>

\* The engine is in its loop and not blocked in putting a JOB_SUBMIT message.
Looping ==
  /\ engine = "running" /\ expectedJobs > 0
  /\ \A j \in Jobs : ~Queued(mailbox, Message("JOB_SUBMIT", j))

ReceiveJob(j) ==
  /\ Looping
  /\ SimReceived("SUBMIT_JOB", j)
  /\ simMailbox' = Tail(simMailbox)
  /\ registered' = registered \cup {j}
  /\ mailbox' = Append(mailbox, Message("JOB_SUBMIT", j))
  /\ UNCHANGED <<submitted, engine, expectedJobs>>

WrongReceiveEnd(type, j) ==
  /\ Looping
  /\ SimReceived(type, j)
  /\ simMailbox' = Tail(simMailbox)
  /\ expectedJobs' = IF type = "JOB_COMPLETED" THEN expectedJobs - 1 ELSE expectedJobs
  /\ UNCHANGED <<mailbox, submitted, engine, registered>>

ReceiveEnd(type, j) ==
  /\ Looping
  /\ SimReceived(type, j)
  /\ simMailbox' = Tail(simMailbox)
  /\ expectedJobs' = expectedJobs - 1
  /\ UNCHANGED <<mailbox, submitted, engine, registered>>

SendFinalize ==
  /\ engine = "running" /\ expectedJobs = 0
  /\ engine' = "finalizing"
  /\ mailbox' = Append(mailbox, Message("SCHEDULER_FINALIZE", NoJob))
  /\ UNCHANGED <<simMailbox, submitted, expectedJobs, registered>>

\* The job statistics, which know only final states.
WriteStatistics ==
  /\ engine = "finalizing"
  /\ ~Queued(mailbox, Message("SCHEDULER_FINALIZE", NoJob))
  /\ engine' = "done"
  /\ fault' = IF \E j \in registered : state[j] \notin Final THEN "status" ELSE fault
  /\ UNCHANGED <<mailbox, simMailbox, submitted, expectedJobs, registered>>

JobSubmitter == SendNumberOfJobs \/ \E j \in Jobs : SubmitJob(j)

SimulationEngine ==
  \/ ReceiveNumberOfJobs
  \/ \E j \in Jobs : ReceiveJob(j) \/ \E type \in {"JOB_COMPLETED", "JOB_KILLED"} : ReceiveEnd(type, j)
  \/ SendFinalize

Simulation ==
  /\ fault = "none"
  /\ \/ (JobSubmitter \/ SimulationEngine) /\ UNCHANGED fault
     \/ WriteStatistics
  /\ UNCHANGED <<passive, schedulerOnly, actorVars, left>>

-----------------------------------------------------------------------------
Scheduling == SchedulerNext /\ UNCHANGED <<left, engineVars>>

Next ==
  \/ Scheduling
  \/ \E j \in Jobs : Application(j) \/ WalltimeExceeded(j)
  \/ InvokePeriodically
  \/ IntervalElapses
  \/ Simulation

Spec == Init /\ [][Next]_vars

\* Every actor that can take a step takes one in the end (SimGrid runs all of them before
\* time advances), and the algorithm answers.  Nothing makes it schedule a job, and no
\* walltime need be exceeded.
Fairness ==
  /\ WF_vars(Scheduling)
  /\ WF_vars(Simulation)
  /\ WF_vars(IntervalElapses)
  /\ \A j \in Jobs : WF_vars(Application(j))

FairSpec == Spec /\ Fairness

-----------------------------------------------------------------------------
(* Properties.  The race of a kill with a queued message of the killed job *)
(* (overtaken) breaks most of what follows, see run walltime_race; the     *)
(* other properties are about the runs, and the parts of runs, without it. *)

Undisturbed == overtaken = {}

\* The job has been started and has not ended.
Active(j) ==
  \/ state[j] \in {"RUNNING", "PENDING_RECONFIGURATION", "IN_RECONFIGURATION"}
  \/ state[j] = "PENDING_KILL" /\ executing[j] # <<>>

\* The scheduler holds the request of j and has not answered it yet.
Asking(j) == pc \in {"invoke", "respond", "answer"} /\ inv \in Waiting /\ req = j

AppMessages(j) == {i \in DOMAIN mailbox : FromApp(mailbox[i], j)}

\* The places where the thread of control of job j may be.
Continuations(j) ==
  Cardinality(AppMessages(j)) + (IF app[j] # "none" THEN 1 ELSE 0)
    + (IF Asking(j) THEN 1 ELSE 0)

\* What the algorithm was last told of the state of a job, or of the state and the running
\* jobs of a node, is so, unless the job or node is in the list of what it will be told next:
\* PlatformManager's lists miss no change of these by any actor.  (They do miss others: see
\* ProgressCurrent, and module GpuView for the GPUs.)
StatesCurrent ==
  /\ \A j \in Jobs : j \in modifiedJobs \/ seen[j] = state[j]
  /\ \A n \in Nodes : \/ n \in modifiedNodes
                      \/ seenNode[n] = [state |-> node[n].state, running |-> node[n].running]

\* The algorithm learns late of the work that a job has done: a job that goes on or has ended
\* is in the list of what it will be told next, or it knows; only of a job that stands at its
\* scheduling point, the one it is asked about, it may be told nothing (Job.cpp:197).
ProgressCurrent ==
  \A j \in Jobs :
    app[j] \in {"first", "later"} \/ state[j] \in Final =>
      j \in modifiedJobs \/ seenDone[j] = done[j]

\* A decision to start or to kill a job is carried out, or lost, before the scheduler takes
\* its next message: none stays behind in the state of the job (Scheduler.cpp:60).
DecisionsForwarded ==
  \A j \in Jobs :
    state[j] \in {"PENDING_ALLOCATION", "PENDING_KILL"} =>
      fault # "none" \/ (pc \in {"respond", "answer", "forward"} /\ j \in Range(scheduled))

\* A job that "continue[s] without reconfiguration" (Scheduler.cpp:53) has the nodes that the
\* algorithm wants it to have.
ContinuesAsAssigned ==
  Undisturbed /\ pc = "answer" /\ state[req] = "RUNNING" => assigned[req] = executing[req]

\* min_scheduling_interval cannot drop the request that j waits on (where it can, the job
\* never goes on).
Answered(j) ==
  \/ ~MinInterval
  \/ ~ScheduleOnSchedulingPoint /\ Type[j] \notin {"EVOLVING", "ADAPTIVE"}

\* An active job goes on in exactly one place: its application runs, or one message of it
\* is queued, or the scheduler is about to answer it.  None is answered twice, none is
\* forgotten, and a job that is not active goes on nowhere.
OneContinuation ==
  Undisturbed /\ fault = "none" =>
    \A j \in Jobs : Answered(j) => Continuations(j) = IF Active(j) THEN 1 ELSE 0

\* Node::runningJobs are the active jobs with the node in their executing nodes: every
\* allocation, expansion, release and kill reaches both sides.
Occupied ==
  Undisturbed => \A n \in Nodes : node[n].running = {j \in Jobs : Active(j) /\ n \in Executing(j)}

\* A node expects only jobs that are to have it and have not ended, and every node of a
\* decided reconfiguration expects its job: no reservation leaks, none is missing.
Reservations ==
  \A j \in Jobs : \A n \in Nodes :
    /\ j \in node[n].expected => n \in Assigned(j) /\ state[j] \notin Final
    /\ state[j] = "PENDING_RECONFIGURATION" /\ n \in Assigned(j) => j \in node[n].expected

\* The state of a node, updated in five operations, is a function of its two sets of jobs;
\* with oversubscription a node that is expected may be shown free, but not a node in use.
NodeStateHonest ==
  Undisturbed =>
    \A n \in Nodes :
      /\ node[n].state = "ALLOCATED" <=> node[n].running # {}
      /\ node[n].state = "RESERVED" => node[n].expected # {}
      /\ ~AllowOversubscription /\ node[n].expected # {} => node[n].state # "FREE"

\* With a careful algorithm no check of the simulator fails; the one way to end early is
\* to kill a job with a walltime that was never started.
NoAbort ==
  /\ Undisturbed => fault \in {"none", "null"}
  /\ fault = "null" => \E j \in MayKill : Walltime[j] /\ executing[j] = <<>>

\* SimulationEngine counts every end of a job exactly once.
Accounting ==
  Undisturbed /\ engine \in {"running", "finalizing", "done"} =>
    expectedJobs = Cardinality({j \in Jobs : state[j] \notin Final})
      + Cardinality({i \in DOMAIN simMailbox : simMailbox[i].type \in {"JOB_COMPLETED", "JOB_KILLED"}})

\* A walltime that is running or reported belongs to an active job: ending a job stops its
\* monitor, and takes back what the monitor has already posted, whatever kill comes when.
WalltimeOfActive ==
  \A j \in Jobs :
    monitor[j] = "armed" \/ Queued(mailbox, Message("WALLTIME_EXCEEDED", j)) => Active(j)

\* A job that has completed or was killed stays so.
FinalIsFinal ==
  [][\A j \in Jobs : state[j] \in Final /\ Undisturbed => state'[j] = state[j]]_vars

\* The statistics never meet a job that has not ended (SimulationEngine.cpp:131).
ValidFinalStatus == fault # "status"

\* A job that was started ends, whatever the algorithm decides.
StartedJobsEnd ==
  \A j \in Jobs : (Active(j) /\ Undisturbed /\ fault = "none")
                  ~> (state[j] \in Final \/ ~Undisturbed \/ fault # "none")

\* When all jobs have ended, the engine notices and the simulation ends.
SimulationEnds ==
  (\A j \in Jobs : state[j] \in Final)
    ~> ((engine = "done" /\ pc = "finished") \/ ~Undisturbed \/ fault # "none")
=============================================================================
