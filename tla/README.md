# ElastiSim in TLA+

ElastiSim simulates a batch system for malleable and evolving jobs: jobs arrive, a
scheduling algorithm in another process decides on them over ZeroMQ, and SimGrid
advances simulated time while the jobs' tasks load CPUs, GPUs, links and disks. The
program is a set of SimGrid actors that exchange messages; almost everything that can go
wrong in it is an *order* of messages, kills and decisions. This directory models that
part of the program in TLA+, checks it with TLC on small instances and proves with TLAPS what
holds for every workload and platform: all but two of the checked safety properties, the safety
core of the liveness properties, and that the detailed modules implement the abstract ones.

Paths below are relative to `src/` of the repository's C++ tree, so `system/Scheduler.cpp`
is the file of that name next to `software/`, `tasks/`, `interface/` and `util/`.

## 1. Inventory

| component | state | operations | interacts with |
|---|---|---|---|
| Scheduler actor (`system/Scheduler`) | its mailbox, the walltime monitors, `lastInvocation` | one handler per message (`INVOKE_SCHEDULING`, `JOB_SUBMIT`, `SCHEDULING_POINT`, `EVOLVING_REQUEST`, `WALLTIME_EXCEEDED`, `WORKLOAD_PROCESSED`, `SCHEDULER_FINALIZE`); `schedule`, `forwardJobAllocation`, `forwardJobKill`, `handleReconfiguration` | calls the scheduling interface, nodes and jobs; posts to the engine |
| Scheduling interface (`interface/SchedulingInterface`) | the socket | `invokeScheduling`, `handleSchedule` | sends the modified objects to the algorithm, applies its decisions to jobs |
| Job (`software/Job`) | state, assigned and executing nodes, arguments | `setState`, `updateState`, `assignNode`, `clearAssignedNodes`, evolving requests | reserves nodes, enters itself in the modified list |
| Node (`system/Node`) | state, running and expected jobs, flags and actors per job, GPUs, GPU link | `allocateJob`, `continueJob`, `reconfigureJob`, `expandJob`, `completeJob`, `killJob`, `expectJob`, `removeExpectedJob`; GPU execution | creates and kills Application actors |
| Platform manager (`system/PlatformManager`) | lists of modified jobs and nodes | add, clear | read by the scheduling interface |
| Simulation engine (`system/SimulationEngine`) | its mailbox, the counter of unfinished jobs, the job list | forward submissions, count ends, finalize, write statistics | Job submitter, Scheduler |
| Job submitter, periodic invoker, walltime monitors | – | post, then wait until the message is taken | engine, Scheduler |
| Application (`software/Application`) | one actor per node of a job; place in the loop | one-time phases, iterations, requests, barriers | Workload; rank 0 posts to the Scheduler |
| Workload, Phase (`software/`) | the phases still to do, the sizes of their tasks | `advance`, iterate, `scaleTo` of each kind of phase | Application; scaled by the job |
| GPUs (`system/Gpu`, `tasks/AsyncSleep`, `tasks/CombinedGpuTask`) | GPU state, a mutex per GPU and one for the link, callbacks | allocate, deallocate, transfer | Node, actors that outlive the application |
| Patterns (`util/Utility`, `tasks/*`) | none | spread sizes over ranks, messages over pairs | tasks |
| Execution of tasks (`tasks/*`, `SequenceTask`, loops of `Application`) | the activities a rank has started, the barrier | `execute`, `executeAsync`, `waitForAsyncActivities` | SimGrid activities; the other ranks at the barrier |
| Reading of input (`util/Utility`, task constructors) | none | accept or reject a workload, size the tasks of rigid jobs | Job |
| Performance models (`util/Utility`) | none | replace names in the text of a formula, evaluate it | reading, `scaleTo`, evolving requests |
| Start-up, Sensing | none that others see | create actors, write figures | – |

**What is hard.** SimGrid runs one actor at a time and switches only at simcalls, so there
are no data races, but every simcall inside a handler is a place where other actors run:

* *Messages against kills.* An application posts its messages detached, they outlive it; a
  walltime monitor posts blocking, so killing it takes its message back.
* *Decisions against progress.* Between the algorithm's answer and its effect the job goes
  on, asks, ends or changes its state; rank 0 sets the job `RUNNING` whatever the
  scheduler has decided.
* *Two-sided bookkeeping.* Which nodes a job has is kept in the job (assigned, executing),
  in the node (running, expected, state) and in what the algorithm was told; six
  operations update some of them.
* *Continuation passing.* A malleable job at a scheduling point has no actor left. It goes
  on only if exactly one path through `schedule` answers it.
* *Barriers.* All ranks of a job meet at barriers whose size follows from the node lists;
  per-node flags decide which ranks execute which one-time phase.
* *Dropping.* `min_scheduling_interval` drops invocations.
* *Sizes against ranks.* A vector of shares is computed when a job is configured and indexed
  with the ranks that execute it later. Four kinds of phases are scaled on three occasions;
  gained nodes execute other phases than retained ones.
* *Late validation.* For a rigid job a wrong model is found when it is read; for any other it
  ends the whole simulation when the job is scaled: a formula with a name of the run-time
  arguments at any scaling for which they lack it.
* *Views.* The algorithm sees a job or node as it was when it was last listed as modified.
  `toJson` also sends what changes without a listing: progress, and the states of GPUs.
* *Names within names.* A formula is a text in which names are replaced one after the other,
  and `num_gpus` occurs in `num_gpus_per_node`.

**What makes each component correct.**

| component | properties |
|---|---|
| Scheduler, interface | every active job continues in exactly one place; every decision is carried out; the algorithm's view misses nothing; a final state is final |
| Job, Node | running sets, reservations and node states agree with the jobs' lists; no two jobs on a node; reservations never leak |
| Engine | every end is counted once; the simulation ends; statistics see final jobs only |
| Walltime monitors | only active jobs have one |
| Application, Workload | ranks meet in the same place; no iteration lost or repeated; one-time phases on the right nodes; no use of freed phases; nobody waits for a rank that has left; the job reports |
| Reading, `scaleTo` | what ranks execute was sized for those ranks, their GPUs and one set of arguments; an accepted workload fails late only where it must |
| Performance models | each name gets its own value; only unknown names make a formula invalid |
| Execution of tasks | all ranks take part in a transfer; a sequence contains its asynchronous activities; nothing outlives the reported end |
| GPUs | state agrees with use, and the algorithm knows it where it can; a task ends with its own transfer; every task ends and leaves nothing behind |
| Patterns | totals, symmetry, no self-messages |

## 2. Modules

```
JobNode ── Scheduler ── Elastisim ─┬─ ElastisimRefinement ── MCElastisim
                                   │        └ INSTANCE BatchSystem
                                   └─ ElastisimProofs ── UndisturbedProofs ── CarefulProofs
                                                              (which extends the refinement, too)
Application ─┬─ MCApplication            Tasks ─┬─ MCTasks        Gpu ── GpuView ─┬─ MCGpu
 │           └─ ApplicationProofs               └─ TasksProofs                   └─ GpuProofs
 └ INSTANCE JobThread                    Scaling ─┬─ MCScaling    Formulas ── MCFormulas
                                                  └─ ScalingProofs
Patterns ── MCPatterns ── PatternsProofs
```

**`JobNode`** holds the passive objects. `node[n]` is a record with `Node::state`,
`runningJobs` and `expectedJobs`; `state`, `assigned` and `executing` are the job's fields;
`modifiedJobs` and `modifiedNodes` are PlatformManager's lists. Its operators are the methods
(`SetState` with the side effects of `Job::setState`, `Assign` for the non-kill branch of
`handleSchedule`: clear, assign, `updateState`). The operators on nodes return the node's
record after the call, so that a handler which calls several of them composes them in the
order of the code. What ends the process with `xbt_die` is a condition (`MayAllocateAll`,
`MayExpect`, `ValidConfiguration`). `Scheduler::forwardJobAllocation` checks and allocates node by
node, so a list that names a node twice meets the job itself there.

**`Scheduler`** is the Scheduler actor. `pc` cuts a handler where other actors may run:
`idle → invoke → respond → (answer →) forward → idle`. Each message has an action
(`HandleJobSubmit`, `HandleSchedulingPoint`, ...); `Schedule` is the first half of
`Scheduler::schedule` with the minimum interval; `Invoke` sends the modified objects;
`DecideNodes` and `DecideKill` apply one decision each; `Answer` is the reply to a job at its
scheduling point; `Forward` is one turn of the loop over the decided jobs. The algorithm is
external. It sees only `seen` and `seenNode` (state and running jobs of a node; its GPUs are in
`GpuView`), and may send anything the constants allow: `Allocations` bounds the node lists,
`MayKill` the kills, and with `Careful` it never sends a node that, as it sees things, another
job has or is to have, and names none twice. (Without `Careful` the simulator itself does not
keep two jobs apart, see section 3.) `fault` records how the process ends early, by `xbt_die` or
by following a null pointer (`NoActor`); no action follows a fault.

**`Elastisim`** composes the Scheduler with the actors around it. All ranks of a job are one
actor here (`AppStarts`, `AppIterates`, `AppRequests`, `AppCompletes`), which module
`Application` justifies. `done` counts the iterations a job has completed, as
`advanceWorkload` records them; `seenDone` is what the algorithm was last told of them. A
blocking put is modelled by guarding what the sender does next with
its message having left the mailbox. The module also states the properties.

**`BatchSystem`** is what the program promises, without actors, messages and reservations: a
job is submitted once, holds nodes nobody else holds, is resized atomically and ends once.
`ElastisimRefinement` maps `state` and `runningJobs` to it.

**`Application`** models every rank of one job: the flags that the node keeps for the job
(initializing, reconfiguring, expanding), the loop of `Application::operator()`, the barrier
of all ranks and that of the gained ranks, the evaluation of scheduling points and evolving
requests at the head of the loop, `Workload::advance` by rank 0, and new incarnations on the
same or other nodes. A request reads a run-time argument. `ClearArguments` and
`UpdateArguments` are the two steps in which a decision replaces it, at any time or, with
`Polite`, only when the algorithm answers the job; `Clip` is `clip_evolving_requests`, without
which a request beyond the job's limits ends the process (`fault`). A phase may have no
iterations: a rank that comes to one leaves the loop without a word (`"lost"`).
**`JobThread`** is the single thread it implements, and has exactly the
transitions of the application in `Elastisim` (`JobsAreThreads`).

**`Tasks`** goes into what one iteration is in `Application`: the tasks of a phase on the
ranks of one job. `at[r]` is the place of a rank in the loops over iterations, tasks and
iterations of a task, and within `execute`. There are the synchronized task (a barrier before
each iteration), the task that sends (one parallel execution by rank 0 between two barriers,
while the rank's own computation goes on), the coupled task (the computation is part of that
execution), the asynchronous task (`pending`) and the sequence task, whose tasks stand in line
with the others and whose end waits for what they have started. A rank's own part of a task of
any kind (a computation, a delay, an input or output) is an activity that ends some time. The
job's one barrier serves all these, the phase's barrier and the end of the workload. A sequence
that is iterated or synchronized itself is written as several sequences or with its first task
synchronized.

**`Gpu`** models the GPUs and the link of one node: the mutex queues, the state that is set
outside the mutex, callbacks, the exchange with other nodes while kernels and transfer go on,
and applications that are killed in the middle of a task and leave their AsyncSleep actors
behind. With `Shared` the applications may run at the same time; `overlapped` tells whether they
have.

**`GpuView`** extends it with what the algorithm is told of the GPUs. `running` are the jobs on
the node, `modified` says whether the node is listed, `told` is what `Node::toJson` last sent of
its GPUs. `AllocateJob`, `CompleteJob`, `KillJob` and `Expect` list the node, `Invoke` sends and
clears; the steps of tasks and AsyncSleep actors (`Work`), which change the GPUs, list nothing.
The run checks the properties of both modules on this one.

**`Scaling`** follows the sizes of tasks. `sized[k][i]` is the *configuration* (nodes, GPUs,
argument) that task `i` of the phases of kind `k` was last sized for. An iteration count, a
computation and a communication are numbers, formulas or arrays; `Naming` are the run-time
arguments with which the formulas can be evaluated. A scaling takes the iterations first,
then the computation, the bounds of its vector, the communication and its pattern
(`TaskFault`), and the first failure ends the process. `Read` decides what
reading accepts, as the constructors and `create...Task` do for rigid and other jobs; `Start`,
`Allocate`, `Reconfigure` and `Expand` are the calls of `scaleTo` in `Job::setState` and
`Job::setExpandNodes`, with the failures of each (`ScalingFault`); `Decide` is a decision that
changes nodes, GPUs or arguments at any time; `Perform` executes a phase on retained or
gained ranks.

**`Formulas`** translates the three overloads of `Utility::evaluateFormula`. A text is a
sequence of pieces, so that names which share a beginning share pieces, and `Replace` looks for
the characters of a name wherever they stand, as `std::regex_replace` does. The reference
definition in `MCFormulas` gives a whole name its value.

**`Patterns`** translates `Utility::createVector`, `createMatrix`, `createMatrices`, the
dominating transfer of a GPU task and the transfer matrices of PFS and wide-striped burst
buffer tasks. A matrix is flattened as in the code. The code divides doubles; the size is one that
all divisors divide (`PatternsBounds`), so that integer division is the same function. Every
number of nodes and GPUs has such sizes.

Definitions whose name begins with `Wrong` are deliberate mistakes. No specification uses
them. Each property has one that, put in place of the definition it distorts, makes TLC
report a violation.

### Abstractions, and where they err on the safe side

* Times are left out. A sleep, a walltime and an interval end at any moment, so every order
  that some choice of times produces is covered, and some that none does.
* `Invoke` is a step of its own and the start of an answered application may be delayed:
  more interleavings than the simcalls in the code allow.
* Node counts and lists carry the control of `Elastisim`; attributes and job statistics are
  data no transition of the model depends on. GPUs per node and run-time arguments are in
  `Scaling`, where node lists are numbers.
* An algorithm that is not careful may name a node twice. With oversubscription two applications
  of one job then run on that node; `Elastisim` has one actor for all of a job's applications in
  any case. A kill of such a job asks the node for an actor that it has forgotten (`NoActor`).
* In `Elastisim` every job has at least one iteration; `Application` has phases without any.
* With `Polite` the run-time argument changes only when the ranks are in step. The code does
  not enforce this. Without it the process may end at once (finding 3); that ranks read
  *different* values and part is listed as a hazard, but there is no rule in the source it
  breaks.
* A formula in `Formulas` is a product. Operators and numbers between names are pieces that no
  replacement touches, so products of names are the worst case.
* Asynchronous activities of an application are waited for before it leaves its loop; `Tasks`
  models them, `Application` does not. `Tasks` covers one incarnation of a job that runs to the
  end of its workload.

## 3. Runs

| run | what it asks | states | result |
|---|---|---|---|
| `core` | bookkeeping, continuations, decisions, progress, counting, walltimes | 3.2 M | holds |
| `periodic` | continuations and bookkeeping under periodic invocation, minimum interval, oversubscription, a careless algorithm | 6.5 M | holds |
| `liveness` | Elastisim implements BatchSystem; started jobs end, the simulation ends | 443 k | holds |
| `application` | ranks of one job, with, without and with nothing but an empty phase; implements JobThread | 37 k | holds |
| `tasks` | tasks on the ranks: barriers, transfers, asynchronous activities, sequences | 370 k | holds |
| `scaling` | application models, read and scaled: shapes, configurations and failures | 2.1 M | holds |
| `gpu` | mutexes, link, callbacks, what the algorithm knows of GPUs; applications one after the other or together | 503 k | holds |
| `patterns` | work and traffic patterns | 525 | holds |
| `formulas` | substitution of names against the reference definition | 52 k | holds |
| `walltime_race` | `ValidFinalStatus` | – | violated |
| `lost_decision` | `ContinuesAsAssigned` | – | violated |
| `cleared_arguments` | `ModelsValid` | – | violated |

What the less obvious properties say:

* `DecisionsForwarded` (core): before the scheduler takes its next message, no job is left with a
  decision to start or kill it that nothing will carry out. `ProgressCurrent`: of a job that goes
  on or has ended the algorithm knows the progress, or gets it next; only of one that stands at
  its scheduling point it may not.
* `JobReports` (application): the ranks never strand each other at a barrier; a job reports, or
  comes to a phase without iterations, where *all* its ranks leave without a word.
* `ShapesFit`, `OneConfiguration` (scaling): whatever the order of decisions, reconfigurations and
  expansions, the tasks that ranks execute have been sized for as many ranks, and for the GPUs
  and the one value of the argument that all phases of the loop use. `LateFailures`: no scaling
  of a rigid job fails, everything wrong with it is found when it is read; one of another job
  fails only by a formula that its run-time arguments do not complete, by a model that no scaling
  supports, or for a reconfiguration without gained nodes.
* `OwnTransfer`, `NothingLeft` (gpu): a job that has the node to itself ends its tasks with its own
  transfers. Jobs that share the node may end them with each other's callbacks, yet when all have
  ended no callback, actor, lock or allocated GPU is left.
* `StatesCurrent` (core): the algorithm's picture of a job's state, and of a node's state and running
  jobs, is right or will be sent with the next invocation. `GpusKnownAtRest`
  (gpu): so is that of the GPUs of a node without jobs, although no change of them is
  listed; while a job runs, or once one was killed, it may be wrong.
* `EachNameItsValue`, `DiesOfUnknownNames` (formulas): the passes over the text agree with the
  reference wherever no key occurs within another name, and an evaluation fails exactly if
  the formula has a name that is unknown in that place.

**Bounds.** `MCElastisim`: two jobs and two nodes, node lists of length one and two in both
orders, two iterations per job (in `periodic` one of the jobs has one iteration and one node at
a time, since nothing limits what an algorithm does there). Every hazard of section 1 is a
matter of two parties: a job and its monitor, a job that leaves a node and one that takes it,
two ends and one counter. Two nodes are enough for a job to grow, shrink, move and reorder
itself; two iterations are the fewest with a request between them. The lists of `periodic`
include one that names a node twice. `core` gives one job a
walltime and lets both be killed; one job is adaptive (scheduling points and evolving
requests), the other malleable. Mailboxes need no bound: each actor has at most one message
outstanding. `application` uses three nodes and five lists, among them a grown, a shrunk, a
moved and a reordered one, and three workloads: two phases with and without barriers and
synchronized tasks, one with several requests before an empty one, and an empty one alone. `gpu` uses two applications on two GPUs, one with two tasks and one with one, so that what a
killed or an earlier application or task left meets the tasks of the next.
`scaling` reads every model of one task that computes, communicates or both (of the two parts
of a task one is plain, and at most one part is a formula, see `SomeTasks`), in each of the four
kinds of phases, and a workload with all kinds and
a sequence, for jobs of one or two nodes with two sets of run-time arguments, of which one
completes the formulas, and up to two GPUs
where a node has one: hence one GPU more than there is. `formulas` has every product of up to
three names, so that a name has neighbours on both sides, in each of the four places
(iterations of a phase, a task of a rigid and of another job, an evolving request), with all
choices of arguments.
`Tasks` uses three ranks, so that two can differ while rank 0 transfers, one task of every kind
in an order that lets asynchronous activities go on over the others, and three iterations, of
which the last belongs to a phase with a barrier.
`Patterns` covers 1 to 5 nodes and 1 to 3 GPUs per node with every pattern, hence one node,
even and odd counts.

`CHECK_DEADLOCK` is off because the system really stops: after `SCHEDULER_FINALIZE` every actor
ends, an early fault ends the process, an application ends with its message.

**Undisturbed.** A kill that finds a message of the killed job in the scheduler's mailbox
breaks most of what the system should guarantee (finding below). The history variable
`overtaken` collects the jobs this has happened to. Properties that begin with `Undisturbed`
are about behaviours, and beginnings of behaviours, in which it has not happened yet; so are
those whose definitions have `Undisturbed` as a hypothesis, `FinalIsFinal` and `Accounting`
among them. `StatesCurrent`, `Reservations`, `DecisionsForwarded`, `WalltimeOfActive` and
`ProgressCurrent` hold regardless. Similarly
`Answered(j)` excludes in `OneContinuation` the configurations in which the minimum interval
may drop the very request a job is waiting on, in which case nobody ever continues it.

**Fairness.** `FairSpec` has weak fairness for the Scheduler, the engine with its submitter,
each application and the end of the minimum interval. SimGrid runs every actor that is not
blocked before it lets time advance, sleeps end, and the algorithm answers (the
simulator blocks in `recv` until it does). Nothing obliges the algorithm to start
or kill a job, a walltime to be exceeded or the periodic invoker to run; properties do not
rely on it. In `GpuView`, the tasks of applications and AsyncSleep actors run and exchanges end; jobs
need not be started or killed, nor the algorithm invoked. In
`Application` every rank that is not blocked runs. In `Tasks` it is enough that the simulation
as a whole does not stop while something can happen.

### Findings

1. **A kill overtakes a queued message** (`walltime_race`, `system/Scheduler.cpp:96`).
   `forwardJobKill` ends the actors of a job but not the `SCHEDULING_POINT` or
   `WORKLOAD_PROCESSED` message that its application has already posted. Handled for a killed
   job, the message starts its application again on nodes that may belong to another job,
   makes it `RUNNING`, and its end is counted twice. The engine then finalizes while a job is
   alive and `xbt_die("Invalid final job status")` (`system/SimulationEngine.cpp:131`) fires.
2. **A decision is overwritten** (`lost_decision`, `software/Application.cpp:87`). Rank 0 sets
   the job `RUNNING` after the start barrier, whatever state it is in. Nodes assigned while the
   application starts are forgotten: at the next scheduling point the job "continues without
   reconfiguration" (`system/Scheduler.cpp:53`), and the nodes stay reserved for it.
3. **Arguments are replaced in two steps** (`cleared_arguments`, `software/Job.cpp:235`). Each
   locks a mutex, which lets other actors run, and the readers do not take it. A request
   evaluated in between finds no arguments and ends the process: "Performance model %s not
   valid" (`util/Utility.cpp:643`).

### What the properties presuppose

Each of these is a named part of a definition, and removing it makes TLC report a violation:

* `Careful`: `expandJob` has no check like that of `allocateJob`, which in turn ignores
  `expectedJobs` (`system/Node.cpp:79`, `110`). An algorithm that reserves a node for one job and
  starts another on it gets two jobs on a node with oversubscription disallowed, and no message.
  A list that names a node twice ends the process in `allocateJob` without oversubscription
  (`system/Node.cpp:78`) and, with it, by a null pointer when the job is killed
  (`system/Node.cpp:140`). `ImplementsBatch` and `NoAbort` presuppose it, the bookkeeping in
  `periodic` does not.
* `Answered` in `OneContinuation`: within `min_scheduling_interval` an invocation is dropped, and
  no later one is arranged (`system/Scheduler.cpp:43`). A submission may stay unknown to the
  algorithm, a job may wait at its scheduling point for ever.
* `Polite` in `application`: see finding 3.
* `LateFailures` admits what only run time can tell or no check announces. A formula of a job that
  is not rigid may use run-time arguments; a scaling with arguments that lack one of its names
  ends the process (`util/Utility.cpp:615`), at the job's start or at any later reconfiguration.
  And every reconfiguration sizes the expansion phase, also for no gained nodes, where a
  `ROOT_ONLY` task writes the first element of an empty vector (`software/Job.cpp:149`,
  `util/Utility.cpp:664`).
* No kill and no job on the node in `GpusKnownAtRest`: `Gpu::allocate` and `Gpu::deallocate` do not
  list the node (`system/Gpu.cpp:18-28`). What a job that runs has changed is sent at the earliest
  when something else lists the node, and of the kernels that a killed job left nothing tells.
* `Separate` in `formulas`: of two arguments `size` and `size_max` the first is replaced within
  the name of the second (`util/Utility.cpp:142`). The program's own names are replaced in an
  order that avoids this.

## 4. Proofs

The theorems hold for every set of nodes, every finite set of jobs, every workload and every
configuration that the assumptions on the constants allow. `JobSpecification` and
`SchedulerConfiguration` with `ElastisimConfiguration` state what `Job::checkSpecification` and
`Scheduler::checkConfigurationValidity` accept; `TasksSpecification`, `GpuSpecification`,
`ScalingSpecification` and `ApplicationSpecification` that counts are positive, that a job has at
least one phase and one node and no node twice, and that an asynchronous task does not send;
`PatternsBounds` that the size divides without remainder. TLC evaluates each of them in a run.
Some theorems have a hypothesis more:

* `Careful` (`CarefulProofs` only): the algorithm sends no node that, as it sees things, is another
  job's, and no list that names a node twice. The code checks neither when a decision arrives
  (section 3), and without it the statements are false.
* `Polite` (`ApplicationProofs`): the run-time argument changes only when the algorithm answers the
  job. Without it finding 3 ends the process, and ranks may read different values.

### The system (`ElastisimProofs`, `UndisturbedProofs`, `CarefulProofs`)

Each module extends the one before it, from what holds unconditionally to what needs a careful
algorithm. `TypeOK` is inductive as it stands, `StatesCurrent` and `DecisionsForwarded` are relative
to it; every other property needs a strengthening.

* **`TypeCorrect`**: `ControlTypeOK` contains two relations between `pc`, `inv` and `req`: while
  the scheduler is to answer a waiting job, there is one. Lemmas give the type of what each
  operation returns (`NodeRecords`, `SetStateType`, `AssignType`, `CancelledType`, ...).
* **`StatesAreCurrent`**: a step is split into *what it changes* and *what it reports*
  (`JobsReported`, `NodesReported`): operations leave the nodes they are not called for alone,
  handlers report those they call them for, and only `Invoke` empties the lists, sending them.
* **`ReservationsMatch`**: a decision for a job that has ended would reserve nodes that nothing
  gives back. `EndedAreKnown` excludes it: while the algorithm answers, it knows of every job that
  has ended, for `Invoke` has just told it and nothing ends a job before the response is complete.
* **`NoDecisionIsLeft`**: jobs are `PENDING_ALLOCATION` or `PENDING_KILL` only between the
  decision and its turn in the loop of `Forward`, and are in `scheduled` until then.
* **`ControlIsInvariant`** is the heart of what follows. `StepTouchesOne`: a step concerns one job
  or none and leaves the others' state, messages and monitor alone, so that it is enough to follow
  one job. Of that job `ControlInv` says that its thread of control is in at most one of
  application, mailbox and pending answer (`Alone`), which states go with having executing
  nodes (`Lifecycle`), that a monitor reports once (`Monitored`), and that submission happens once
  (`Submission`, `Engaged`). Mailboxes are compared by `Fewer`: taking a message, or taking one back,
  leaves of every kind of message at most as many. **`MonitorsAreOfActiveJobs`** follows from it,
  **`ProgressIsCurrent`** with the argument of `StatesAreCurrent`.
* **`PlacesAreInvariant`** adds the other half, which a kill that overtakes a message breaks: a job
  that has ended goes on nowhere (`Ended`), one that was started and has not ended goes on
  somewhere (`Goes`). At most one and at least one place give **`OnePlace`**; `Ended` gives
  **`EndsAreFinal`**. **`EndsAreCounted`**: the engine's counter is the number of unfinished jobs
  plus that of the ends in its mailbox, counted by the places in the mailbox (`EndPlaces`).
  **`NodesAreOccupied`**: of every job, `OnNodes` says on which nodes it runs.
* **`StandsStillToWait`** is the safety core of `StartedJobsEnd` and `SimulationEnds`: where no actor
  can take a step (`AtRest`), every job has ended, waits to be scheduled, or waits for an answer
  that `min_scheduling_interval` has dropped; and if all have ended, engine and scheduler are
  done. It rests on **`NothingIsLost`**, a submission is on its way until the scheduler has taken
  it, the end of a job's work until the job is final, and **`EngineIsInvariant`**, which follows the
  first and the last message of the engine.
* **`JobsAreThreads`** fits the two levels of the model together: what happens in `Elastisim` to a job
  while it is active is `JobThread`, whose `letter` is the job's message or the request that the
  scheduler holds (`Letter`). A job is started with its whole workload (`Whole`), and completed only
  when the thread has finished, with nothing left of it (`WorkDone`). Decisions and every step of
  another job are stutters. With `RanksImplementThread`, the ranks of a job and the scheduler keep
  to the same contract.
* **`NodesAreHonest`**, **`CarefulNeverAborts`**: with a careful algorithm no two jobs claim a node
  (`Apart`), with one exception that the proof brought to light: a response may take a node from
  the waiting job and start another on it, and until the answer both claim it (`Passing`).
  That the algorithm's view is good enough to be careful takes `KnownInv`, `GainsInv` and
  `Foreseen`: what it has been told of jobs it has not yet decided on is still so, or the job has
  gone on to run; and a node that expects a job is shown as free only if the same response
  reserved it.
* **`ElastisimImplementsBatch`**: the initial states map to that of `BatchSystem`, and `StepOf`, the
  steps about one job, map to a step of it or a stutter, case by case, given the invariants above.

### The parts

* **`TasksProofs`** (`OneBarrierServesAll`, `TransfersAreShared`, `SequencesContain`,
  `NothingIsLeftRunning`, `SomethingReady`, `RanksOnlyAdvance`): the places of a workload have an
  order (`Before`), in which every rank moves on. The inductive invariant says of *every* barrier
  on the way that all ranks are behind it or none is (`Aligned`). Two ranks at barriers are then
  at the same one, and a rank next to a barrier tells where all others are. So until the end is
  reported some rank can move or some activity is going on, and no step brings a rank back: the
  two halves of `EndIsReported` that need no fairness.
* **`ApplicationProofs`** (`RanksStayInStep`, `ApplicationTypeCorrect`, `RanksMeetAtOnePlace`,
  `OneTimePhasesAreDue`, `PhasesAreDroppedLast`, `ModelsAreValid`, `NoRankIsBlocked`,
  `RanksOnlyAdvance`): the same argument, where the way is cut at the first head of the loop at
  which the ranks are to ask, and the workload is no constant: rank 0 advances it when it posts.
  The flags of a rank say which one-time phases are still to come (`OneTime`). The iterations
  before a phase are a function that exists by the least counterexample (`Offsets`; `WFMin`
  replaces induction). `ModelsAreValid` states that finding 3 needs an algorithm that is not
  polite.
* **`RanksImplementThread`**: rank 0 *is* the thread of `JobThread`. What it has done counts against
  the total of the workload at its offset, so `AdvancedTotal` shows that the workload after
  `advance` has exactly the iterations left that the thread has; a step of another rank, and of
  rank 0 between iterations, is a stutter. With this theorem and `JobsAreThreads`, under
  the hypotheses of both, the one actor per job in `Elastisim` is no simplification for any workload.
* **`GpuProofs`** (`BusyGpusAreAllocated`, `TransfersAreOwn`, `NothingIsLeftBehind`,
  `NoTaskIsStuck`, `GpusAreKnownAtRest`): a mutex queue holds exactly the actors that have locked it, each once; the
  link's mailbox exactly the callbacks of finished transfers. With sharing an application may take
  another's callback, so no one-to-one relation is left; what remains is a `Balance`: there are as
  many transfers under way as tasks that wait for one. That a job which has the node to itself
  picks its GPUs from what is so (`BusyIsAllocated`) is proved only. Every step of `GpuView` is one of
  `Gpu` or leaves it alone (`ViewStep`), so what is proved of `Gpu` holds there too
  (`ViewImplementsGpu`); a node is listed whenever a job leaves it, and by then, unless it was
  killed, all its kernels have ended and no GPU changes any more (`ViewInv`).
* **`ScalingProofs`** (`SizesFit`, `OneConfigurationAtATime`, `FailuresAreEarly`): what ranks execute,
  or will come to by themselves, was sized for the present configuration with *some* value of the
  argument, the one it came with (`Configured`); only in between the two halves of a reconfiguration
  it is that of the job. The first fault in a list of tasks is that of the least faulty index.
* **`PatternsProofs`** (`VectorsAreSpread`, `MatricesAreSpread`,
  `GpuTrafficIsOfTheTask`, `IoIsTheSameBothWays`), for every number of nodes and GPUs and every size
  that divides: the reference in `MCPatterns` adds up a recursive function, and a function that obeys
  its recursion *is* the sum (`SumIs`; the least index at which two of them differ replaces
  induction). So a sum is known once its running sums are guessed: a constant (`SumOfSame`), one or
  two entries (`SumOfOne`, `SumOfTwo`), every other one (`SumOfEven`, `SumOfOdd`). A pattern whose
  messages go both ways has rows and columns with the same number of entries, its `Degree`
  (`SymmetricMatrix`); those with a root or with one direction are done line by line. GPU traffic is
  the `Splits` of all pairs into those within and those between nodes.

For the proofs some definitions took another form: in `Application` the gained nodes are a set (no
rank sees their order), and `Total` is a recursive function, as are the sums in `MCPatterns`. The
refinement is also checked on a workload without any iterations, to which `Counted` maps, too.

### Only model-checked

* *Liveness*: `StartedJobsEnd`, `SimulationEnds`, `JobReports`, `EndIsReported`, `TasksEnd`. Fairness
  and `ENABLED` are out of the prover's reach. What is safe about each is proved: that something
  can move as long as something is owed (`StandsStillToWait`, `NoRankIsBlocked`, `SomethingReady`,
  `NoTaskIsStuck`), and for ranks that they only move on (`RanksOnlyAdvance`).
* *Replacement in a text*: `EachNameItsValue` and `DiesOfUnknownNames` of `Formulas`. What passes
  over a text of any length return is a fact by induction over data.
* The three properties that are expected to fail.

No module declares a `RECURSIVE` operator.

## 5. Not modelled

* *How long an activity takes*, and node-local burst buffers, which only their own rank uses.
  `Tasks` has only whether a rank's share is positive.
* *The syntax of the input* (`util/Configuration`, most of `util/Utility`): JSON to C++ objects,
  units, and the evaluation of an expression by exprtk. Arrays given by the user are taken to
  have the length of the configuration they are given for.
* *Ranks that read different values of a run-time argument*: see the abstractions above.
* *Sensing* writes utilization figures; it changes no state.
* *Statistics output*, progress bars: formatting. `WriteStatistics` keeps only what can end the
  process.
* *SimGrid, ZeroMQ, exprtk, nlohmann/json*: outside the tree or third-party; mailboxes, actors,
  mutexes and barriers are modelled as the source uses them.

## 6. Plan

Order of work, the most important behaviour first:

1. *Done, the core*: `JobNode`, `Scheduler`, `Elastisim` with their runs; `BatchSystem` and the
   refinement; `Application` with `JobThread`; `Tasks`; `Gpu`; `Patterns`; the first theorems.
2. *Done, the extension*: progress and lost decisions in `Elastisim`, oversubscription;
   run-time arguments, unclipped requests and empty phases in `Application`; `Scaling`;
   `Formulas`; the exchange and sharing in `Gpu`.
3. *Done, the proofs*: every invariant, action property and refinement of `Elastisim`,
   `Application`, `Tasks`, `Gpu`, `Scaling` and `Patterns` that a passing run checks and that the
   prover can state, and the safety core of the liveness properties; see section 4.
4. *Next, prove*: `Formulas` for texts of bounded length, from assumptions on how numbers are
   printed.
5. *Later, model*: three-job instances of `Elastisim`; asynchronous activities that an
   application leaves behind when it is killed; node-local burst buffers.

## 7. Running

```
tlc -workers 2 -config core.cfg MCElastisim      # and the other cfgs, see PROJECT.json "runs"
tlapm CarefulProofs.tla      # likewise ElastisimProofs, UndisturbedProofs, TasksProofs, GpuProofs,
                             # ScalingProofs, ApplicationProofs, PatternsProofs
```
