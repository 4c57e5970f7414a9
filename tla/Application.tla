----------------------------- MODULE Application -----------------------------
(***************************************************************************)
(* The application of one job: one actor (software/Application) per node   *)
(* of the job, all running the same loop over the phases of the workload   *)
(* (software/Workload, software/Phase) and meeting at the barrier that the *)
(* scheduler made for them.  The rank of a node is its position in the     *)
(* executing nodes; rank 0 speaks for the job.  Each time the loop is left *)
(* for a request, the actors end, and the scheduler's answer starts new    *)
(* ones: an incarnation.                                                   *)
(*                                                                         *)
(* A step of an actor is what it does from one point where another actor   *)
(* can notice it to the next.  The tasks of an iteration are one step, at  *)
(* a barrier when a task is synchronized.                                  *)
(***************************************************************************)
EXTENDS Integers, FiniteSets, Sequences, FiniteSetsExt, SequencesExt

CONSTANTS
  Nodes,
  Type,            \* the JobType of the job
  FirstNodes,      \* the node list it is started on
  NodeLists,       \* those it may be reconfigured to
  Workloads,       \* the phases it may have: sequences of [iterations, schedulingPoint,
                   \* evolving, barrier, synchronized]
  Synchronized,    \* the init, reconfiguration and expansion phases have synchronized tasks
  Arguments,       \* the values of the run-time argument its evolving requests are made of
  Clip,            \* clip_evolving_requests
  Polite,          \* the algorithm changes the argument only when it answers the job
  MinNodes, MaxNodes

\* What a Phase is to the ranks.
PhaseRecord == [iterations : Nat, schedulingPoint : BOOLEAN, evolving : BOOLEAN,
                barrier : BOOLEAN, synchronized : BOOLEAN]

ASSUME ApplicationSpecification ==
  /\ FirstNodes \in NodeLists /\ NodeLists \subseteq Seq(Nodes)
  /\ \A q \in NodeLists : q # <<>> /\ IsInjective(q)
  /\ Workloads \subseteq Seq(PhaseRecord) \ {<<>>}
  /\ {Clip, Polite, Synchronized} \subseteq BOOLEAN
  /\ MinNodes \in Nat \ {0} /\ MaxNodes \in Nat /\ MinNodes <= MaxNodes

VARIABLES
  exec,       \* Job::executingNodes
  phases,     \* Workload::phases, with the iterations still to do
  actor,      \* the Application actor of each node, with the node's flags for the job
  waiting,    \* the nodes waiting at the barrier of the job
  expanding,  \* the nodes waiting at its expand barrier
  gained,     \* Job::expandingNodes, whose order no rank sees
  argument,   \* Job::runtimeArguments: the value of the one argument
  cleared,    \* ... which is not in the map at present
  mail,       \* the message of the job to the Scheduler
  fault,      \* the xbt_die of a rank that has ended the process
  kind        \* history: what this incarnation was started by

argVars == <<argument, cleared>>
vars == <<exec, phases, actor, waiting, expanding, gained, argVars, mail, fault, kind>>

Places == {"none", "init", "reconfigure", "start", "expand", "head", "leave", "post",
           "phase", "tasks", "end", "finish", "lost"}

Requests == {"SCHEDULING_POINT", "EVOLVING_REQUEST"}

Actor == [at : Places, initializing : BOOLEAN, reconfiguring : BOOLEAN, expands : BOOLEAN,
          idx : Nat, remaining : Nat, initialPhase : BOOLEAN, request : Requests \cup {"none"},
          done : Nat, once : SUBSET {"init", "reconfigure", "expand"}]

Ranks == ToSet(exec)
Rank(n) == CHOOSE r \in 0 .. Len(exec) - 1 : exec[r + 1] = n

\* The iterations of the phases p.
Total(p) ==
  LET upTo[i \in 0 .. Len(p)] == IF i = 0 THEN 0 ELSE upTo[i - 1] + p[i].iterations
  IN  upTo[Len(p)]

TypeOK ==
  /\ exec \in NodeLists
  /\ \E w \in Workloads : Len(phases) <= Len(w)
  /\ actor \in [Nodes -> Actor]
  /\ waiting \subseteq Ranks /\ expanding \subseteq gained /\ gained \subseteq Nodes
  /\ argument \in Arguments /\ cleared \in BOOLEAN
  /\ mail \in Requests \cup {"none", "WORKLOAD_PROCESSED"}
  /\ fault \in {"none", "model", "request"}
  /\ kind \in {"allocated", "continued", "reconfigured"}

\* A new actor with the flags its node has for the job.
Fresh(a) ==
  [a EXCEPT !.at = "init", !.idx = 0, !.remaining = 0, !.initialPhase = TRUE,
            !.request = "none", !.done = 0, !.once = {}]

NoActor ==
  [at |-> "none", initializing |-> FALSE, reconfiguring |-> FALSE, expands |-> FALSE,
   idx |-> 0, remaining |-> 0, initialPhase |-> TRUE, request |-> "none",
   done |-> 0, once |-> {}]

\* Node::allocateJob on the first nodes.
Init ==
  /\ exec = FirstNodes
  /\ phases \in Workloads
  /\ actor = [n \in Nodes |->
                IF n \in Ranks THEN Fresh([NoActor EXCEPT !.initializing = TRUE]) ELSE NoActor]
  /\ waiting = {} /\ expanding = {} /\ gained = {}
  /\ argument \in Arguments /\ cleared = FALSE
  /\ mail = "none"
  /\ fault = "none"
  /\ kind = "allocated"

-----------------------------------------------------------------------------
(* What one actor does next at its place, once any barrier there is passed. *)

(* (Definitions named Wrong... are deliberate mistakes, see module JobNode.) *)

WrongOneTimePhase(a, flag, name, next) == [a EXCEPT !.once = @ \cup {name}, !.at = next]

\* Application::executeOneTimePhase and the mark of the node, where the flag asks for it.
OneTimePhase(a, flag, name, next) ==
  IF flag THEN [a EXCEPT !.once = @ \cup {name}, !.at = next] ELSE [a EXCEPT !.at = next]

\* Job::calculateEvolvingRequest.
EvolvingRequest == IF Clip THEN Max({MinNodes, Min({MaxNodes, argument})}) ELSE argument

\* The actor evaluates the evolving model of its phase at the head of the loop.
Evaluates(a) ==
  /\ a.at = "head" /\ a.remaining > 0 /\ ~a.initialPhase
  /\ Type \in {"EVOLVING", "ADAPTIVE"} /\ phases[a.idx].evolving

\* The evaluation dies: of a name that nothing replaces, or with an impossible request.
RequestFault(a) ==
  CASE Evaluates(a) /\ cleared -> "model"
    [] Evaluates(a) /\ ~cleared /\ EvolvingRequest \notin MinNodes .. MaxNodes -> "request"
    [] OTHER -> "none"

\* The request with which the actor leaves the loop at its head, if it does.
RequestOf(a) ==
  IF Evaluates(a)
  THEN IF EvolvingRequest # Len(exec) THEN "EVOLVING_REQUEST" ELSE "none"
  ELSE IF ~a.initialPhase /\ Type \in {"MALLEABLE", "ADAPTIVE"} /\ phases[a.idx].schedulingPoint
       THEN "SCHEDULING_POINT" ELSE "none"

\* The head of the loop, which is over without a word if the phase has no iterations.
AtHead(a) ==
  IF a.remaining = 0 THEN [a EXCEPT !.at = "lost"]
  ELSE [a EXCEPT !.request = RequestOf(a),
                 !.at = IF RequestOf(a) = "none" THEN "phase" ELSE "leave"]

WrongAfterTasks(a) ==
  LET b == [a EXCEPT !.remaining = @ - 2, !.initialPhase = FALSE, !.done = @ + 1] IN
  IF b.remaining # 0 THEN [b EXCEPT !.at = "head"]
  ELSE IF b.idx = Len(phases) THEN [b EXCEPT !.at = "end"]
  ELSE [b EXCEPT !.at = "head", !.idx = @ + 1, !.remaining = phases[b.idx + 1].iterations]

\* The tasks of an iteration, and the end of the iteration.
AfterTasks(a) ==
  LET b == [a EXCEPT !.remaining = @ - 1, !.initialPhase = FALSE, !.done = @ + 1] IN
  IF b.remaining > 0 THEN [b EXCEPT !.at = "head"]
  ELSE IF b.idx = Len(phases) THEN [b EXCEPT !.at = "end"]
  ELSE [b EXCEPT !.at = "head", !.idx = @ + 1, !.remaining = phases[b.idx + 1].iterations]

Proceed(a) ==
  CASE a.at = "init" ->
         [OneTimePhase(a, a.initializing, "init", "reconfigure")
            EXCEPT !.initializing = FALSE]
    [] a.at = "reconfigure" ->
         [OneTimePhase(a, a.reconfiguring, "reconfigure", "start")
            EXCEPT !.reconfiguring = FALSE]
    [] a.at = "start" -> [a EXCEPT !.at = "expand"]
    [] a.at = "expand" ->
         [OneTimePhase(a, a.expands, "expand", "head")
            EXCEPT !.expands = FALSE, !.idx = 1, !.remaining = phases[1].iterations]
    [] a.at = "head" -> AtHead(a)
    [] a.at = "leave" -> [a EXCEPT !.at = "post"]
    [] a.at = "phase" -> [a EXCEPT !.at = "tasks"]
    [] a.at = "tasks" -> AfterTasks(a)
    [] a.at = "end" -> [a EXCEPT !.at = "finish"]

WrongMeets(a) == a.at = "start"

\* The actor waits at the barrier of the job before it proceeds.
Meets(a) ==
  \/ a.at \in {"start", "leave", "end"}
  \/ a.at = "init" /\ a.initializing /\ Synchronized
  \/ a.at = "reconfigure" /\ a.reconfiguring /\ Synchronized
  \/ a.at = "phase" /\ phases[a.idx].barrier
  \/ a.at = "tasks" /\ phases[a.idx].synchronized

\* ... or at the barrier of the nodes the job gained.
MeetsExpanding(a) == a.at = "expand" /\ a.expands /\ Synchronized

\* A barrier for size actors: the last one to come lets all of them proceed.
Barrier(n, queue, size) ==
  IF Cardinality(queue \cup {n}) = size
  THEN actor' = [m \in Nodes |-> IF m \in queue \cup {n} THEN Proceed(actor[m]) ELSE actor[m]]
  ELSE UNCHANGED actor

WrongAfter(n, queue, size) == queue \cup {n}

After(n, queue, size) == IF Cardinality(queue \cup {n}) = size THEN {} ELSE queue \cup {n}

Step(n) ==
  /\ actor[n].at \notin {"none", "post", "finish", "lost"}
  /\ ~Meets(actor[n]) /\ ~MeetsExpanding(actor[n])
  /\ actor' = [actor EXCEPT ![n] = Proceed(@)]
  /\ fault' = RequestFault(actor[n])
  /\ UNCHANGED <<exec, phases, waiting, expanding, gained, argVars, mail, kind>>

Wait(n) ==
  /\ Meets(actor[n]) /\ n \notin waiting
  /\ Barrier(n, waiting, Len(exec))
  /\ waiting' = After(n, waiting, Len(exec))
  /\ UNCHANGED <<exec, phases, expanding, gained, argVars, mail, fault, kind>>

WaitExpanding(n) ==
  /\ MeetsExpanding(actor[n]) /\ n \notin expanding
  /\ Barrier(n, expanding, Cardinality(gained))
  /\ expanding' = After(n, expanding, Cardinality(gained))
  /\ UNCHANGED <<exec, phases, waiting, gained, argVars, mail, fault, kind>>

WrongAdvance(p, completedPhases, remainingIterations) ==
  SubSeq(p, completedPhases + 1, Len(p))

\* Workload::advance: drop the completed phases, keep what remains of the next one.
Advance(p, completedPhases, remainingIterations) ==
  LET rest == SubSeq(p, completedPhases + 1, Len(p))
  IN  [rest EXCEPT ![1].iterations = remainingIterations]

End(n) == actor' = [actor EXCEPT ![n].at = "none"]

\* After the barrier rank 0 saves the progress and asks; the others just end.
PostRequest(n) ==
  /\ actor[n].at = "post"
  /\ End(n)
  /\ IF Rank(n) = 0
     THEN /\ phases' = Advance(phases, actor[n].idx - 1, actor[n].remaining)
          /\ mail' = actor[n].request
     ELSE UNCHANGED <<phases, mail>>
  /\ UNCHANGED <<exec, waiting, expanding, gained, argVars, fault, kind>>

PostProcessed(n) ==
  /\ actor[n].at = "finish"
  /\ End(n)
  /\ mail' = IF Rank(n) = 0 THEN "WORKLOAD_PROCESSED" ELSE mail
  /\ UNCHANGED <<exec, phases, waiting, expanding, gained, argVars, fault, kind>>

-----------------------------------------------------------------------------
(* What SchedulingInterface::handleSchedule and the scheduler's answer to  *)
(* a request do to the job.                                                *)

\* Job::clearRuntimeArguments and then updateRuntimeArguments, with a simcall (the mutex)
\* between them: a rank, which reads the arguments without the mutex, may run in between.
ClearArguments ==
  /\ Polite => mail \in Requests
  /\ ~cleared
  /\ cleared' = TRUE
  /\ UNCHANGED <<exec, phases, actor, waiting, expanding, gained, argument, mail, fault, kind>>

UpdateArguments ==
  /\ cleared
  /\ cleared' = FALSE
  /\ argument' \in Arguments
  /\ UNCHANGED <<exec, phases, actor, waiting, expanding, gained, mail, fault, kind>>

\* The job waits for its answer, which follows the response with its arguments.
Answerable == mail \in Requests /\ ~cleared

\* Node::continueJob on every node.
Continue ==
  /\ Answerable
  /\ mail' = "none"
  /\ actor' = [n \in Nodes |-> IF n \in Ranks THEN Fresh(actor[n]) ELSE actor[n]]
  /\ kind' = "continued"
  /\ UNCHANGED <<exec, argVars, phases, waiting, expanding, gained, fault>>

WrongReconfigure(q) ==
  /\ Answerable
  /\ q # exec
  /\ mail' = "none"
  /\ exec' = q
  /\ gained' = ToSet(q) \ Ranks
  /\ actor' = [n \in Nodes |->
       IF n \notin ToSet(q) THEN [actor[n] EXCEPT !.at = "none"]
       ELSE IF n \notin Ranks THEN Fresh([actor[n] EXCEPT !.expands = TRUE])
       ELSE Fresh([actor[n] EXCEPT !.reconfiguring = TRUE])]
  /\ waiting' = {} /\ expanding' = {}
  /\ kind' = "reconfigured"
  /\ UNCHANGED <<phases, argVars, fault>>

\* Node::reconfigureJob on the nodes that stay, expandJob on the new ones; new barriers.
Reconfigure(q) ==
  /\ Answerable
  /\ q # exec
  /\ mail' = "none"
  /\ exec' = q
  /\ gained' = ToSet(q) \ Ranks
  /\ actor' = [n \in Nodes |->
       IF n \notin ToSet(q) THEN [actor[n] EXCEPT !.at = "none"]
       ELSE IF n \notin Ranks
       THEN Fresh([actor[n] EXCEPT !.initializing = FALSE, !.reconfiguring = TRUE,
                                   !.expands = TRUE])
       ELSE Fresh([actor[n] EXCEPT !.reconfiguring = TRUE])]
  /\ waiting' = {} /\ expanding' = {}
  /\ kind' = "reconfigured"
  /\ UNCHANGED <<phases, argVars, fault>>

Actors(n) == Step(n) \/ Wait(n) \/ WaitExpanding(n) \/ PostRequest(n) \/ PostProcessed(n)

Next ==
  /\ fault = "none"
  /\ \/ \E n \in Nodes : Actors(n)
     \/ Continue
     \/ ClearArguments
     \/ UpdateArguments
     \/ \E q \in NodeLists : Reconfigure(q)

Spec == Init /\ [][Next]_vars

\* SimGrid runs every actor that is not blocked.
FairSpec == Spec /\ \A n \in Nodes : WF_vars(fault = "none" /\ Actors(n))

-----------------------------------------------------------------------------
(* Properties.                                                             *)

\* The actors that meet at the barrier of the job come from the same place of the same
\* iteration: no barrier ever lines up a request with the end, or two iterations.
SamePlace ==
  \A m, n \in waiting : /\ actor[m].at = actor[n].at
                        /\ actor[m].done = actor[n].done
                        /\ actor[m].request = actor[n].request

\* Rank 0 drops phases only when no other rank will look at a phase again.
NoDanglingPhase ==
  [][phases' # phases => \A n \in Ranks : actor[n].at \in {"post", "none"}]_vars

\* (With an algorithm that is not polite, ranks that are not in step read different arguments
\* and part ways; the properties above are about the barriers as they are without that.)

\* A rank never finds "Performance model [...] not valid" (Utility.cpp:643): the model is.
ModelsValid == fault # "model"

\* An actor in its loop has gone through the one-time phases its incarnation calls for, and
\* no others: initialization on the first nodes only, reconfiguration on all nodes after
\* each reconfiguration, expansion on the gained nodes.
OneTimePhases ==
  \A n \in Ranks : actor[n].at \in {"head", "tasks", "end", "post", "finish"} =>
    actor[n].once = CASE kind = "allocated" -> {"init"}
                      [] kind = "continued" -> {}
                      [] kind = "reconfigured" ->
                           {"reconfigure"} \cup IF n \in gained THEN {"expand"} ELSE {}

\* The actors reach a message: no barrier is left waiting for an actor that ends or is
\* waiting at the other barrier, and no evaluation ends the process, for a request is clipped
\* and an answer follows the new arguments of the job.  Only a phase without iterations keeps
\* them from it, and then all of them end.
JobReports ==
  mail = "none" ~> \/ mail # "none"
                   \/ /\ \E i \in DOMAIN phases : phases[i].iterations = 0
                      /\ \A n \in Ranks : actor[n].at = "lost"

\* The job as one thread: where rank 0 is, and what remains of its work.  The last
\* iteration counts when the end is reported.
Leader == actor[exec[1]]
Started == Leader.at \notin {"none", "init", "reconfigure", "start"}
Counted == Min({Leader.done, Max({0, Total(phases) - 1})})
Thread ==
  IF mail # "none" THEN "none"
  ELSE IF ~Started THEN "starting"
  ELSE IF Counted = 0 THEN "first" ELSE "later"
Todo ==
  IF mail = "WORKLOAD_PROCESSED" THEN 0
  ELSE IF mail # "none" \/ ~Started THEN Total(phases)
  ELSE Total(phases) - Counted

Job == INSTANCE JobThread WITH Works <- {Total(w) : w \in Workloads}, thread <- Thread, todo <- Todo,
                               letter <- mail

\* The ranks implement the one application actor per job of module Elastisim; when they are
\* lost in a phase without iterations, it stops for ever.
ImplementsThread == Job!ThreadSpec
=============================================================================
