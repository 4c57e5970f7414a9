------------------------------- MODULE Scaling -------------------------------
(***************************************************************************)
(* How the tasks of one job get their sizes.  The tasks of a rigid job are *)
(* sized when its workload is read (util/Utility); those of any other job  *)
(* keep a model, and are sized again for every configuration the job gets: *)
(* Job::setState and Job::setExpandNodes call scaleTo of Workload, Phase   *)
(* and Task.  What is modelled is which sizes were computed for which      *)
(* configuration, who executes them, and what cannot be computed; what the *)
(* sizes are is the subject of module Patterns.                            *)
(*                                                                         *)
(* The ranks that a job retains and those it gains are two groups here,    *)
(* for they execute different phases after a reconfiguration.              *)
(***************************************************************************)
EXTENDS Integers, Sequences, FiniteSets

CONSTANTS
  MaxNodes,    \* num_nodes_max; num_nodes_min is 1
  MaxGpus,     \* num_gpus_per_node_max; num_gpus_per_node_min is 0
  NodeGpus,    \* the GPUs of a node
  Arguments,   \* the run-time arguments that the algorithm may give
  Naming,      \* those of them that give a value to every name in the formulas
  Workloads    \* the application models that may be read

Kinds == {"on_init", "on_reconfiguration", "on_expansion", "phases"}

Null == "null"

\* A task in JSON: its iterations, flops (the delay, or the bytes of an input or output task)
\* and bytes.  Each is null (for the iterations 1), an array, a single "value" (a number, or a
\* formula in what evaluateFormula always knows), or a "formula" with other names, to which
\* only run-time arguments can give values.  A sequence is a task without sizes, followed by
\* its inner tasks.
TaskModel ==
  [type : {"delay", "io", "cpu", "gpu", "sequence"}, iterations : {"value", "formula"},
   flops : {Null, "value", "formula", "array"}, computation : {"VECTOR", "ROOT_ONLY", "UNIFORM"},
   bytes : {Null, "value", "formula", "array"}, communication : {"MATRIX", "GATHER", "RING"},
   inner : BOOLEAN]

ASSUME ScalingSpecification ==
  /\ {MaxNodes, MaxGpus, NodeGpus} \subseteq Nat
  /\ Naming \subseteq Arguments
  /\ \A w \in Workloads : /\ DOMAIN w = Kinds
                          /\ \A k \in Kinds : w[k] \in Seq(TaskModel)

Configuration == [nodes : 0 .. MaxNodes, gpus : 0 .. MaxGpus, argument : Arguments]

VARIABLES
  workload,   \* the tasks of each kind of phase
  requested,  \* numNodes and numGpusPerNode of a rigid job, otherwise 0
  stage,      \* where the job is in its life
  state,      \* Job::state, as far as it decides on reconfigurations
  executing,  \* the number of executing nodes, executingNumGpusPerNode
  assigned,   \* what the algorithm wants: nodes, GPUs, and how many of the nodes are new
  argument,   \* Job::runtimeArguments
  gained,     \* the number of Job::expandingNodes
  sized,      \* the configuration that the sizes of each task were computed for
  at,         \* the kind of phase that the retained and the gained ranks execute
  fault       \* how the process ended

vars ==
  <<workload, requested, stage, state, executing, assigned, argument, gained, sized, at, fault>>

Groups == {"retained", "gained"}

\* The empty vectors and uninitialized iterations of a task that was never sized.
Unsized == [nodes |-> -1, gpus |-> -1, argument |-> Null]

TypeOK ==
  /\ workload \in Workloads
  /\ requested \in [nodes : 0 .. MaxNodes, gpus : 0 .. MaxGpus]
  /\ stage \in {"file", "rejected", "queued", "working", "asking", "reconfiguring"}
  /\ state \in {"PENDING", "RUNNING", "PENDING_RECONFIGURATION", "IN_RECONFIGURATION"}
  /\ stage = "asking" => state \in {"RUNNING", "PENDING_RECONFIGURATION"}
  /\ executing \in [nodes : 0 .. MaxNodes, gpus : 0 .. MaxGpus]
  /\ assigned \in [nodes : 0 .. MaxNodes, gpus : 0 .. MaxGpus, new : 0 .. MaxNodes]
  /\ argument \in Arguments
  /\ gained \in 0 .. MaxNodes
  /\ \A k \in Kinds : sized[k] \in [DOMAIN workload[k] -> Configuration \cup {Unsized}]
  /\ at \in [Groups -> Kinds \cup {"none", "barrier", "done"}]
  /\ fault \in {"none", "model", "unsupported", "bounds", "gpus"}

-----------------------------------------------------------------------------
(* Reading: what ends the process for numNodes = n, 0 if the job is not    *)
(* rigid, and numGpusPerNode = g.                                          *)

\* The single value or formula that a model is made of, or the array that is taken as it is;
\* for a rigid job formulas are evaluated at once, without run-time arguments.
Readable(given, explicit, n) ==
  CASE n = 0 -> given \in {"value", "formula"}
    [] n > 0 /\ explicit -> given = "array"
    [] n > 0 /\ ~explicit -> given = "value"

\* createDelayTask, createIoTask, and the computation of the combined tasks.
VectorAccepted(t, n) ==
  /\ Readable(t.flops, t.computation = "VECTOR", n)
  /\ ~ (n = 0 /\ t.computation = "VECTOR")

\* createMatrix and createMatrices die on these patterns.
Unsupported(t, n, g) ==
  /\ t.bytes # Null
  /\ \/ t.type = "cpu" /\ t.communication = "MATRIX" /\ n # 1
     \/ t.type = "gpu" /\ g # 1 /\ t.communication \in {"MATRIX", "GATHER"}
     \/ t.type = "gpu" /\ g = 1 /\ t.communication = "MATRIX" /\ n # 1

\* createVector writes to the first element of a vector without elements.
OutOfBounds(t, n) == t.flops # Null /\ t.computation = "ROOT_ONLY" /\ n = 0

CpuTaskAccepted(t, n) ==
  /\ t.flops # Null \/ t.bytes # Null
  /\ t.flops = Null \/ VectorAccepted(t, n)
  /\ t.bytes = Null \/ Readable(t.bytes, t.communication = "MATRIX", n)

GpuTaskAccepted(t, n, g) ==
  /\ t.flops # Null \/ t.bytes # Null
  /\ t.flops = Null \/ VectorAccepted(t, n)
  /\ t.bytes = Null \/ Readable(t.bytes, FALSE, n)
  /\ n > 0 => ~ (t.bytes # Null /\ t.communication = "MATRIX") /\ ~Unsupported(t, n, g)

\* readTask.
Accepted(t, n, g) ==
  /\ n > 0 => t.iterations = "value"
  /\ CASE t.type \in {"delay", "io"} -> VectorAccepted(t, n)
       [] t.type = "cpu" -> CpuTaskAccepted(t, n)
       [] t.type = "gpu" -> GpuTaskAccepted(t, n, g)
       [] t.type = "sequence" -> TRUE

Rigid == requested.nodes > 0

AllSized(k, c) == [i \in DOMAIN workload[k] |-> c]

\* The workload lies in its file; a rigid job asks for at least one node.
Init ==
  /\ workload \in Workloads
  /\ requested \in [nodes : {0}, gpus : {0}] \cup [nodes : 1 .. MaxNodes, gpus : 0 .. MaxGpus]
  /\ stage = "file"
  /\ state = "PENDING"
  /\ executing = [nodes |-> 0, gpus |-> 0]
  /\ assigned = [nodes |-> 0, gpus |-> 0, new |-> 0]
  /\ argument \in Arguments
  /\ gained = 0
  /\ sized = [k \in Kinds |-> AllSized(k, Unsized)]
  /\ at = [g \in Groups |-> "none"]
  /\ fault = "none"

\* readJobs and readWorkload.
Read ==
  /\ stage = "file"
  /\ IF \A k \in Kinds : \A i \in DOMAIN workload[k] :
          Accepted(workload[k][i], requested.nodes, requested.gpus)
     THEN /\ stage' = "queued"
          /\ sized' = IF Rigid
                      THEN [k \in Kinds |->
                              AllSized(k, [nodes |-> requested.nodes, gpus |-> requested.gpus,
                                           argument |-> argument])]
                      ELSE sized
     ELSE stage' = "rejected" /\ UNCHANGED sized
  /\ UNCHANGED <<workload, requested, state, executing, assigned, argument, gained, at, fault>>

-----------------------------------------------------------------------------
(* Scaling.  (Definitions named Wrong... are deliberate mistakes, see      *)
(* module JobNode.)                                                        *)

WrongScaledTo(s, k, c) ==
  [s EXCEPT ![k] = [i \in DOMAIN workload[k] |-> IF workload[k][i].inner THEN @[i] ELSE c]]

\* Workload::scale...To, Phase::scaleTo and scaleTo of the tasks, also of those inside a
\* sequence task.
ScaledTo(s, k, c) == [s EXCEPT ![k] = AllSized(k, c)]

\* evaluateFormula does not compile a formula in which it has not replaced every name.
Invalid(given, c) == given = "formula" /\ c.argument \notin Naming

\* How scaling a task ends the process: the iterations come first, then the computation, and
\* of each a formula before the sizes that follow from it.
TaskFault(t, c) ==
  IF Invalid(t.iterations, c) \/ Invalid(t.flops, c) THEN "model"
  ELSE IF OutOfBounds(t, c.nodes) THEN "bounds"
  ELSE IF Invalid(t.bytes, c) THEN "model"
  ELSE IF Unsupported(t, c.nodes, c.gpus) THEN "unsupported"
  ELSE "none"

\* Phase::scaleTo, task by task; the first fault ends the process.
FirstFault(tasks, c) ==
  LET faulty == {i \in DOMAIN tasks : TaskFault(tasks[i], c) # "none"}
      first == CHOOSE i \in faulty : \A k \in faulty : i <= k
  IN  IF faulty = {} THEN "none" ELSE TaskFault(tasks[first], c)

\* The first fault of scaling phases of one or two kinds, in their order.
ScalingFault(kinds, c) ==
  LET first == FirstFault(workload[Head(kinds)], c)
  IN  IF first # "none" \/ Len(kinds) = 1 THEN first ELSE FirstFault(workload[kinds[2]], c)

WrongScale(once, c) ==
  /\ fault' = ScalingFault(<<"phases", once>>, c)
  /\ sized' = ScaledTo(sized, once, c)

\* Job::setState: the phases that are left, then the one-time phase called for.
Scale(once, c) ==
  /\ fault' = ScalingFault(<<"phases", once>>, c)
  /\ sized' = ScaledTo(ScaledTo(sized, "phases", c), once, c)

WrongStart(c) == Scale("on_init", c)

Start(c) == IF Rigid THEN UNCHANGED <<sized, fault>> ELSE Scale("on_init", c)

\* The decision to start the job, the run-time arguments with it, and setState(RUNNING).
Allocate(n, g, a) ==
  /\ fault = "none" /\ stage = "queued"
  /\ Rigid => n = requested.nodes /\ g = requested.gpus
  /\ argument' = a
  /\ assigned' = [nodes |-> n, gpus |-> IF Rigid THEN 0 ELSE g, new |-> 0]
  /\ executing' = [nodes |-> n, gpus |-> g]
  /\ Start([nodes |-> n, gpus |-> g, argument |-> a])
  /\ stage' = "working"
  /\ state' = "RUNNING"
  /\ at' = [at EXCEPT !["retained"] = "on_init"]
  /\ UNCHANGED <<workload, requested, gained>>

\* A decision on a job that runs or waits: n nodes, new of them not among the executing
\* ones, perhaps only reordered.  updateState compares the lists of nodes, so that nothing
\* follows from new GPUs or run-time arguments alone, nor while state is IN_RECONFIGURATION.
Decide(n, g, new, reordered, a) ==
  LET differs == reordered \/ new > 0 \/ n # executing.nodes IN
  /\ fault = "none" /\ stage \in {"working", "asking"} /\ ~Rigid
  /\ new <= n /\ n - new <= executing.nodes
  /\ reordered => n > 1 /\ new = 0 /\ n = executing.nodes
  /\ assigned' = [nodes |-> n, gpus |-> g, new |-> new]
  /\ argument' = a
  /\ state' = CASE state = "RUNNING" /\ differs -> "PENDING_RECONFIGURATION"
                [] state = "PENDING_RECONFIGURATION" /\ ~differs -> "RUNNING"
                [] OTHER -> state
  /\ UNCHANGED <<workload, requested, stage, executing, gained, sized, at, fault>>

\* handleReconfiguration up to the actors of the retained nodes.
Reconfigure ==
  /\ fault = "none" /\ stage = "asking" /\ state = "PENDING_RECONFIGURATION"
  /\ stage' = "reconfiguring"
  /\ state' = "IN_RECONFIGURATION"
  /\ executing' = [nodes |-> assigned.nodes, gpus |-> assigned.gpus]
  /\ Scale("on_reconfiguration",
           [nodes |-> assigned.nodes, gpus |-> assigned.gpus, argument |-> argument])
  /\ at' = [at EXCEPT !["retained"] = IF assigned.new < assigned.nodes THEN "on_reconfiguration"
                                      ELSE "none"]
  /\ UNCHANGED <<workload, requested, assigned, argument, gained>>

\* ... and the rest of it: setExpandNodes, whatever their number, and their actors.
Expand ==
  LET c == [nodes |-> assigned.new, gpus |-> executing.gpus, argument |-> argument] IN
  /\ fault = "none" /\ stage = "reconfiguring"
  /\ stage' = "working"
  /\ gained' = assigned.new
  /\ fault' = ScalingFault(<<"on_expansion">>, c)
  /\ sized' = ScaledTo(sized, "on_expansion", c)
  /\ at' = [at EXCEPT !["gained"] = IF assigned.new > 0 THEN "on_reconfiguration" ELSE "none"]
  /\ UNCHANGED <<workload, requested, state, executing, assigned, argument>>

-----------------------------------------------------------------------------
(* Execution.                                                              *)

\* CombinedGpuTask::execute.
GpuFault(tasks) ==
  /\ \E i \in DOMAIN tasks : tasks[i].type = "gpu"
  /\ executing.gpus = 0 \/ executing.gpus > NodeGpus

\* A group of ranks executes the phases it is at, the loop over phases up to a scheduling
\* point; what follows a one-time phase is the barrier of the job or the loop.
Perform(g) ==
  /\ fault = "none" /\ at[g] \in Kinds
  /\ IF GpuFault(workload[at[g]]) THEN fault' = "gpus" /\ UNCHANGED at
     ELSE /\ at' = [at EXCEPT ![g] = CASE at[g] \in {"on_init", "on_reconfiguration"} -> "barrier"
                                       [] at[g] = "on_expansion" -> "phases"
                                       [] at[g] = "phases" -> "done"]
          /\ UNCHANGED fault
  /\ UNCHANGED <<workload, requested, stage, state, executing, assigned, argument, gained, sized>>

SetRunning == state' = "RUNNING"

\* All ranks have met; the first one sets the job RUNNING, whatever has been decided.
Meet ==
  LET waiting == {g \in Groups : at[g] = "barrier"} IN
  /\ fault = "none" /\ waiting # {}
  /\ \A g \in Groups \ waiting : at[g] = "none"
  /\ stage = "reconfiguring" => assigned.new = 0
  /\ at' = [g \in Groups |-> CASE at[g] = "none" -> "none"
                               [] at[g] = "barrier" /\ g = "gained" -> "on_expansion"
                               [] OTHER -> "phases"]
  /\ SetRunning
  /\ UNCHANGED <<workload, requested, stage, executing, assigned, argument, gained, sized, fault>>

\* All ranks have come to the scheduling point: the actors end, one of them asks.
Ask ==
  /\ fault = "none" /\ stage = "working" /\ ~Rigid
  /\ "done" \in {at[g] : g \in Groups}
  /\ \A g \in Groups : at[g] \in {"none", "done"}
  /\ stage' = "asking"
  /\ at' = [g \in Groups |-> "none"]
  /\ UNCHANGED <<workload, requested, state, executing, assigned, argument, gained, sized, fault>>

\* The answer to go on as before; every node gets an actor again, gained or not.
Continue ==
  /\ fault = "none" /\ stage = "asking" /\ state = "RUNNING"
  /\ stage' = "working"
  /\ at' = [at EXCEPT !["retained"] = "barrier"]
  /\ UNCHANGED <<workload, requested, state, executing, assigned, argument, gained, sized, fault>>

Next ==
  \/ Read \/ Reconfigure \/ Expand \/ Meet \/ Ask \/ Continue
  \/ \E g \in Groups : Perform(g)
  \/ \E n \in 1 .. MaxNodes, g \in 0 .. MaxGpus, a \in Arguments :
       \/ Allocate(n, g, a)
       \/ \E new \in 0 .. n, reordered \in BOOLEAN : Decide(n, g, new, reordered, a)

Spec == Init /\ [][Next]_vars

-----------------------------------------------------------------------------
(* Properties.                                                             *)

Sizes(k) == {sized[k][i] : i \in DOMAIN sized[k]}

\* What ranks execute, also within sequences, was sized for exactly the ranks that execute
\* it: flops[rank] and the rows of payloads exist, and none is left over.  (Phases of the
\* loop, Job.cpp:78, 90; the list of nodes in Application.cpp:73, 79, 91.)
ShapesFit ==
  fault = "none" =>
    \A g \in Groups : at[g] \in Kinds =>
      \A c \in Sizes(at[g]) :
        c.nodes = IF at[g] = "on_expansion" THEN gained ELSE executing.nodes

\* ... and for the GPUs that it executes on, and all phases of one configuration for the same
\* run-time arguments, although the algorithm may replace these at any time (Job.cpp:78, 90,
\* 149).
OneConfiguration ==
  fault = "none" =>
    \A g \in Groups : at[g] \in Kinds =>
      \A c \in Sizes(at[g]) :
        /\ c.gpus = executing.gpus
        /\ \A d \in Sizes("phases") : c.argument = d.argument

\* Reading the workload of a rigid job finds all that is wrong with its tasks; later, a task
\* of another job can only turn out to name what the run-time arguments of this very decision
\* do not give, to have a pattern without a meaning for its number of GPUs, or to be sized for
\* no gained nodes (Utility.cpp:383, 469, 615, 664).
LateFailures ==
  /\ Rigid => fault \notin {"model", "unsupported", "bounds"}
  /\ fault = "model" =>
       /\ argument \notin Naming
       /\ \E k \in Kinds : \E i \in DOMAIN workload[k] :
            LET t == workload[k][i] IN "formula" \in {t.iterations, t.flops, t.bytes}
  /\ fault = "unsupported" =>
       \E k \in Kinds : \E i \in DOMAIN workload[k] :
          LET t == workload[k][i] IN
          /\ t.bytes # Null
          /\ \/ t.communication = "MATRIX"
             \/ t.type = "gpu" /\ t.communication = "GATHER"
  /\ fault = "bounds" => stage = "working" /\ gained = 0 /\ assigned.new = 0
=============================================================================
