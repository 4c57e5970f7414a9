-------------------------------- MODULE Tasks --------------------------------
(***************************************************************************)
(* The tasks of a workload on the ranks of a job (the loops over tasks in  *)
(* software/Application and tasks/SequenceTask, and the execute methods of *)
(* tasks).  A rank has an activity of its own in a task (a computation, a  *)
(* kernel, a delay, an input or output), or starts one and goes on if the  *)
(* task is asynchronous.  A task that sends between the nodes is one       *)
(* parallel execution by rank 0 between two barriers.  Activities take any *)
(* time.  The tasks of a sequence task stand in line with the others; the  *)
(* rank waits for their asynchronous activities where the sequence ends.   *)
(***************************************************************************)
EXTENDS Integers, Sequences, FiniteSets

CONSTANTS
  Size,          \* how many nodes the job has
  Program,       \* the tasks of a phase, a record for each
  Rounds,        \* the iterations of all phases
  PhaseBarrier   \* the iterations that belong to a phase with a barrier

Ranks == 0 .. Size - 1

\* works: the ranks whose share of the task is positive; sequence: 0 outside of any.
Task == [asynchronous : BOOLEAN, synchronized : BOOLEAN, coupled : BOOLEAN, sends : BOOLEAN,
         works : SUBSET Ranks, iterations : Nat \ {0}, sequence : Nat]

ASSUME TasksSpecification ==
  /\ {Size, Rounds} \subseteq Nat \ {0}
  /\ Program \in Seq(Task) /\ Program # <<>>
  /\ PhaseBarrier \subseteq 1 .. Rounds
  /\ \A k \in DOMAIN Program : Program[k].asynchronous => ~Program[k].sends

VARIABLES
  at,        \* where each rank is
  waiting,   \* the ranks waiting at the barrier of the job
  own,       \* the ranks whose own activity in their present task is still going on
  pending,   \* the asynchronous activities of each rank, by the place that started them
  reported   \* rank 0 has posted WORKLOAD_PROCESSED

vars == <<at, waiting, own, pending, reported>>

Place == [round : 1 .. Rounds, task : DOMAIN Program, iteration : Nat \ {0},
          step : {"head", "sync", "start", "first", "communicate", "second", "finish", "join",
                  "last", "post", "ended"}]

TypeOK ==
  /\ at \in [Ranks -> Place]
  /\ waiting \subseteq Ranks
  /\ own \subseteq Ranks
  /\ \A r \in Ranks : pending[r] \subseteq Place
  /\ reported \in BOOLEAN

Init ==
  /\ at = [r \in Ranks |-> [round |-> 1, task |-> 1, iteration |-> 1, step |-> "head"]]
  /\ waiting = {} /\ own = {}
  /\ pending = [r \in Ranks |-> {}]
  /\ reported = FALSE

-----------------------------------------------------------------------------
TaskOf(a) == Program[a.task]

\* After an iteration of a task; after the task, and the end of its sequence if it is one.
NextIteration(a) ==
  IF a.iteration < TaskOf(a).iterations
  THEN [a EXCEPT !.iteration = @ + 1, !.step = "sync"]
  ELSE [a EXCEPT !.step = "join"]

(* (Definitions named Wrong... are deliberate mistakes, see module JobNode.) *)

NextTask(a) ==
  IF a.task < Len(Program)
  THEN [a EXCEPT !.task = @ + 1, !.iteration = 1, !.step = "sync"]
  ELSE IF a.round < Rounds
  THEN [a EXCEPT !.round = @ + 1, !.task = 1, !.iteration = 1, !.step = "head"]
  ELSE [a EXCEPT !.step = "last"]

WrongMeets(a) ==
  \/ a.step \in {"second", "last"}
  \/ a.step = "sync" /\ TaskOf(a).synchronized
  \/ a.step = "head" /\ a.round \in PhaseBarrier

\* The rank waits at the barrier before it proceeds.
Meets(a) ==
  \/ a.step \in {"first", "second", "last"}
  \/ a.step = "sync" /\ TaskOf(a).synchronized
  \/ a.step = "head" /\ a.round \in PhaseBarrier

WrongAsyncDone(r) == at[r].step = "last" => Cardinality(pending[r]) < 2

\* Application::waitForAsyncActivities, before a barrier of the phase and at the very end.
AsyncDone(r) == at[r].step \in {"head", "last"} => pending[r] = {}

\* Past a barrier, or where there is none.
Proceed(r) ==
  LET a == at[r] IN
  CASE a.step = "head" -> [a EXCEPT !.step = "sync"]
    [] a.step = "sync" -> [a EXCEPT !.step = "start"]
    [] a.step = "first" -> [a EXCEPT !.step = IF r = 0 THEN "communicate" ELSE "second"]
    [] a.step = "second" -> [a EXCEPT !.step = "finish"]
    [] a.step = "last" -> [a EXCEPT !.step = IF r = 0 THEN "post" ELSE "ended"]

Pass(r) ==
  /\ at[r].step \in {"head", "sync", "first", "second", "last"} /\ ~Meets(at[r])
  /\ at' = [at EXCEPT ![r] = Proceed(r)]
  /\ UNCHANGED <<waiting, own, pending, reported>>

\* The barrier: the last rank to come lets all proceed.
Wait(r) ==
  /\ Meets(at[r]) /\ AsyncDone(r) /\ r \notin waiting
  /\ IF waiting \cup {r} = Ranks
     THEN waiting' = {} /\ at' = [q \in Ranks |-> Proceed(q)]
     ELSE waiting' = waiting \cup {r} /\ UNCHANGED at
  /\ UNCHANGED <<own, pending, reported>>

\* executeAsync: the rank goes on.
StartAsync(r) ==
  /\ at[r].step = "start" /\ TaskOf(at[r]).asynchronous
  /\ pending' = [pending EXCEPT ![r] = @ \cup {at[r]}]
  /\ at' = [at EXCEPT ![r] = NextIteration(@)]
  /\ UNCHANGED <<waiting, own, reported>>

\* A coupled computation is part of the parallel execution.
InParallel(t) == t.coupled /\ t.sends /\ t.works # {}

WrongStart(r) ==
  LET t == TaskOf(at[r])
      computes == r \in t.works /\ ~InParallel(t)
  IN  /\ at[r].step = "start" /\ ~t.asynchronous
      /\ own' = IF computes THEN own \cup {r} ELSE own
      /\ at' = [at EXCEPT ![r].step = IF t.sends /\ r \in t.works THEN "first" ELSE "finish"]
      /\ UNCHANGED <<waiting, pending, reported>>

\* execute: the rank starts its own part and goes to the barrier if the task sends,
\* whatever its own share of the data.
Start(r) ==
  LET t == TaskOf(at[r])
      computes == r \in t.works /\ ~InParallel(t)
  IN  /\ at[r].step = "start" /\ ~t.asynchronous
      /\ own' = IF computes THEN own \cup {r} ELSE own
      /\ at' = [at EXCEPT ![r].step = IF t.sends THEN "first" ELSE "finish"]
      /\ UNCHANGED <<waiting, pending, reported>>

\* Rank 0 comes back from parallel_execute.
Communicated(r) ==
  /\ at[r].step = "communicate"
  /\ at' = [at EXCEPT ![r].step = "second"]
  /\ UNCHANGED <<waiting, own, pending, reported>>

Finish(r) ==
  /\ at[r].step = "finish" /\ r \notin own
  /\ at' = [at EXCEPT ![r] = NextIteration(@)]
  /\ UNCHANGED <<waiting, own, pending, reported>>

\* The last task of a sequence.
EndsSequence(k) ==
  Program[k].sequence # 0 /\ (k = Len(Program) \/ Program[k + 1].sequence # Program[k].sequence)

WrongJoined(r) == TRUE

\* SequenceTask::execute waits for the asynchronous activities of its own tasks.
Joined(r) ==
  EndsSequence(at[r].task) =>
    \A a \in pending[r] : TaskOf(a).sequence # TaskOf(at[r]).sequence

Join(r) ==
  /\ at[r].step = "join" /\ Joined(r)
  /\ at' = [at EXCEPT ![r] = NextTask(@)]
  /\ UNCHANGED <<waiting, own, pending, reported>>

Post(r) ==
  /\ at[r].step = "post"
  /\ at' = [at EXCEPT ![r].step = "ended"]
  /\ reported' = TRUE
  /\ UNCHANGED <<waiting, own, pending>>

Rank(r) ==
  \/ Pass(r) \/ Wait(r) \/ StartAsync(r) \/ Start(r)
  \/ Communicated(r) \/ Finish(r) \/ Join(r) \/ Post(r)

\* The network, a CPU, a GPU or a disk is done with an activity of r.
ActivityEnds(r) ==
  /\ \/ own' = own \ {r} /\ r \in own /\ UNCHANGED pending
     \/ \E a \in pending[r] : pending' = [pending EXCEPT ![r] = @ \ {a}] /\ UNCHANGED own
  /\ UNCHANGED <<at, waiting, reported>>

Next == \E r \in Ranks : Rank(r) \/ ActivityEnds(r)

\* SimGrid does not stop while an actor can run or an activity is to end.  (It treats every
\* rank fairly, but that is not needed.)
FairSpec == Init /\ [][Next]_vars /\ WF_vars(Next)

-----------------------------------------------------------------------------
(* Properties.                                                             *)

\* Ranks that wait at the barrier wait for the same thing: the one barrier of the job
\* serves synchronization, both ends of every transfer, the phase and its end, and no rank
\* is let go by ranks that are somewhere else.
SameBarrier == \A q, r \in waiting : at[q] = at[r]

\* While rank 0 moves the data of a task, every other rank has reached that very iteration
\* of that task and none has left it.
AllTakePart ==
  at[0].step = "communicate" =>
    \A r \in Ranks \ {0} : at[r] = [at[0] EXCEPT !.step = "second"]

\* The asynchronous activities of a sequence end with it, although those of other tasks may
\* go on over any number of tasks and iterations.
SequenceContained ==
  \A r \in Ranks : \A a \in pending[r] :
    TaskOf(a).sequence # 0 =>
      TaskOf(at[r]).sequence = TaskOf(a).sequence /\ at[r].round = a.round

\* When the end of the workload is reported, nothing of it is still going on anywhere.
NothingOutlives == reported => own = {} /\ \A r \in Ranks : pending[r] = {}

\* The end is reported: no rank is left alone at a barrier.
EndIsReported == <>reported
=============================================================================
