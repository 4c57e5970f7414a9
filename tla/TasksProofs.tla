----------------------------- MODULE TasksProofs -----------------------------
(***************************************************************************)
(* For every program of tasks, number of ranks and placement of barriers:  *)
(* the ranks of a job are never on different sides of a barrier.  The      *)
(* places of a workload have an order, in which each rank moves on; the    *)
(* inductive invariant says of every barrier in it that either all ranks   *)
(* have passed it or none has.                                             *)
(***************************************************************************)
EXTENDS Tasks, SequenceTheorems, TLAPS

Spec == Init /\ [][Next]_vars

-----------------------------------------------------------------------------
(* The order of the places.                                                *)

Order(step) ==
  CASE step = "head" -> 0 [] step = "sync" -> 1 [] step = "start" -> 2 [] step = "first" -> 3
    [] step = "communicate" -> 4 [] step = "second" -> 5 [] step = "finish" -> 6
    [] step = "join" -> 7 [] step = "last" -> 8 [] step = "post" -> 9 [] step = "ended" -> 10

Before(a, b) ==
  \/ a.round < b.round
  \/ a.round = b.round /\ a.task < b.task
  \/ a.round = b.round /\ a.task = b.task /\ a.iteration < b.iteration
  \/ a.round = b.round /\ a.task = b.task /\ a.iteration = b.iteration /\ Order(a.step) < Order(b.step)

\* The places that a rank really comes to.
OnTheWay(a) ==
  /\ a \in Place
  /\ a.iteration <= TaskOf(a).iterations
  /\ a.step = "head" => a.task = 1 /\ a.iteration = 1
  /\ a.step \in {"first", "communicate", "second"} => TaskOf(a).sends /\ ~TaskOf(a).asynchronous
  /\ a.step = "join" => a.iteration = TaskOf(a).iterations
  /\ a.step \in {"last", "post", "ended"} =>
       a.round = Rounds /\ a.task = Len(Program) /\ a.iteration = TaskOf(a).iterations

Barriers == {b \in Place : OnTheWay(b) /\ Meets(b)}

\* From a the way leads to z, past no barrier.
Leads(a, z) == OnTheWay(z) /\ \A b \in Barriers : Before(b, a) <=> Before(b, z)

LEMMA ProgramTasks ==
  /\ Len(Program) \in Nat \ {0} /\ DOMAIN Program = 1 .. Len(Program) /\ Rounds \in Nat \ {0}
  /\ \A k \in DOMAIN Program : /\ Program[k] \in Task /\ Program[k].iterations \in Nat \ {0}
                               /\ Program[k].asynchronous => ~Program[k].sends
<1>1. Program \in Seq(Task) /\ Program # <<>> /\ Rounds \in Nat \ {0}
  BY TasksSpecification
<1>2. Len(Program) \in Nat /\ DOMAIN Program = 1 .. Len(Program) /\ Len(Program) # 0
  BY <1>1, EmptySeq, LenProperties
<1>3. \A k \in DOMAIN Program : Program[k] \in Task
  BY <1>1, ElementOfSeq, <1>2
<1>4. \A t \in Task : t.iterations \in Nat \ {0}
  BY DEF Task
<1> QED
  BY <1>1, <1>2, <1>3, <1>4, TasksSpecification

LEMMA FirstRank == 0 \in Ranks
BY TasksSpecification DEF Ranks

LEMMA TotalOrder ==
  ASSUME NEW a \in Place, NEW b \in Place
  PROVE  ~Before(a, a) /\ (~Before(a, b) /\ ~Before(b, a) => a = b)
<1>1. /\ a.round \in Nat /\ a.task \in Nat /\ a.iteration \in Nat
      /\ b.round \in Nat /\ b.task \in Nat /\ b.iteration \in Nat
  BY ProgramTasks DEF Place
<1>2. a.step \in {"head", "sync", "start", "first", "communicate", "second", "finish", "join",
                  "last", "post", "ended"}
  BY DEF Place
<1>3. b.step \in {"head", "sync", "start", "first", "communicate", "second", "finish", "join",
                  "last", "post", "ended"}
  BY DEF Place
<1>4. Order(a.step) \in 0 .. 10 /\ Order(b.step) \in 0 .. 10
  BY <1>2, <1>3 DEF Order
<1>5. Order(a.step) = Order(b.step) => a.step = b.step
  BY <1>2, <1>3 DEF Order
<1>6. ASSUME ~Before(a, b), ~Before(b, a)
      PROVE  a.round = b.round /\ a.task = b.task /\ a.iteration = b.iteration /\ a.step = b.step
  BY <1>1, <1>4, <1>5, <1>6 DEF Before
<1> QED
  BY <1>1, <1>4, <1>6 DEF Before, Place

LEMMA PlaceFields ==
  ASSUME NEW a \in Place, NEW r \in 1 .. Rounds, NEW t \in DOMAIN Program, NEW i \in Nat \ {0},
         NEW s \in {"sync", "head"},
         NEW b, b = [round |-> r, task |-> t, iteration |-> i, step |-> s]
  PROVE  b \in Place /\ b.round = r /\ b.task = t /\ b.iteration = i /\ b.step = s
BY DEF Place

LEMMA StepLeads ==
  ASSUME NEW a, OnTheWay(a), NEW s,
         \/ a.step = "head" /\ ~Meets(a) /\ s = "sync"
         \/ a.step = "sync" /\ ~Meets(a) /\ s = "start"
         \/ a.step = "start" /\ ~TaskOf(a).asynchronous /\ s = IF TaskOf(a).sends THEN "first" ELSE "finish"
         \/ a.step = "communicate" /\ s = "second"
         \/ a.step = "post" /\ s = "ended"
  PROVE  Leads(a, [a EXCEPT !.step = s])
<1>1. OnTheWay([a EXCEPT !.step = s])
  BY DEF OnTheWay, Place, TaskOf
<1>2. ASSUME NEW b \in Barriers
      PROVE  Before(b, a) <=> Before(b, [a EXCEPT !.step = s])
  BY ProgramTasks DEF Barriers, OnTheWay, Place, TaskOf, Before, Order, Meets
<1> QED
  BY <1>1, <1>2 DEF Leads

LEMMA IterationLeads ==
  ASSUME NEW a, OnTheWay(a),
         a.step = "finish" \/ (a.step = "start" /\ TaskOf(a).asynchronous)
  PROVE  Leads(a, NextIteration(a))
<1>1. OnTheWay(NextIteration(a))
  <2>1. CASE a.iteration < TaskOf(a).iterations
    <3>1. NextIteration(a)
            = [round |-> a.round, task |-> a.task, iteration |-> a.iteration + 1, step |-> "sync"]
      BY <2>1 DEF NextIteration, OnTheWay, Place
    <3>5. a \in Place /\ a.round \in 1 .. Rounds /\ a.task \in DOMAIN Program /\ a.iteration \in Nat \ {0}
      BY DEF OnTheWay, Place
    <3>6. a.iteration + 1 \in Nat \ {0}
      BY <3>5
    <3>2. /\ NextIteration(a) \in Place
          /\ NextIteration(a).task = a.task /\ NextIteration(a).step = "sync"
          /\ NextIteration(a).iteration = a.iteration + 1
      BY <3>1, <3>5, <3>6, PlaceFields
    <3>3. a.iteration + 1 <= TaskOf(a).iterations
      BY <2>1, ProgramTasks DEF OnTheWay, Place, TaskOf
    <3> QED
      BY <3>2, <3>3 DEF OnTheWay, TaskOf
  <2>2. CASE ~(a.iteration < TaskOf(a).iterations)
    <3>1. NextIteration(a) = [a EXCEPT !.step = "join"] /\ a.iteration = TaskOf(a).iterations
      BY <2>2, ProgramTasks DEF NextIteration, OnTheWay, Place, TaskOf
    <3> QED
      BY <3>1 DEF OnTheWay, Place, TaskOf
  <2> QED
    BY <2>1, <2>2
<1>2. ASSUME NEW b \in Barriers
      PROVE  Before(b, a) <=> Before(b, NextIteration(a))
  BY ProgramTasks DEF Barriers, OnTheWay, Place, TaskOf, NextIteration, Task, Before, Order, Meets
<1> QED
  BY <1>1, <1>2 DEF Leads

LEMMA TaskLeads ==
  ASSUME NEW a, OnTheWay(a), a.step = "join"
  PROVE  Leads(a, NextTask(a))
<1>1. OnTheWay(NextTask(a))
  <2>1. CASE a.task < Len(Program)
    <3>1. NextTask(a)
            = [round |-> a.round, task |-> a.task + 1, iteration |-> 1, step |-> "sync"]
      BY <2>1 DEF NextTask, OnTheWay, Place
    <3>5. a \in Place /\ a.round \in 1 .. Rounds /\ 1 \in Nat \ {0}
      BY DEF OnTheWay, Place
    <3>2. a.task + 1 \in DOMAIN Program
      BY <2>1, ProgramTasks DEF OnTheWay, Place
    <3>3. /\ NextTask(a) \in Place
          /\ NextTask(a).step = "sync" /\ NextTask(a).task = a.task + 1 /\ NextTask(a).iteration = 1
      BY <3>1, <3>2, <3>5, PlaceFields
    <3>4. 1 <= Program[a.task + 1].iterations
      BY <3>2, ProgramTasks
    <3> QED
      BY <3>3, <3>4 DEF OnTheWay, TaskOf
  <2>2. CASE ~(a.task < Len(Program)) /\ a.round < Rounds
    <3>1. NextTask(a)
            = [round |-> a.round + 1, task |-> 1, iteration |-> 1, step |-> "head"]
      BY <2>2 DEF NextTask, OnTheWay, Place
    <3>5. a \in Place /\ 1 \in Nat \ {0}
      BY DEF OnTheWay
    <3>2. 1 \in DOMAIN Program /\ a.round + 1 \in 1 .. Rounds
      BY <2>2, ProgramTasks DEF OnTheWay, Place
    <3>3. /\ NextTask(a) \in Place
          /\ NextTask(a).step = "head" /\ NextTask(a).task = 1 /\ NextTask(a).iteration = 1
      BY <3>1, <3>2, <3>5, PlaceFields
    <3>4. 1 <= Program[1].iterations
      BY <3>2, ProgramTasks
    <3> QED
      BY <3>3, <3>4 DEF OnTheWay, TaskOf
  <2>3. CASE ~(a.task < Len(Program)) /\ ~(a.round < Rounds)
    <3>1. NextTask(a) = [a EXCEPT !.step = "last"] /\ a.task = Len(Program) /\ a.round = Rounds
      BY <2>3, ProgramTasks DEF NextTask, OnTheWay, Place
    <3> QED
      BY <3>1 DEF OnTheWay, Place, TaskOf
  <2> QED
    BY <2>1, <2>2, <2>3
<1>2. ASSUME NEW b \in Barriers
      PROVE  Before(b, a) <=> Before(b, NextTask(a))
  BY ProgramTasks DEF Barriers, OnTheWay, Place, TaskOf, NextTask, Task, Before, Order, Meets
<1> QED
  BY <1>1, <1>2 DEF Leads

-----------------------------------------------------------------------------
(* The inductive invariant.                                                *)

Typed ==
  /\ at \in [Ranks -> Place] /\ waiting \subseteq Ranks /\ own \subseteq Ranks
  /\ pending \in [Ranks -> SUBSET Place] /\ reported \in BOOLEAN

\* The ranks are on the same side of every barrier.
Aligned ==
  /\ \A r \in Ranks : OnTheWay(at[r])
  /\ \A q, r \in Ranks : \A b \in Barriers : Before(b, at[q]) <=> Before(b, at[r])

\* A rank waits at a barrier, and for its asynchronous activities before that.
Waits == \A r \in waiting : Meets(at[r]) /\ AsyncDone(r)

\* What is left to rank 0, and what no longer goes on when a rank has ended.
Roles ==
  /\ \A r \in Ranks : at[r].step \in {"communicate", "post"} => r = 0
  /\ \A r \in Ranks : at[r].step \in {"post", "ended"} => pending[r] = {}
  /\ \A r \in own : at[r].step \in {"first", "communicate", "second", "finish"}
  /\ reported => at[0].step = "ended"

TasksInv == Typed /\ Aligned /\ Waits /\ Roles /\ SequenceContained

\* Ranks at barriers are at the same one, since they are on the same side of either.
LEMMA BarriersMeet ==
  ASSUME Aligned, NEW q \in Ranks, NEW r \in Ranks, Meets(at[q]), Meets(at[r])
  PROVE  at[q] = at[r]
<1>1. at[q] \in Barriers /\ at[r] \in Barriers /\ at[q] \in Place /\ at[r] \in Place
  BY DEF Aligned, Barriers, OnTheWay
<1>2. ~Before(at[q], at[q]) /\ ~Before(at[r], at[r])
  BY <1>1, TotalOrder
<1>3. ~Before(at[q], at[r]) /\ ~Before(at[r], at[q])
  BY <1>1, <1>2 DEF Aligned
<1> QED
  BY <1>1, <1>3, TotalOrder

\* A rank that moves past no barrier leaves the ranks aligned.
LEMMA MoveAligns ==
  ASSUME Typed, Aligned, NEW r \in Ranks, NEW z, Leads(at[r], z), at' = [at EXCEPT ![r] = z]
  PROVE  at' \in [Ranks -> Place] /\ Aligned' /\ at'[r] = z /\ \A q \in Ranks \ {r} : at'[q] = at[q]
<1>1. z \in Place /\ OnTheWay(z) /\ \A b \in Barriers : Before(b, at[r]) <=> Before(b, z)
  BY DEF Leads, OnTheWay
<1>2. at' \in [Ranks -> Place] /\ at'[r] = z /\ \A q \in Ranks \ {r} : at'[q] = at[q]
  BY <1>1 DEF Typed
<1>3. \A q \in Ranks : OnTheWay(at'[q])
  BY <1>1, <1>2 DEF Aligned
<1>4. \A q \in Ranks : \A b \in Barriers : Before(b, at'[q]) <=> Before(b, at[q])
  BY <1>1, <1>2
<1>5. \A p, q \in Ranks : \A b \in Barriers : Before(b, at'[p]) <=> Before(b, at'[q])
  BY <1>4 DEF Aligned
<1> QED
  BY <1>2, <1>3, <1>5 DEF Aligned

\* Where a rank goes from a barrier: the next step of the same iteration of the same task.
LEMMA Beyond ==
  ASSUME Typed, Aligned, NEW r \in Ranks, Meets(at[r])
  PROVE  /\ OnTheWay(Proceed(r))
         /\ Proceed(r).round = at[r].round /\ Proceed(r).task = at[r].task
         /\ Proceed(r).iteration = at[r].iteration
         /\ \/ at[r].step = "head" /\ Proceed(r).step = "sync"
            \/ at[r].step = "sync" /\ Proceed(r).step = "start"
            \/ at[r].step = "first" /\ Proceed(r).step = IF r = 0 THEN "communicate" ELSE "second"
            \/ at[r].step = "second" /\ Proceed(r).step = "finish"
            \/ at[r].step = "last" /\ Proceed(r).step = IF r = 0 THEN "post" ELSE "ended"
<1> DEFINE a == at[r]
<1>1. OnTheWay(a) /\ a \in Place /\ a.step \in {"head", "sync", "first", "second", "last"}
  BY DEF Aligned, OnTheWay, Meets
<1>2. CASE a.step = "head"
  <2>1. Proceed(r) = [a EXCEPT !.step = "sync"]
    BY <1>2 DEF Proceed
  <2> QED
    BY <1>1, <1>2, <2>1 DEF OnTheWay, Place, TaskOf
<1>3. CASE a.step = "sync"
  <2>1. Proceed(r) = [a EXCEPT !.step = "start"]
    BY <1>3 DEF Proceed
  <2> QED
    BY <1>1, <1>3, <2>1 DEF OnTheWay, Place, TaskOf
<1>4. CASE a.step = "first"
  <2>1. Proceed(r) = [a EXCEPT !.step = IF r = 0 THEN "communicate" ELSE "second"]
    BY <1>4 DEF Proceed
  <2> QED
    BY <1>1, <1>4, <2>1 DEF OnTheWay, Place, TaskOf
<1>5. CASE a.step = "second"
  <2>1. Proceed(r) = [a EXCEPT !.step = "finish"]
    BY <1>5 DEF Proceed
  <2> QED
    BY <1>1, <1>5, <2>1 DEF OnTheWay, Place, TaskOf
<1>6. CASE a.step = "last"
  <2>1. Proceed(r) = [a EXCEPT !.step = IF r = 0 THEN "post" ELSE "ended"]
    BY <1>6 DEF Proceed
  <2> QED
    BY <1>1, <1>6, <2>1 DEF OnTheWay, Place, TaskOf
<1> QED
  BY <1>1, <1>2, <1>3, <1>4, <1>5, <1>6

\* The barrier lets go ranks that are all at one place, and leaves them aligned.
LEMMA ReleaseAligns ==
  ASSUME Typed, Aligned, \A r \in Ranks : Meets(at[r]), at' = [q \in Ranks |-> Proceed(q)]
  PROVE  at' \in [Ranks -> Place] /\ Aligned'
<1>1. \A q \in Ranks : at'[q] = Proceed(q) /\ OnTheWay(at'[q])
  BY Beyond
<1>2. at' \in [Ranks -> Place]
  BY <1>1 DEF OnTheWay
<1>3. ASSUME NEW p \in Ranks, NEW q \in Ranks, NEW b \in Barriers
      PROVE  Before(b, at'[p]) <=> Before(b, at'[q])
  <2>1. at[p] = at[q]
    BY BarriersMeet
  <2>2. /\ at'[p].round = at'[q].round /\ at'[p].task = at'[q].task
        /\ at'[p].iteration = at'[q].iteration
        /\ \/ at'[p].step = at'[q].step
           \/ {at'[p].step, at'[q].step} = {"communicate", "second"}
           \/ {at'[p].step, at'[q].step} = {"post", "ended"}
    BY <1>1, <2>1, Beyond
  <2>3. b.step \in {"head", "sync", "first", "second", "last"}
    BY DEF Barriers, Meets
  <2>4. Order(b.step) < Order(at'[p].step) <=> Order(b.step) < Order(at'[q].step)
    <3>1. CASE at'[p].step = at'[q].step
      BY <3>1
    <3>2. CASE {at'[p].step, at'[q].step} = {"communicate", "second"}
      <4>1. Order(b.step) < 4 <=> Order(b.step) < 5
        BY <2>3 DEF Order
      <4>2. Order("communicate") = 4 /\ Order("second") = 5
        BY DEF Order
      <4> QED
        BY <3>2, <4>1, <4>2
    <3>3. CASE {at'[p].step, at'[q].step} = {"post", "ended"}
      <4>1. Order(b.step) < 9 <=> Order(b.step) < 10
        BY <2>3 DEF Order
      <4>2. Order("post") = 9 /\ Order("ended") = 10
        BY DEF Order
      <4> QED
        BY <3>3, <4>1, <4>2
    <3> QED
      BY <2>2, <3>1, <3>2, <3>3
  <2> QED
    BY <2>2, <2>4 DEF Before
<1> QED
  BY <1>1, <1>2, <1>3 DEF Aligned

LEMMA InitTasks == Init => TasksInv
<1> SUFFICES ASSUME Init PROVE TasksInv
  OBVIOUS
<1>1. \A r \in Ranks : at[r] = [round |-> 1, task |-> 1, iteration |-> 1, step |-> "head"]
  BY DEF Init
<1>2. [round |-> 1, task |-> 1, iteration |-> 1, step |-> "head"] \in Place
  BY ProgramTasks DEF Place
<1>3. Typed
  BY <1>2 DEF Init, Typed
<1>4. \A r \in Ranks : OnTheWay(at[r])
  <2>1. 1 <= Program[1].iterations
    BY ProgramTasks
  <2> QED
    BY <1>1, <1>2, <2>1 DEF OnTheWay, TaskOf
<1>5. Aligned
  BY <1>1, <1>4 DEF Aligned
<1>6. Waits /\ Roles /\ SequenceContained
  BY <1>1 DEF Init, Waits, Roles, SequenceContained
<1> QED
  BY <1>3, <1>5, <1>6 DEF TasksInv

\* What an action of a rank alone, other than at a barrier, does to where it is.
LEMMA MovesAlone ==
  ASSUME TasksInv, NEW r \in Ranks,
         Pass(r) \/ StartAsync(r) \/ Start(r) \/ Communicated(r) \/ Finish(r) \/ Join(r) \/ Post(r)
  PROVE  /\ at' \in [Ranks -> Place] /\ Aligned'
         /\ ~Meets(at[r]) /\ at[r].step # "ended"
         /\ \A q \in Ranks \ {r} : at'[q] = at[q]
         /\ UNCHANGED waiting
<1> DEFINE a == at[r]
<1>0. a \in Place /\ OnTheWay(a) /\ Typed /\ Aligned
  BY DEF TasksInv, Aligned, OnTheWay
<1>1. PICK z : Leads(a, z) /\ at' = [at EXCEPT ![r] = z]
  <2>1. CASE Pass(r)
    <3>1. PICK s : /\ s = IF a.step = "head" THEN "sync" ELSE "start"
                   /\ Proceed(r) = [a EXCEPT !.step = s]
      BY <2>1 DEF Pass, Meets, Proceed
    <3>2. Leads(a, [a EXCEPT !.step = s])
      BY <1>0, <2>1, <3>1, StepLeads DEF Pass, Meets
    <3> QED
      BY <2>1, <3>1, <3>2 DEF Pass
  <2>2. CASE StartAsync(r)
    BY <1>0, <2>2, IterationLeads DEF StartAsync, Typed
  <2>3. CASE Start(r)
    <3>1. Leads(a, [a EXCEPT !.step = IF TaskOf(a).sends THEN "first" ELSE "finish"])
      BY <1>0, <2>3, StepLeads DEF Start
    <3> QED
      BY <2>3, <3>1 DEF Start, Typed
  <2>4. CASE Communicated(r)
    <3>1. Leads(a, [a EXCEPT !.step = "second"])
      BY <1>0, <2>4, StepLeads DEF Communicated
    <3> QED
      BY <2>4, <3>1 DEF Communicated
  <2>5. CASE Finish(r)
    BY <1>0, <2>5, IterationLeads DEF Finish
  <2>6. CASE Join(r)
    BY <1>0, <2>6, TaskLeads DEF Join
  <2>7. CASE Post(r)
    <3>1. Leads(a, [a EXCEPT !.step = "ended"])
      BY <1>0, <2>7, StepLeads DEF Post
    <3> QED
      BY <2>7, <3>1 DEF Post
  <2> QED
    BY <2>1, <2>2, <2>3, <2>4, <2>5, <2>6, <2>7
<1>2. at' \in [Ranks -> Place] /\ Aligned' /\ \A q \in Ranks \ {r} : at'[q] = at[q]
  BY <1>0, <1>1, MoveAligns
<1>3. ~Meets(at[r]) /\ at[r].step # "ended" /\ UNCHANGED waiting
  BY DEF Pass, StartAsync, Start, Communicated, Finish, Join, Post, Meets
<1> QED
  BY <1>2, <1>3

\* Waiting ranks stay where they are while another rank moves.
LEMMA StillWaits ==
  ASSUME TasksInv, NEW r \in Ranks, ~Meets(at[r]), \A q \in Ranks \ {r} : at'[q] = at[q],
         \A q \in Ranks \ {r} : pending'[q] = pending[q], UNCHANGED waiting
  PROVE  Waits'
<1>1. r \notin waiting /\ waiting' \subseteq Ranks \ {r}
  BY DEF TasksInv, Waits, Typed
<1>2. \A q \in waiting' : at'[q] = at[q] /\ pending'[q] = pending[q] /\ Meets(at[q]) /\ AsyncDone(q)
  BY <1>1 DEF TasksInv, Waits
<1> QED
  BY <1>2 DEF Waits, AsyncDone

\* Moving on within a task, or with an activity less, a rank stays within its sequence.
LEMMA StaysContained ==
  ASSUME TasksInv,
         \A q \in Ranks : /\ pending'[q] \subseteq pending[q] \cup {at[q]}
                          /\ at'[q].task = at[q].task /\ at'[q].round = at[q].round
  PROVE  SequenceContained'
<1> SUFFICES ASSUME NEW q \in Ranks, NEW a \in pending'[q], TaskOf(a).sequence # 0
             PROVE  TaskOf(at'[q]).sequence = TaskOf(a).sequence /\ at'[q].round = a.round
  BY DEF SequenceContained, TaskOf
<1>1. TaskOf(at'[q]) = TaskOf(at[q]) /\ at'[q].round = at[q].round
  BY DEF TaskOf
<1>2. CASE a = at[q]
  BY <1>1, <1>2
<1>3. CASE a \in pending[q]
  BY <1>1, <1>3 DEF TasksInv, SequenceContained
<1> QED
  BY <1>2, <1>3

\* Where a rank is after an iteration, and after a task.
LEMMA AfterIteration ==
  ASSUME NEW a \in Place
  PROVE  /\ NextIteration(a).task = a.task /\ NextIteration(a).round = a.round
         /\ NextIteration(a).step \in {"sync", "join"}
BY DEF NextIteration, Place

LEMMA AfterTask ==
  ASSUME NEW a \in Place
  PROVE  /\ NextTask(a).step \in {"sync", "head", "last"}
         /\ a.task < Len(Program) => NextTask(a).task = a.task + 1 /\ NextTask(a).round = a.round
         /\ ~(a.task < Len(Program)) => a.task = Len(Program)
<1>1. a.task \in 1 .. Len(Program) /\ Len(Program) \in Nat
  BY ProgramTasks DEF Place
<1> QED
  BY <1>1 DEF NextTask, Place

LEMMA PassKeeps == ASSUME TasksInv, NEW r \in Ranks, Pass(r) PROVE TasksInv'
<1>1. /\ at' \in [Ranks -> Place] /\ Aligned' /\ ~Meets(at[r])
      /\ \A q \in Ranks \ {r} : at'[q] = at[q]
  BY MovesAlone
<1>2. UNCHANGED <<waiting, own, pending, reported>>
  BY DEF Pass
<1>3. /\ at[r].step \in {"head", "sync"} /\ at'[r].step \in {"sync", "start"}
      /\ at'[r].task = at[r].task /\ at'[r].round = at[r].round
  BY DEF Pass, Meets, Proceed, TasksInv, Typed, Place
<1>4. Typed'
  BY <1>1, <1>2 DEF TasksInv, Typed
<1>5. Waits'
  BY <1>1, <1>2, StillWaits
<1>6. Roles'
  BY <1>1, <1>2, <1>3, FirstRank DEF TasksInv, Typed, Roles
<1>7. SequenceContained'
  BY <1>1, <1>2, <1>3, StaysContained
<1> QED
  BY <1>1, <1>4, <1>5, <1>6, <1>7 DEF TasksInv

LEMMA StartAsyncKeeps == ASSUME TasksInv, NEW r \in Ranks, StartAsync(r) PROVE TasksInv'
<1>1. /\ at' \in [Ranks -> Place] /\ Aligned' /\ ~Meets(at[r])
      /\ \A q \in Ranks \ {r} : at'[q] = at[q]
  BY MovesAlone
<1>2. UNCHANGED <<waiting, own, reported>> /\ at[r].step = "start"
  BY DEF StartAsync
<1>3. at[r] \in Place /\ pending \in [Ranks -> SUBSET Place]
  BY DEF TasksInv, Typed
<1>4. /\ at'[r].task = at[r].task /\ at'[r].round = at[r].round /\ at'[r].step \in {"sync", "join"}
  BY <1>3, AfterIteration DEF StartAsync, TasksInv, Typed
<1>5. /\ pending' \in [Ranks -> SUBSET Place] /\ pending'[r] = pending[r] \cup {at[r]}
      /\ \A q \in Ranks \ {r} : pending'[q] = pending[q]
  BY <1>3 DEF StartAsync
<1>6. Typed'
  BY <1>1, <1>2, <1>5 DEF TasksInv, Typed
<1>7. Waits'
  BY <1>1, <1>2, <1>5, StillWaits
<1>8. Roles'
  BY <1>1, <1>2, <1>4, <1>5, FirstRank DEF TasksInv, Typed, Roles
<1>9. SequenceContained'
  BY <1>1, <1>4, <1>5, StaysContained
<1> QED
  BY <1>1, <1>6, <1>7, <1>8, <1>9 DEF TasksInv

LEMMA StartKeeps == ASSUME TasksInv, NEW r \in Ranks, Start(r) PROVE TasksInv'
<1>1. /\ at' \in [Ranks -> Place] /\ Aligned' /\ ~Meets(at[r])
      /\ \A q \in Ranks \ {r} : at'[q] = at[q]
  BY MovesAlone
<1>2. UNCHANGED <<waiting, pending, reported>> /\ at[r].step = "start" /\ own' \subseteq own \cup {r}
  BY DEF Start
<1>3. /\ at'[r].step \in {"first", "finish"}
      /\ at'[r].task = at[r].task /\ at'[r].round = at[r].round
  BY DEF Start, TasksInv, Typed, Place
<1>4. Typed'
  BY <1>1, <1>2 DEF TasksInv, Typed
<1>5. Waits'
  BY <1>1, <1>2, StillWaits
<1>6. Roles'
  BY <1>1, <1>2, <1>3, FirstRank DEF TasksInv, Typed, Roles
<1>7. SequenceContained'
  BY <1>1, <1>2, <1>3, StaysContained
<1> QED
  BY <1>1, <1>4, <1>5, <1>6, <1>7 DEF TasksInv

LEMMA CommunicatedKeeps == ASSUME TasksInv, NEW r \in Ranks, Communicated(r) PROVE TasksInv'
<1>1. /\ at' \in [Ranks -> Place] /\ Aligned' /\ ~Meets(at[r])
      /\ \A q \in Ranks \ {r} : at'[q] = at[q]
  BY MovesAlone
<1>2. UNCHANGED <<waiting, own, pending, reported>> /\ at[r].step = "communicate"
  BY DEF Communicated
<1>3. at'[r].step = "second" /\ at'[r].task = at[r].task /\ at'[r].round = at[r].round
  BY DEF Communicated, TasksInv, Typed, Place
<1>4. Typed'
  BY <1>1, <1>2 DEF TasksInv, Typed
<1>5. Waits'
  BY <1>1, <1>2, StillWaits
<1>6. Roles'
  BY <1>1, <1>2, <1>3, FirstRank DEF TasksInv, Typed, Roles
<1>7. SequenceContained'
  BY <1>1, <1>2, <1>3, StaysContained
<1> QED
  BY <1>1, <1>4, <1>5, <1>6, <1>7 DEF TasksInv

LEMMA FinishKeeps == ASSUME TasksInv, NEW r \in Ranks, Finish(r) PROVE TasksInv'
<1>1. /\ at' \in [Ranks -> Place] /\ Aligned' /\ ~Meets(at[r])
      /\ \A q \in Ranks \ {r} : at'[q] = at[q]
  BY MovesAlone
<1>2. UNCHANGED <<waiting, own, pending, reported>> /\ at[r].step = "finish" /\ r \notin own
  BY DEF Finish
<1>3. /\ at'[r].task = at[r].task /\ at'[r].round = at[r].round /\ at'[r].step \in {"sync", "join"}
  BY AfterIteration DEF Finish, TasksInv, Typed
<1>4. Typed'
  BY <1>1, <1>2 DEF TasksInv, Typed
<1>5. Waits'
  BY <1>1, <1>2, StillWaits
<1>6. Roles'
  BY <1>1, <1>2, <1>3, FirstRank DEF TasksInv, Typed, Roles
<1>7. SequenceContained'
  BY <1>1, <1>2, <1>3, StaysContained
<1> QED
  BY <1>1, <1>4, <1>5, <1>6, <1>7 DEF TasksInv

LEMMA JoinKeeps == ASSUME TasksInv, NEW r \in Ranks, Join(r) PROVE TasksInv'
<1>1. /\ at' \in [Ranks -> Place] /\ Aligned' /\ ~Meets(at[r])
      /\ \A q \in Ranks \ {r} : at'[q] = at[q]
  BY MovesAlone
<1>2. UNCHANGED <<waiting, own, pending, reported>> /\ at[r].step = "join" /\ Joined(r)
  BY DEF Join
<1>3. at[r] \in Place /\ at'[r] = NextTask(at[r])
  BY DEF Join, TasksInv, Typed
<1>4. at'[r].step \in {"sync", "head", "last"}
  BY <1>3, AfterTask
<1>5. Typed'
  BY <1>1, <1>2 DEF TasksInv, Typed
<1>6. Waits'
  BY <1>1, <1>2, StillWaits
<1>7. Roles'
  BY <1>1, <1>2, <1>4, FirstRank DEF TasksInv, Typed, Roles
<1>8. ASSUME NEW a \in pending[r], TaskOf(a).sequence # 0
      PROVE  TaskOf(at'[r]).sequence = TaskOf(a).sequence /\ at'[r].round = a.round
  <2>1. TaskOf(at[r]).sequence = TaskOf(a).sequence /\ at[r].round = a.round
    BY <1>8 DEF TasksInv, SequenceContained
  <2>2. ~EndsSequence(at[r].task)
    BY <1>2, <2>1 DEF Joined
  <2>3. /\ at[r].task # Len(Program)
        /\ Program[at[r].task + 1].sequence = Program[at[r].task].sequence
    BY <1>8, <2>1, <2>2 DEF EndsSequence, TaskOf
  <2>4. at'[r].task = at[r].task + 1 /\ at'[r].round = at[r].round
    BY <1>3, <2>3, AfterTask
  <2> QED
    BY <2>1, <2>3, <2>4 DEF TaskOf
<1>9. SequenceContained'
  <2> SUFFICES ASSUME NEW q \in Ranks, NEW a \in pending[q], TaskOf(a).sequence # 0
               PROVE  TaskOf(at'[q]).sequence = TaskOf(a).sequence /\ at'[q].round = a.round
    BY <1>2 DEF SequenceContained, TaskOf
  <2>1. CASE q = r
    BY <1>8, <2>1
  <2>2. CASE q # r
    BY <1>1, <2>2 DEF TasksInv, SequenceContained
  <2> QED
    BY <2>1, <2>2
<1> QED
  BY <1>1, <1>5, <1>6, <1>7, <1>9 DEF TasksInv

LEMMA PostKeeps == ASSUME TasksInv, NEW r \in Ranks, Post(r) PROVE TasksInv'
<1>1. /\ at' \in [Ranks -> Place] /\ Aligned' /\ ~Meets(at[r])
      /\ \A q \in Ranks \ {r} : at'[q] = at[q]
  BY MovesAlone
<1>2. UNCHANGED <<waiting, own, pending>> /\ reported' = TRUE /\ at[r].step = "post"
  BY DEF Post
<1>3. at'[r].step = "ended" /\ at'[r].task = at[r].task /\ at'[r].round = at[r].round
  BY DEF Post, TasksInv, Typed, Place
<1>4. Typed'
  BY <1>1, <1>2 DEF TasksInv, Typed
<1>5. Waits'
  BY <1>1, <1>2, StillWaits
<1>6. r = 0 /\ Roles'
  BY <1>1, <1>2, <1>3, FirstRank DEF TasksInv, Typed, Roles
<1>7. SequenceContained'
  BY <1>1, <1>2, <1>3, StaysContained
<1> QED
  BY <1>1, <1>4, <1>5, <1>6, <1>7 DEF TasksInv

LEMMA WaitKeeps == ASSUME TasksInv, NEW r \in Ranks, Wait(r) PROVE TasksInv'
<1>0. Typed /\ Aligned /\ Meets(at[r]) /\ AsyncDone(r) /\ UNCHANGED <<own, pending, reported>>
  BY DEF Wait, TasksInv
<1>1. CASE waiting \cup {r} # Ranks
  <2>1. waiting' = waiting \cup {r} /\ UNCHANGED at
    BY <1>1 DEF Wait
  <2>2. Typed'
    BY <1>0, <2>1 DEF Typed
  <2>3. Aligned'
    BY <1>0, <2>1 DEF Aligned
  <2>4. Waits'
    BY <1>0, <2>1 DEF TasksInv, Waits, AsyncDone
  <2>5. Roles'
    BY <1>0, <2>1 DEF TasksInv, Roles
  <2>6. SequenceContained'
    BY <1>0, <2>1 DEF TasksInv, SequenceContained, TaskOf
  <2> QED
    BY <2>2, <2>3, <2>4, <2>5, <2>6 DEF TasksInv
<1>2. CASE waiting \cup {r} = Ranks
  <2>1. waiting' = {} /\ at' = [q \in Ranks |-> Proceed(q)]
    BY <1>2 DEF Wait
  <2>2. \A q \in Ranks : Meets(at[q]) /\ AsyncDone(q)
    BY <1>0, <1>2 DEF TasksInv, Waits
  <2>3. at' \in [Ranks -> Place] /\ Aligned'
    BY <1>0, <2>1, <2>2, ReleaseAligns
  <2>4. Typed' /\ Waits'
    BY <1>0, <2>1, <2>3 DEF Typed, Waits
  <2>5. ASSUME NEW q \in Ranks
        PROVE  /\ at'[q].round = at[q].round /\ at'[q].task = at[q].task
               /\ \/ at[q].step = "head" /\ at'[q].step = "sync"
                  \/ at[q].step = "sync" /\ at'[q].step = "start"
                  \/ at[q].step = "first" /\ at'[q].step = IF q = 0 THEN "communicate" ELSE "second"
                  \/ at[q].step = "second" /\ at'[q].step = "finish"
                  \/ at[q].step = "last" /\ at'[q].step = IF q = 0 THEN "post" ELSE "ended"
    BY <1>0, <2>1, <2>2, Beyond
  <2>6. \A q \in Ranks : at'[q].step \in {"communicate", "post"} => q = 0
    BY <2>5
  <2>7. \A q \in Ranks : at'[q].step \in {"post", "ended"} => pending[q] = {}
    BY <2>2, <2>5 DEF AsyncDone
  <2>8. \A q \in own : at'[q].step \in {"first", "communicate", "second", "finish"}
    BY <2>5 DEF TasksInv, Typed, Roles
  <2>9. ~reported
    BY <2>2, FirstRank DEF TasksInv, Roles, Meets
  <2>10. Roles'
    BY <1>0, <2>6, <2>7, <2>8, <2>9 DEF Roles
  <2>11. SequenceContained'
    BY <1>0, <2>5, StaysContained
  <2> QED
    BY <2>3, <2>4, <2>10, <2>11 DEF TasksInv
<1> QED
  BY <1>1, <1>2

LEMMA ActivityEndsKeeps == ASSUME TasksInv, NEW r \in Ranks, ActivityEnds(r) PROVE TasksInv'
<1>1. /\ UNCHANGED <<at, waiting, reported>> /\ own' \subseteq own
      /\ pending' \in [Ranks -> SUBSET Place] /\ \A q \in Ranks : pending'[q] \subseteq pending[q]
  BY DEF ActivityEnds, TasksInv, Typed
<1>2. Typed'
  BY <1>1 DEF TasksInv, Typed
<1>3. Aligned'
  BY <1>1 DEF TasksInv, Aligned
<1>4. Waits'
  BY <1>1 DEF TasksInv, Typed, Waits, AsyncDone
<1>5. Roles'
  BY <1>1 DEF TasksInv, Typed, Roles
<1>6. SequenceContained'
  BY <1>1, StaysContained
<1> QED
  BY <1>2, <1>3, <1>4, <1>5, <1>6 DEF TasksInv

LEMMA NextTasks == TasksInv /\ [Next]_vars => TasksInv'
<1> SUFFICES ASSUME TasksInv, [Next]_vars PROVE TasksInv'
  OBVIOUS
<1>1. CASE UNCHANGED vars
  <2>1. Typed' /\ Aligned' /\ Roles'
    BY <1>1 DEF vars, TasksInv, Typed, Aligned, Roles
  <2>2. Waits' /\ SequenceContained'
    BY <1>1 DEF vars, TasksInv, Waits, AsyncDone, SequenceContained, TaskOf
  <2> QED
    BY <2>1, <2>2 DEF TasksInv
<1>2. CASE Next
  BY <1>2, PassKeeps, StartAsyncKeeps, StartKeeps, CommunicatedKeeps, FinishKeeps, JoinKeeps,
     PostKeeps, WaitKeeps, ActivityEndsKeeps DEF Next, Rank
<1> QED
  BY <1>1, <1>2

LEMMA TasksInvariant == Spec => []TasksInv
BY InitTasks, NextTasks, PTL DEF Spec

-----------------------------------------------------------------------------
(* The properties.                                                         *)

\* Ranks that wait at the barrier of the job (synchronized tasks, both ends of every
\* transfer, phases and the end of the workload all use it) wait at the same place of the
\* program, whatever the tasks, their asynchronous activities and the number of ranks.
THEOREM OneBarrierServesAll == Spec => []SameBarrier
<1>1. TasksInv => SameBarrier
  BY BarriersMeet DEF TasksInv, Typed, Waits, SameBarrier
<1> QED
  BY <1>1, TasksInvariant, PTL

\* While rank 0 transfers the data of a task for all (parallel_execute between the barriers
\* of execute), every other rank is at the second barrier of that iteration of that task.
THEOREM TransfersAreShared == Spec => []AllTakePart
<1> DEFINE a == at[0]
           first == [a EXCEPT !.step = "first"]
           second == [a EXCEPT !.step = "second"]
<1>1. ASSUME TasksInv, a.step = "communicate", NEW r \in Ranks \ {0}
      PROVE  at[r] = second
  <2>1. a \in Place /\ OnTheWay(a) /\ at[r] \in Place /\ OnTheWay(at[r])
    BY <1>1, FirstRank DEF TasksInv, Typed, Aligned
  <2>2. /\ first \in Barriers /\ first.round = a.round /\ first.task = a.task
        /\ first.iteration = a.iteration /\ first.step = "first"
    BY <1>1, <2>1 DEF Barriers, OnTheWay, Meets, Place, TaskOf
  <2>3. /\ second \in Barriers /\ second.round = a.round /\ second.task = a.task
        /\ second.iteration = a.iteration /\ second.step = "second"
    BY <1>1, <2>1 DEF Barriers, OnTheWay, Meets, Place, TaskOf
  <2>4. /\ a.round \in Nat /\ a.task \in Nat /\ a.iteration \in Nat
        /\ at[r].round \in Nat /\ at[r].task \in Nat /\ at[r].iteration \in Nat
    BY <2>1, ProgramTasks DEF Place
  <2>5. Before(first, a) /\ ~Before(second, a)
    BY <1>1, <2>2, <2>3, <2>4 DEF Before, Order
  <2>6. Before(first, at[r]) /\ ~Before(second, at[r])
    BY <1>1, <2>2, <2>3, <2>5, FirstRank DEF TasksInv, Aligned
  <2>7. Order(at[r].step) \in 0 .. 10
    BY <2>1 DEF Place, Order
  <2>8. Order("first") = 3 /\ Order("second") = 5
    BY DEF Order
  <2>9. /\ at[r].round = a.round /\ at[r].task = a.task /\ at[r].iteration = a.iteration
        /\ 3 < Order(at[r].step) /\ ~(5 < Order(at[r].step))
    BY <2>2, <2>3, <2>4, <2>6, <2>7, <2>8 DEF Before
  <2>10. at[r].step \in {"communicate", "second"}
    BY <2>1, <2>9 DEF Place, Order
  <2>11. at[r].step = "second"
    BY <1>1, <2>10 DEF TasksInv, Roles
  <2> QED
    BY <2>1, <2>9, <2>11 DEF Place
<1>2. TasksInv => AllTakePart
  BY <1>1 DEF AllTakePart
<1> QED
  BY <1>2, TasksInvariant, PTL

\* The asynchronous activities of a sequence task end before any of its ranks goes on to
\* what follows the sequence.
THEOREM SequencesContain == Spec => []SequenceContained
<1>1. TasksInv => SequenceContained
  BY DEF TasksInv
<1> QED
  BY <1>1, TasksInvariant, PTL

\* A rank past the last barrier has all the others there with it.
LEMMA EndsTogether ==
  ASSUME TasksInv, NEW q \in Ranks, at[q].step \in {"post", "ended"}, NEW r \in Ranks
  PROVE  at[r].step \in {"post", "ended"}
<1> DEFINE end == [round |-> Rounds, task |-> Len(Program),
                   iteration |-> Program[Len(Program)].iterations, step |-> "last"]
<1>1. /\ end \in Barriers /\ end.round = Rounds /\ end.task = Len(Program)
      /\ end.iteration = Program[Len(Program)].iterations /\ end.step = "last"
  <2>1. Len(Program) \in DOMAIN Program /\ Rounds \in 1 .. Rounds
    BY ProgramTasks
  <2>2. Program[Len(Program)].iterations \in Nat \ {0}
    BY <2>1, ProgramTasks
  <2>3. end \in Place
    BY <2>1, <2>2 DEF Place
  <2> QED
    BY <2>2, <2>3 DEF Barriers, OnTheWay, Meets, TaskOf
<1>2. OnTheWay(at[q]) /\ OnTheWay(at[r]) /\ at[r] \in Place
  BY DEF TasksInv, Typed, Aligned
<1>3. Before(end, at[q])
  BY <1>1, <1>2 DEF OnTheWay, TaskOf, Before, Order
<1>4. Before(end, at[r])
  BY <1>1, <1>3 DEF TasksInv, Aligned
<1>5. /\ at[r].round \in 1 .. Rounds /\ at[r].task \in 1 .. Len(Program)
      /\ at[r].iteration \in Nat /\ at[r].iteration <= Program[at[r].task].iterations
  BY <1>2, ProgramTasks DEF OnTheWay, Place, TaskOf
<1>6. Order(at[r].step) \in 0 .. 10 /\ Order("last") = 8
  BY <1>2 DEF Place, Order
<1>7. at[r].round = Rounds /\ at[r].task = Len(Program)
  BY <1>1, <1>4, <1>5, ProgramTasks DEF Before
<1>8. Program[Len(Program)].iterations \in Nat
  BY ProgramTasks
<1>9. 8 < Order(at[r].step)
  BY <1>1, <1>4, <1>5, <1>6, <1>7, <1>8, ProgramTasks DEF Before
<1> QED
  BY <1>2, <1>9 DEF Place, Order

\* When WORKLOAD_PROCESSED is posted, no rank has an activity left, and none will start one.
THEOREM NothingIsLeftRunning == Spec => []NothingOutlives
<1>1. ASSUME TasksInv, reported, NEW r \in Ranks
      PROVE  at[r].step \in {"post", "ended"}
  BY <1>1, FirstRank, EndsTogether DEF TasksInv, Roles
<1>2. ASSUME TasksInv, reported
      PROVE  own = {} /\ \A r \in Ranks : pending[r] = {}
  <2>1. \A r \in Ranks : pending[r] = {}
    BY <1>1, <1>2 DEF TasksInv, Roles
  <2>2. \A r \in Ranks : r \notin own
    BY <1>1, <1>2 DEF TasksInv, Roles
  <2>3. own \subseteq Ranks
    BY <1>2 DEF TasksInv, Typed
  <2> QED
    BY <2>1, <2>2, <2>3
<1>3. TasksInv => NothingOutlives
  BY <1>2 DEF NothingOutlives
<1> QED
  BY <1>3, TasksInvariant, PTL
-----------------------------------------------------------------------------
(* What the end of the job rests on: the fairness of EndIsReported apart,   *)
(* some rank or activity can always go on until the end is reported, and   *)
(* whoever goes on comes closer to it.                                     *)

\* The guards of Next: what r can do, or an activity of r that is to end.
Ready(r) ==
  \/ at[r].step \in {"head", "sync", "first", "second", "last"} /\ ~Meets(at[r])
  \/ Meets(at[r]) /\ AsyncDone(r) /\ r \notin waiting
  \/ at[r].step \in {"start", "communicate", "post"}
  \/ at[r].step = "finish" /\ r \notin own
  \/ at[r].step = "join" /\ Joined(r)
  \/ r \in own \/ pending[r] # {}

\* A rank that moves alone moves forward, and only with its report does rank 0 end.
LEMMA MovesForward ==
  ASSUME TasksInv, NEW r \in Ranks,
         Pass(r) \/ StartAsync(r) \/ Start(r) \/ Communicated(r) \/ Finish(r) \/ Join(r)
  PROVE  /\ Before(at[r], at'[r]) /\ at'[r].step # "ended"
         /\ \A q \in Ranks \ {r} : at'[q] = at[q]
         /\ UNCHANGED <<waiting, reported>>
<1> DEFINE a == at[r]
<1>0. /\ a \in Place /\ at \in [Ranks -> Place] /\ OnTheWay(a)
      /\ a.round \in Nat /\ a.task \in 1 .. Len(Program) /\ a.iteration \in Nat
  BY ProgramTasks DEF TasksInv, Typed, Aligned, Place
<1>1. UNCHANGED <<waiting, reported>>
  BY DEF Pass, StartAsync, Start, Communicated, Finish, Join
<1>2. CASE Pass(r)
  <2>1. PICK s \in {"sync", "start"} : at' = [at EXCEPT ![r] = [a EXCEPT !.step = s]]
                                      /\ s = IF a.step = "head" THEN "sync" ELSE "start"
    BY <1>2 DEF Pass, Meets, Proceed
  <2> QED
    BY <1>0, <1>1, <1>2, <2>1 DEF Pass, Meets, Before, Order, Place
<1>3. CASE StartAsync(r) \/ Finish(r)
  <2>1. a.step \in {"start", "finish"} /\ at' = [at EXCEPT ![r] = NextIteration(a)]
    BY <1>0, <1>3 DEF StartAsync, Finish
  <2> QED
    BY <1>0, <1>1, <2>1 DEF NextIteration, Before, Order, Place
<1>4. CASE Start(r)
  <2>1. PICK s \in {"first", "finish"} : at' = [at EXCEPT ![r] = [a EXCEPT !.step = s]]
    BY <1>0, <1>4 DEF Start
  <2> QED
    BY <1>0, <1>1, <1>4, <2>1 DEF Start, Before, Order, Place
<1>5. CASE Communicated(r)
  <2>1. at' = [at EXCEPT ![r] = [a EXCEPT !.step = "second"]]
    BY <1>0, <1>5 DEF Communicated
  <2> QED
    BY <1>0, <1>1, <1>5, <2>1 DEF Communicated, Before, Order, Place
<1>6. CASE Join(r)
  <2>1. a.step = "join" /\ at' = [at EXCEPT ![r] = NextTask(a)]
    BY <1>0, <1>6 DEF Join
  <2> QED
    BY <1>0, <1>1, <2>1 DEF NextTask, Before, Order, Place
<1> QED
  BY <1>2, <1>3, <1>4, <1>5, <1>6

\* The last rank to come to a barrier does not wait, and rank 0 ends with its report.
Pending == waiting # Ranks /\ (at[0].step = "ended" => reported)

LEMMA StepsNeedGuards == Next => \E r \in Ranks : Ready(r)
<1> SUFFICES ASSUME NEW r \in Ranks, Rank(r) \/ ActivityEnds(r)
             PROVE  Ready(r)
  BY DEF Next
<1>1. CASE ActivityEnds(r)
  BY <1>1 DEF ActivityEnds, Ready
<1>2. CASE Rank(r)
  BY <1>2 DEF Rank, Pass, Wait, StartAsync, Start, Communicated, Finish, Join, Post, Ready
<1> QED
  BY <1>1, <1>2

LEMMA NextPending == TasksInv /\ Pending /\ [Next]_vars => Pending'
<1> SUFFICES ASSUME TasksInv, Pending, [Next]_vars PROVE Pending'
  OBVIOUS
<1>0. at \in [Ranks -> Place] /\ waiting \subseteq Ranks /\ 0 \in Ranks
  BY FirstRank DEF TasksInv, Typed
<1>1. CASE UNCHANGED vars
  BY <1>1 DEF vars, Pending
<1>2. ASSUME NEW r \in Ranks, Wait(r)
      PROVE  Pending'
  <2>1. CASE waiting \cup {r} = Ranks
    <3>1. waiting' = {} /\ at' = [q \in Ranks |-> Proceed(q)] /\ UNCHANGED reported
      BY <1>2, <2>1 DEF Wait
    <3>2. Meets(at[0])
      BY <1>0, <1>2, <2>1 DEF Wait, TasksInv, Waits
    <3>3. at'[0].step # "ended"
      BY <1>0, <3>1, <3>2, Beyond DEF TasksInv
    <3> QED
      BY <1>0, <3>1, <3>3 DEF Pending
  <2>2. CASE waiting \cup {r} # Ranks
    BY <1>2, <2>2 DEF Wait, Pending
  <2> QED
    BY <2>1, <2>2
<1>3. ASSUME NEW r \in Ranks, Post(r)
      PROVE  Pending'
  BY <1>3 DEF Post, Pending
<1>4. ASSUME NEW r \in Ranks, Pass(r) \/ StartAsync(r) \/ Start(r) \/ Communicated(r) \/ Finish(r) \/ Join(r)
      PROVE  Pending'
  BY <1>0, <1>4, MovesForward DEF Pending, TasksInv
<1>5. ASSUME NEW r \in Ranks, ActivityEnds(r)
      PROVE  Pending'
  BY <1>5 DEF ActivityEnds, Pending
<1> QED
  BY <1>1, <1>2, <1>3, <1>4, <1>5 DEF Next, Rank

LEMMA AlwaysPending == Spec => []Pending
<1>1. Init => Pending
  BY FirstRank DEF Init, Pending
<1> QED
  BY <1>1, NextPending, TasksInvariant, PTL DEF Spec

\* As long as the end of the workload has not been reported, a rank can go on or an activity
\* is to end: no rank is left at a barrier to which another will not come, and none waits for
\* an activity that nobody has started (the safety part of EndIsReported).
THEOREM SomethingReady == Spec => [](reported \/ \E r \in Ranks : Ready(r))
<1>1. ASSUME TasksInv, Pending, ~reported
      PROVE  \E r \in Ranks : Ready(r)
  <2>1. PICK r \in Ranks : r \notin waiting
    BY <1>1 DEF Pending, TasksInv, Typed
  <2>2. at[r] \in Place /\ OnTheWay(at[r]) /\ at[0] \in Place /\ OnTheWay(at[0]) /\ 0 \in Ranks
    BY <1>1, FirstRank DEF TasksInv, Typed, Aligned
  <2>3. CASE at[r].step = "ended"
    <3>1. at[0].step \in {"post", "ended"}
      BY <1>1, <2>2, <2>3, EndsTogether
    <3> QED
      BY <1>1, <2>2, <3>1 DEF Pending, Ready
  <2>4. CASE at[r].step # "ended"
    <3>1. at[r].step = "join" /\ ~Joined(r) => pending[r] # {}
      BY DEF Joined
    <3>2. ~AsyncDone(r) => pending[r] # {}
      BY DEF AsyncDone
    <3> QED
      BY <2>1, <2>2, <2>4, <3>1, <3>2 DEF Place, Ready
  <2> QED
    BY <2>3, <2>4
<1> QED
  BY <1>1, TasksInvariant, AlwaysPending, PTL

\* No step takes a rank back: what is repeated are iterations, and their number is given.
RanksAdvance == [][\A r \in Ranks : at'[r] = at[r] \/ Before(at[r], at'[r])]_vars

\* A barrier lets a rank go forward only, as does every step of a rank of its own.
THEOREM RanksOnlyAdvance == Spec => RanksAdvance
<1>1. ASSUME TasksInv, [Next]_vars, NEW q \in Ranks
      PROVE  at'[q] = at[q] \/ Before(at[q], at'[q])
  <2>1. at[q] \in Place /\ at \in [Ranks -> Place] /\ at[q].round \in Nat /\ at[q].task \in Nat
    BY <1>1, ProgramTasks DEF TasksInv, Typed, Place
  <2>2. CASE UNCHANGED vars
    BY <2>2 DEF vars
  <2>3. ASSUME NEW r \in Ranks, Wait(r)
        PROVE  at'[q] = at[q] \/ Before(at[q], at'[q])
    <3>1. CASE waiting \cup {r} = Ranks
      <4>1. Meets(at[q]) /\ at'[q] = Proceed(q)
        BY <1>1, <2>3, <3>1 DEF Wait, TasksInv, Waits
      <4>2. /\ at'[q].round = at[q].round /\ at'[q].task = at[q].task
            /\ at'[q].iteration = at[q].iteration
            /\ Order(at[q].step) < Order(at'[q].step)
        BY <1>1, <4>1, Beyond DEF TasksInv, Order
      <4> QED
        BY <4>2 DEF Before
    <3>2. CASE waiting \cup {r} # Ranks
      BY <2>3, <3>2 DEF Wait
    <3> QED
      BY <3>1, <3>2
  <2>4. ASSUME NEW r \in Ranks, Post(r)
        PROVE  at'[q] = at[q] \/ Before(at[q], at'[q])
    BY <2>1, <2>4 DEF Post, Before, Order, Place
  <2>5. ASSUME NEW r \in Ranks, ActivityEnds(r)
        PROVE  at'[q] = at[q]
    BY <2>5 DEF ActivityEnds
  <2> QED
    BY <1>1, <2>2, <2>3, <2>4, <2>5, MovesForward DEF Next, Rank
<1>2. TasksInv /\ [Next]_vars => [\A r \in Ranks : at'[r] = at[r] \/ Before(at[r], at'[r])]_vars
  BY <1>1
<1> QED
  BY <1>2, TasksInvariant, PTL DEF Spec, RanksAdvance
=============================================================================
