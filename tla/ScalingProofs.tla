---------------------------- MODULE ScalingProofs ----------------------------
(***************************************************************************)
(* The sizes of the tasks of a job, for any workload and any sequence of   *)
(* decisions of the algorithm: what ranks execute was sized for them.      *)
(***************************************************************************)
EXTENDS Scaling, WellFoundedInduction, TLAPS

-----------------------------------------------------------------------------
(* The inductive invariant.                                                *)

Typed ==
  /\ workload \in Workloads
  /\ stage \in {"file", "rejected", "queued", "working", "asking", "reconfiguring"}
  /\ at \in [Groups -> Kinds \cup {"none", "barrier", "done"}]
  /\ sized = [k \in Kinds |-> sized[k]]

Started == stage \in {"working", "asking", "reconfiguring"}

\* Where the groups of ranks can be.
Stages ==
  /\ ~Started => fault = "none"
  /\ ~Started \/ stage = "asking" => \A g \in Groups : at[g] = "none"
  /\ stage = "reconfiguring" => at["gained"] = "none"
  /\ at["retained"] # "on_expansion" /\ at["gained"] # "on_init"

\* All tasks of the phases of one kind have the sizes of configuration c.
SizedFor(k, c) == Sizes(k) \subseteq {c}

\* The present configuration, which came with the run-time argument a.
Present(a) == [nodes |-> executing.nodes, gpus |-> executing.gpus, argument |-> a]
Gained(a) == [nodes |-> gained, gpus |-> executing.gpus, argument |-> a]

\* Everything that ranks execute, or will come to by themselves, was sized for the present
\* configuration; between the two halves of a reconfiguration the arguments stand still.
Configured(a) ==
  /\ SizedFor("phases", Present(a))
  /\ at["retained"] = "on_init" => SizedFor("on_init", Present(a))
  /\ (\E g \in Groups : at[g] = "on_reconfiguration") => SizedFor("on_reconfiguration", Present(a))
  /\ at["gained"] \in {"on_reconfiguration", "barrier", "on_expansion"} =>
       SizedFor("on_expansion", Gained(a))
  /\ stage = "reconfiguring" => a = argument /\ SizedFor("on_reconfiguration", Present(a))

\* A rigid job has its sizes from its workload, and never asks.
RigidJobs ==
  Rigid => /\ stage \notin {"asking", "reconfiguring"}
           /\ stage = "queued" =>
                \E a : \A k \in Kinds : SizedFor(k, [nodes |-> requested.nodes, gpus |-> requested.gpus,
                                                     argument |-> a])

SizesInv ==
  /\ Typed /\ Stages /\ RigidJobs /\ LateFailures
  /\ Started /\ fault = "none" => \E a : Configured(a)
  /\ Started => assigned.nodes \in Nat \ {0}

-----------------------------------------------------------------------------
(* Faults.                                                                 *)

LEMMA LeastNumber ==
  ASSUME NEW T \in SUBSET Nat, T # {}
  PROVE  \E i \in T : \A k \in T : i <= k
<1>1. PICK i \in T : \A k \in T : <<k, i>> \notin OpToRel(<, Nat)
  BY NatLessThanWellFounded, WFMin
<1>2. \A k \in T : <<k, i>> \in Nat \X Nat /\ (k < i => <<k, i>> \in OpToRel(<, Nat))
  BY DEF OpToRel
<1>3. \A k \in T : ~(k < i)
  BY <1>1, <1>2
<1> QED
  BY <1>3

LEMMA Models ==
  ASSUME Typed
  PROVE  /\ DOMAIN workload = Kinds
         /\ \A k \in Kinds : /\ DOMAIN workload[k] \subseteq Nat
                             /\ \A i \in DOMAIN workload[k] : workload[k][i] \in TaskModel
<1>1. /\ DOMAIN workload = Kinds
      /\ \A k \in Kinds : workload[k] \in Seq(TaskModel)
  BY ScalingSpecification DEF Typed
<1>2. \A k \in Kinds : /\ DOMAIN workload[k] = 1 .. Len(workload[k]) /\ Len(workload[k]) \in Nat
                       /\ workload[k] \in [1 .. Len(workload[k]) -> TaskModel]
  BY <1>1
<1> QED
  BY <1>1, <1>2

\* A task whose pattern has no meaning for some number of GPUs or nodes.
NoMeaning(t) ==
  /\ t.bytes # Null
  /\ t.communication = "MATRIX" \/ (t.type = "gpu" /\ t.communication = "GATHER")

\* A task with a formula that run-time arguments must complete.
NamesArgument(t) == "formula" \in {t.iterations, t.flops, t.bytes}

\* What a fault of scaling says of the workload and of the configuration.
LEMMA TaskFaults ==
  ASSUME NEW t \in TaskModel, NEW c
  PROVE  /\ TaskFault(t, c) \in {"none", "model", "bounds", "unsupported"}
         /\ TaskFault(t, c) = "model" => NamesArgument(t) /\ c.argument \notin Naming
         /\ TaskFault(t, c) = "unsupported" => NoMeaning(t)
         /\ TaskFault(t, c) = "bounds" => c.nodes = 0
<1>1. \A given \in {t.iterations, t.flops, t.bytes} :
        Invalid(given, c) => NamesArgument(t) /\ c.argument \notin Naming
  BY DEF Invalid, NamesArgument
<1>2. Unsupported(t, c.nodes, c.gpus) => NoMeaning(t)
  BY DEF Unsupported, NoMeaning
<1>3. OutOfBounds(t, c.nodes) => c.nodes = 0
  BY DEF OutOfBounds
<1> QED
  BY <1>1, <1>2, <1>3 DEF TaskFault

MayFault(f, c) ==
  /\ f \in {"none", "model", "bounds", "unsupported"}
  /\ f = "model" => /\ c.argument \notin Naming
                    /\ \E k \in Kinds : \E i \in DOMAIN workload[k] : NamesArgument(workload[k][i])
  /\ f = "unsupported" => \E k \in Kinds : \E i \in DOMAIN workload[k] : NoMeaning(workload[k][i])
  /\ f = "bounds" => c.nodes = 0

LEMMA FirstFaults ==
  ASSUME Typed, NEW k \in Kinds, NEW c
  PROVE  MayFault(FirstFault(workload[k], c), c)
<1> DEFINE tasks == workload[k]
           faulty == {i \in DOMAIN tasks : TaskFault(tasks[i], c) # "none"}
           first == CHOOSE i \in faulty : \A n \in faulty : i <= n
<1>1. CASE faulty = {}
  BY <1>1 DEF FirstFault, MayFault
<1>2. CASE faulty # {}
  <2>1. first \in faulty
    <3>1. faulty \subseteq Nat
      BY Models
    <3>2. \E i \in faulty : \A n \in faulty : i <= n
      BY <1>2, <3>1, LeastNumber
    <3> QED
      BY <3>2
  <2>2. FirstFault(tasks, c) = TaskFault(tasks[first], c) /\ first \in DOMAIN tasks
    BY <1>2, <2>1 DEF FirstFault
  <2>3. tasks[first] \in TaskModel
    BY <2>2, Models
  <2> HIDE DEF first
  <2>4. /\ TaskFault(tasks[first], c) \in {"none", "model", "bounds", "unsupported"}
        /\ TaskFault(tasks[first], c) = "model" => NamesArgument(tasks[first]) /\ c.argument \notin Naming
        /\ TaskFault(tasks[first], c) = "unsupported" => NoMeaning(tasks[first])
        /\ TaskFault(tasks[first], c) = "bounds" => c.nodes = 0
    BY <2>3, TaskFaults
  <2> QED
    BY <2>2, <2>4 DEF MayFault
<1> QED
  BY <1>1, <1>2

LEMMA ScalingFaults ==
  ASSUME Typed, NEW k \in Kinds, NEW c
  PROVE  MayFault(ScalingFault(<<k>>, c), c) /\ MayFault(ScalingFault(<<"phases", k>>, c), c)
<1>1. ScalingFault(<<k>>, c) = FirstFault(workload[k], c)
  BY DEF ScalingFault
<1>2. \/ ScalingFault(<<"phases", k>>, c) = FirstFault(workload["phases"], c)
      \/ ScalingFault(<<"phases", k>>, c) = FirstFault(workload[k], c)
  BY DEF ScalingFault
<1>3. "phases" \in Kinds
  BY DEF Kinds
<1> QED
  BY <1>1, <1>2, <1>3, FirstFaults

-----------------------------------------------------------------------------
(* Sizes.                                                                  *)

LEMMA ScaledSizes ==
  ASSUME NEW s, s = [k \in Kinds |-> s[k]], NEW k \in Kinds, NEW c
  PROVE  /\ ScaledTo(s, k, c) = [q \in Kinds |-> ScaledTo(s, k, c)[q]]
         /\ ScaledTo(s, k, c)[k] = AllSized(k, c)
         /\ \A q \in Kinds \ {k} : ScaledTo(s, k, c)[q] = s[q]
<1>1. ScaledTo(s, k, c) = [s EXCEPT ![k] = AllSized(k, c)]
  BY DEF ScaledTo
<1>2. DOMAIN s = Kinds
  OBVIOUS
<1>3. [s EXCEPT ![k] = AllSized(k, c)] = [q \in Kinds |-> IF q = k THEN AllSized(k, c) ELSE s[q]]
  BY <1>2
<1> HIDE DEF ScaledTo, AllSized
<1> QED
  BY <1>1, <1>3

\* Job::setState scales the phases that are left and a one-time phase.
LEMMA ScaleSizes ==
  ASSUME Typed, NEW once \in Kinds, NEW c, Scale(once, c)
  PROVE  /\ sized' = [k \in Kinds |-> sized'[k]]
         /\ SizedFor("phases", c)' /\ SizedFor(once, c)'
         /\ MayFault(fault', c)
<1> DEFINE s == ScaledTo(sized, "phases", c)
<1>1. "phases" \in Kinds /\ sized = [k \in Kinds |-> sized[k]]
  BY DEF Kinds, Typed
<1>2. sized' = ScaledTo(s, once, c) /\ fault' = ScalingFault(<<"phases", once>>, c)
  BY DEF Scale
<1>3. s = [k \in Kinds |-> s[k]] /\ s["phases"] = AllSized("phases", c)
  BY <1>1, ScaledSizes
<1> HIDE DEF s
<1>4. /\ sized' = [k \in Kinds |-> sized'[k]]
      /\ sized'[once] = AllSized(once, c)
      /\ \A q \in Kinds \ {once} : sized'[q] = s[q]
  BY <1>2, <1>3, ScaledSizes
<1>5. sized'["phases"] = AllSized("phases", c)
  BY <1>1, <1>3, <1>4
<1>6. \A k \in {"phases", once} : {sized'[k][i] : i \in DOMAIN sized'[k]} \subseteq {c}
  <2>1. \A k \in {"phases", once} : sized'[k] = AllSized(k, c)
    BY <1>4, <1>5
  <2> QED
    BY <2>1 DEF AllSized
<1>7. SizedFor("phases", c)' /\ SizedFor(once, c)'
  BY <1>6 DEF SizedFor, Sizes
<1> QED
  BY <1>2, <1>4, <1>7, ScalingFaults

-----------------------------------------------------------------------------
(* The steps.                                                              *)

LEMMA InitSizes == Init => SizesInv
<1> SUFFICES ASSUME Init PROVE SizesInv
  OBVIOUS
<1>1. Typed /\ Stages
  BY DEF Init, Typed, Stages, Started, Groups, Kinds
<1>2. RigidJobs /\ LateFailures
  BY DEF Init, RigidJobs, LateFailures
<1>3. ~Started
  BY DEF Init, Started
<1> QED
  BY <1>1, <1>2, <1>3 DEF SizesInv

\* A step that scales nothing and meets with no fault of scaling.
LEMMA NoFault ==
  ASSUME LateFailures, UNCHANGED <<workload, requested>>, fault' \in {"none", "gpus"}
  PROVE  LateFailures'
BY DEF LateFailures, Rigid

\* A step that scales, for a job that is not rigid.
LEMMA FaultIsLate ==
  ASSUME Typed, ~Rigid, UNCHANGED <<workload, requested>>, NEW c, MayFault(fault', c),
         c.nodes = 0 => stage' = "working" /\ gained' = 0 /\ assigned'.new = 0,
         c.argument = argument'
  PROVE  LateFailures'
<1>1. ~Rigid'
  BY DEF Rigid
<1>2. fault' = "bounds" => stage' = "working" /\ gained' = 0 /\ assigned'.new = 0
  BY DEF MayFault
<1>3. fault' = "unsupported" => \E k \in Kinds : \E i \in DOMAIN workload[k] : NoMeaning(workload[k][i])
  BY DEF MayFault
<1>4. fault' = "unsupported" =>
        \E k \in Kinds : \E i \in DOMAIN workload'[k] :
          LET t == workload'[k][i] IN
          /\ t.bytes # Null
          /\ \/ t.communication = "MATRIX"
             \/ t.type = "gpu" /\ t.communication = "GATHER"
  BY <1>3 DEF NoMeaning
<1>5. fault' = "model" =>
        /\ argument' \notin Naming
        /\ \E k \in Kinds : \E i \in DOMAIN workload'[k] :
             LET t == workload'[k][i] IN "formula" \in {t.iterations, t.flops, t.bytes}
  BY DEF MayFault, NamesArgument
<1> QED
  BY <1>1, <1>2, <1>4, <1>5 DEF LateFailures

LEMMA ReadKeeps == ASSUME SizesInv, Read PROVE SizesInv'
<1>1. /\ stage = "file" /\ stage' \in {"queued", "rejected"}
      /\ UNCHANGED <<workload, requested, assigned, argument, at, fault>>
  BY DEF Read
<1>2. fault = "none" /\ ~Started /\ ~Started'
  BY <1>1 DEF SizesInv, Stages, Started
<1> DEFINE c == [nodes |-> requested.nodes, gpus |-> requested.gpus, argument |-> argument]
<1>3. \/ sized' = sized /\ ~(Rigid /\ stage' = "queued")
      \/ sized' = [k \in Kinds |-> AllSized(k, c)]
  BY DEF Read
<1>4. Typed'
  BY <1>1, <1>3 DEF SizesInv, Typed
<1>5. Stages'
  BY <1>1, <1>2 DEF SizesInv, Stages
<1>6. RigidJobs'
  <2> SUFFICES ASSUME Rigid, stage' = "queued"
               PROVE  \E a : \A k \in Kinds :
                        SizedFor(k, [nodes |-> requested.nodes, gpus |-> requested.gpus, argument |-> a])'
    BY <1>1 DEF RigidJobs, Rigid, SizedFor, Sizes
  <2>1. \A k \in Kinds : sized'[k] = AllSized(k, c)
    BY <1>3
  <2>2. \A k \in Kinds : SizedFor(k, c)'
    BY <1>1, <2>1 DEF SizedFor, Sizes, AllSized
  <2> QED
    BY <1>1, <2>2 DEF SizedFor, Sizes
<1>7. LateFailures'
  BY <1>1, <1>2, NoFault DEF SizesInv
<1> QED
  BY <1>2, <1>4, <1>5, <1>6, <1>7 DEF SizesInv

LEMMA AllocateKeeps ==
  ASSUME SizesInv, NEW n \in 1 .. MaxNodes, NEW g \in 0 .. MaxGpus, NEW a \in Arguments,
         Allocate(n, g, a)
  PROVE  SizesInv'
<1> DEFINE c == [nodes |-> n, gpus |-> g, argument |-> a]
<1>1. /\ fault = "none" /\ stage = "queued" /\ stage' = "working"
      /\ Rigid => n = requested.nodes /\ g = requested.gpus
      /\ assigned'.nodes = n /\ argument' = a
      /\ executing' = [nodes |-> n, gpus |-> g] /\ Start(c)
      /\ at' = [at EXCEPT !["retained"] = "on_init"]
      /\ UNCHANGED <<workload, requested, gained>>
  BY DEF Allocate
<1>2. Typed /\ n # 0 /\ n \in Nat
  BY ScalingSpecification DEF SizesInv
<1>3. /\ at' \in [Groups -> Kinds \cup {"none", "barrier", "done"}]
      /\ at'["retained"] = "on_init" /\ at'["gained"] = "none"
      /\ \A q \in Groups : at'[q] \in {"on_init", "none"}
  BY <1>1 DEF SizesInv, Typed, Stages, Started, Groups, Kinds
<1>4. /\ sized' = [k \in Kinds |-> sized'[k]]
      /\ \E x : fault' = "none" => SizedFor("phases", Present(x))' /\ SizedFor("on_init", Present(x))'
      /\ LateFailures'
  <2>1. CASE Rigid
    <3>1. PICK x : \A k \in Kinds : SizedFor(k, [nodes |-> requested.nodes, gpus |-> requested.gpus,
                                                 argument |-> x])
      BY <1>1, <2>1 DEF SizesInv, RigidJobs
    <3>2. UNCHANGED <<sized, fault, workload>>
      BY <1>1, <2>1 DEF Start
    <3>3. Present(x)' = [nodes |-> requested.nodes, gpus |-> requested.gpus, argument |-> x]
      BY <1>1, <2>1 DEF Present
    <3>4. SizedFor("phases", Present(x))' /\ SizedFor("on_init", Present(x))'
      BY <3>1, <3>2, <3>3 DEF SizedFor, Sizes, Kinds
    <3>5. LateFailures'
      BY <1>1, <3>2, NoFault DEF SizesInv
    <3> QED
      BY <1>2, <3>2, <3>4, <3>5 DEF Typed
  <2>2. CASE ~Rigid
    <3>1. Scale("on_init", c) /\ "on_init" \in Kinds
      BY <1>1, <2>2 DEF Start, Kinds
    <3>2. /\ sized' = [k \in Kinds |-> sized'[k]]
          /\ SizedFor("phases", c)' /\ SizedFor("on_init", c)' /\ MayFault(fault', c)
      BY <1>2, <3>1, ScaleSizes
    <3>3. Present(a)' = c
      BY <1>1 DEF Present
    <3>4. SizedFor("phases", Present(a))' /\ SizedFor("on_init", Present(a))'
      BY <3>2, <3>3 DEF SizedFor, Sizes
    <3>5. LateFailures'
      BY <1>1, <1>2, <2>2, <3>2, FaultIsLate
    <3> QED
      BY <3>2, <3>4, <3>5
  <2> QED
    BY <2>1, <2>2
<1>5. Typed'
  BY <1>1, <1>2, <1>3, <1>4 DEF Typed
<1>6. Stages' /\ RigidJobs'
  BY <1>1, <1>3 DEF Stages, Started, RigidJobs
<1>7. fault' = "none" => \E x : Configured(x)'
  BY <1>1, <1>3, <1>4 DEF Configured, Groups
<1> QED
  BY <1>1, <1>2, <1>4, <1>5, <1>6, <1>7 DEF SizesInv

LEMMA DecideKeeps ==
  ASSUME SizesInv, NEW n \in 1 .. MaxNodes, NEW g \in 0 .. MaxGpus, NEW a \in Arguments,
         NEW new \in 0 .. n, NEW reordered \in BOOLEAN, Decide(n, g, new, reordered, a)
  PROVE  SizesInv'
<1>1. /\ stage \in {"working", "asking"} /\ assigned'.nodes = n /\ fault = "none"
      /\ UNCHANGED <<workload, requested, stage, executing, gained, sized, at, fault>>
  BY DEF Decide
<1>2. n \in Nat \ {0}
  BY ScalingSpecification
<1>3. Typed' /\ Stages'
  BY <1>1 DEF SizesInv, Typed, Stages, Started
<1>4. RigidJobs'
  BY <1>1 DEF SizesInv, RigidJobs, Rigid
<1>5. LateFailures'
  BY <1>1, NoFault DEF SizesInv
<1>6. \E x : Configured(x)'
  <2>1. PICK x : Configured(x)
    BY <1>1 DEF SizesInv, Started
  <2>2. Present(x)' = Present(x) /\ Gained(x)' = Gained(x) /\ \A k : Sizes(k)' = Sizes(k)
    BY <1>1 DEF Present, Gained, Sizes
  <2>3. Configured(x)'
    BY <1>1, <2>1, <2>2 DEF Configured, SizedFor
  <2> QED
    BY <2>3
<1> QED
  BY <1>1, <1>2, <1>3, <1>4, <1>5, <1>6 DEF SizesInv

LEMMA ReconfigureKeeps == ASSUME SizesInv, Reconfigure PROVE SizesInv'
<1> DEFINE c == [nodes |-> assigned.nodes, gpus |-> assigned.gpus, argument |-> argument]
<1>1. /\ fault = "none" /\ stage = "asking" /\ stage' = "reconfiguring"
      /\ executing' = [nodes |-> assigned.nodes, gpus |-> assigned.gpus]
      /\ Scale("on_reconfiguration", c)
      /\ UNCHANGED <<workload, requested, assigned, argument, gained>>
      /\ at' = [at EXCEPT !["retained"] = IF assigned.new < assigned.nodes THEN "on_reconfiguration"
                                          ELSE "none"]
  BY DEF Reconfigure
<1>2. Typed /\ ~Rigid /\ assigned.nodes \in Nat \ {0} /\ "on_reconfiguration" \in Kinds
  BY <1>1 DEF SizesInv, RigidJobs, Started, Kinds
<1>3. /\ at' \in [Groups -> Kinds \cup {"none", "barrier", "done"}]
      /\ at'["retained"] \in {"on_reconfiguration", "none"} /\ at'["gained"] = "none"
  BY <1>1 DEF SizesInv, Typed, Stages, Groups, Kinds
<1>4. /\ sized' = [k \in Kinds |-> sized'[k]]
      /\ SizedFor("phases", c)' /\ SizedFor("on_reconfiguration", c)' /\ MayFault(fault', c)
  BY <1>1, <1>2, ScaleSizes
<1>5. LateFailures'
  BY <1>1, <1>2, <1>4, FaultIsLate
<1>6. Typed'
  BY <1>1, <1>2, <1>3, <1>4 DEF Typed
<1>7. Stages'
  BY <1>1, <1>3 DEF Stages, Started
<1>8. RigidJobs'
  BY <1>1, <1>2 DEF RigidJobs, Rigid
<1>9. Configured(argument)'
  <2>1. Present(argument)' = c
    BY <1>1 DEF Present
  <2>2. SizedFor("phases", Present(argument))' /\ SizedFor("on_reconfiguration", Present(argument))'
    BY <1>1, <1>4, <2>1 DEF SizedFor, Sizes
  <2> QED
    BY <1>1, <1>3, <2>2 DEF Configured
<1> QED
  BY <1>1, <1>2, <1>5, <1>6, <1>7, <1>8, <1>9 DEF SizesInv

LEMMA ExpandKeeps == ASSUME SizesInv, Expand PROVE SizesInv'
<1> DEFINE c == [nodes |-> assigned.new, gpus |-> executing.gpus, argument |-> argument]
<1>1. /\ fault = "none" /\ stage = "reconfiguring" /\ stage' = "working"
      /\ gained' = assigned.new /\ fault' = ScalingFault(<<"on_expansion">>, c)
      /\ sized' = ScaledTo(sized, "on_expansion", c)
      /\ at' = [at EXCEPT !["gained"] = IF assigned.new > 0 THEN "on_reconfiguration" ELSE "none"]
      /\ UNCHANGED <<workload, requested, executing, assigned, argument>>
  BY DEF Expand
<1>2. Typed /\ ~Rigid /\ assigned.nodes \in Nat \ {0} /\ "on_expansion" \in Kinds
  BY <1>1 DEF SizesInv, RigidJobs, Started, Kinds
<1>3. /\ at' \in [Groups -> Kinds \cup {"none", "barrier", "done"}]
      /\ at'["gained"] \in {"on_reconfiguration", "none"} /\ at'["retained"] = at["retained"]
      /\ at["retained"] # "on_expansion"
  BY <1>1 DEF SizesInv, Typed, Stages, Groups, Kinds
<1>4. /\ sized' = [k \in Kinds |-> sized'[k]]
      /\ sized'["on_expansion"] = AllSized("on_expansion", c)
      /\ \A k \in Kinds \ {"on_expansion"} : sized'[k] = sized[k]
  BY <1>1, <1>2, ScaledSizes DEF Typed
<1>5. LateFailures'
  <2>1. MayFault(fault', c)
    BY <1>1, <1>2, ScalingFaults
  <2> QED
    BY <1>1, <1>2, <2>1, FaultIsLate
<1>6. Typed'
  BY <1>1, <1>2, <1>3, <1>4 DEF Typed
<1>7. Stages'
  BY <1>1, <1>3 DEF Stages, Started
<1>8. RigidJobs'
  BY <1>1, <1>2 DEF RigidJobs, Rigid
<1>9. \E x : Configured(x)'
  <2>1. PICK x : Configured(x)
    BY <1>1 DEF SizesInv, Started
  <2>2. /\ x = argument /\ SizedFor("phases", Present(x)) /\ SizedFor("on_reconfiguration", Present(x))
        /\ at["retained"] = "on_init" => SizedFor("on_init", Present(x))
    BY <1>1, <2>1 DEF Configured
  <2>3. Present(x)' = Present(x) /\ Gained(x)' = c
    BY <1>1, <2>2 DEF Present, Gained
  <2>4. \A k \in {"phases", "on_reconfiguration", "on_init"} : Sizes(k)' = Sizes(k)
    BY <1>4 DEF Sizes, Kinds
  <2>5. SizedFor("on_expansion", Gained(x))'
    BY <1>4, <2>3 DEF SizedFor, Sizes, AllSized
  <2> QED
    BY <1>1, <1>3, <2>2, <2>3, <2>4, <2>5 DEF Configured, SizedFor
<1> QED
  BY <1>1, <1>2, <1>5, <1>6, <1>7, <1>8, <1>9 DEF SizesInv

\* The steps that change neither the sizes nor the configuration.
LEMMA RanksMove ==
  ASSUME SizesInv, Started, Started', fault = "none", fault' \in {"none", "gpus"},
         UNCHANGED <<workload, requested, executing, assigned, argument, gained, sized>>,
         Rigid => stage' \notin {"asking", "reconfiguring"},
         stage' = "reconfiguring" => stage = "reconfiguring",
         at' \in [Groups -> Kinds \cup {"none", "barrier", "done"}], Stages',
         at'["retained"] = "on_init" => at["retained"] = "on_init",
         \A g \in Groups : at'[g] = "on_reconfiguration" => at[g] = "on_reconfiguration",
         at'["gained"] \in {"on_reconfiguration", "barrier", "on_expansion"} =>
           at["gained"] \in {"on_reconfiguration", "barrier", "on_expansion"}
  PROVE  SizesInv'
<1>1. Typed'
  BY DEF SizesInv, Typed, Started
<1>2. RigidJobs'
  BY DEF RigidJobs, Rigid, Started
<1>3. LateFailures'
  BY NoFault DEF SizesInv
<1>4. \E x : Configured(x)'
  <2>1. PICK x : Configured(x)
    BY DEF SizesInv
  <2>2. Present(x)' = Present(x) /\ Gained(x)' = Gained(x) /\ \A k : Sizes(k)' = Sizes(k)
    BY DEF Present, Gained, Sizes
  <2> QED
    BY <2>1, <2>2 DEF Configured, SizedFor
<1> QED
  BY <1>1, <1>2, <1>3, <1>4 DEF SizesInv

LEMMA PerformKeeps == ASSUME SizesInv, NEW g \in Groups, Perform(g) PROVE SizesInv'
<1>1. /\ fault = "none" /\ at[g] \in Kinds /\ fault' \in {"none", "gpus"}
      /\ UNCHANGED <<workload, requested, stage, executing, assigned, argument, gained, sized>>
  BY DEF Perform
<1>2. Typed /\ Stages /\ RigidJobs
  BY DEF SizesInv
<1>3. Started /\ Started'
  BY <1>1, <1>2 DEF Stages, Started, Kinds
<1>4. /\ at' \in [Groups -> Kinds \cup {"none", "barrier", "done"}]
      /\ \A q \in Groups \ {g} : at'[q] = at[q]
      /\ \/ at'[g] = at[g]
         \/ at[g] \in {"on_init", "on_reconfiguration"} /\ at'[g] = "barrier"
         \/ at[g] = "on_expansion" /\ at'[g] = "phases"
         \/ at[g] = "phases" /\ at'[g] = "done"
  BY <1>1, <1>2 DEF Perform, Typed, Kinds
<1>5. stage # "asking"
  BY <1>1, <1>2 DEF Stages, Kinds
<1>6. Stages'
  BY <1>1, <1>2, <1>3, <1>4, <1>5 DEF Stages, Groups, Kinds
<1>7. /\ at'["retained"] = "on_init" => at["retained"] = "on_init"
      /\ \A q \in Groups : at'[q] = "on_reconfiguration" => at[q] = "on_reconfiguration"
      /\ at'["gained"] \in {"on_reconfiguration", "barrier", "on_expansion"} =>
           at["gained"] \in {"on_reconfiguration", "barrier", "on_expansion"}
  BY <1>2, <1>4 DEF Stages, Groups
<1>8. Rigid => stage' \notin {"asking", "reconfiguring"}
  BY <1>1, <1>2 DEF RigidJobs
<1> QED
  BY <1>1, <1>3, <1>4, <1>6, <1>7, <1>8, RanksMove

LEMMA MeetKeeps == ASSUME SizesInv, Meet PROVE SizesInv'
<1>1. /\ fault = "none" /\ fault' = "none"
      /\ \E g \in Groups : at[g] = "barrier"
      /\ \A g \in Groups : at[g] \in {"barrier", "none"}
      /\ UNCHANGED <<workload, requested, stage, executing, assigned, argument, gained, sized>>
  BY DEF Meet
<1>2. Typed /\ Stages /\ RigidJobs
  BY DEF SizesInv
<1>3. Started /\ Started' /\ stage # "asking"
  BY <1>1, <1>2 DEF Stages, Started
<1>4. /\ at' \in [Groups -> Kinds \cup {"none", "barrier", "done"}]
      /\ at'["retained"] \in {"none", "phases"}
      /\ at'["gained"] = IF at["gained"] = "none" THEN "none" ELSE "on_expansion"
  BY <1>1 DEF Meet, Groups, Kinds
<1>5. Stages'
  BY <1>1, <1>2, <1>3, <1>4 DEF Stages
<1>6. /\ at'["retained"] # "on_init" /\ \A g \in Groups : at'[g] # "on_reconfiguration"
      /\ at'["gained"] \in {"on_reconfiguration", "barrier", "on_expansion"} => at["gained"] = "barrier"
  BY <1>1, <1>4 DEF Groups
<1>7. Rigid => stage' \notin {"asking", "reconfiguring"}
  BY <1>1, <1>2 DEF RigidJobs
<1> QED
  BY <1>1, <1>3, <1>4, <1>5, <1>6, <1>7, RanksMove

LEMMA AskKeeps == ASSUME SizesInv, Ask PROVE SizesInv'
<1>1. /\ fault = "none" /\ fault' = "none" /\ stage = "working" /\ stage' = "asking" /\ ~Rigid
      /\ at' = [g \in Groups |-> "none"]
      /\ UNCHANGED <<workload, requested, executing, assigned, argument, gained, sized>>
  BY DEF Ask
<1>2. Stages' /\ Started /\ Started'
  BY <1>1 DEF Stages, Started, Groups
<1>3. at' \in [Groups -> Kinds \cup {"none", "barrier", "done"}] /\ \A g \in Groups : at'[g] = "none"
  BY <1>1
<1> QED
  BY <1>1, <1>2, <1>3, RanksMove DEF Groups

LEMMA ContinueKeeps == ASSUME SizesInv, Continue PROVE SizesInv'
<1>1. /\ fault = "none" /\ fault' = "none" /\ stage = "asking" /\ stage' = "working"
      /\ at' = [at EXCEPT !["retained"] = "barrier"]
      /\ UNCHANGED <<workload, requested, executing, assigned, argument, gained, sized>>
  BY DEF Continue
<1>2. Typed /\ Stages
  BY DEF SizesInv
<1>3. /\ at' \in [Groups -> Kinds \cup {"none", "barrier", "done"}]
      /\ at'["retained"] = "barrier" /\ at'["gained"] = "none"
  BY <1>1, <1>2 DEF Typed, Stages, Groups
<1>4. Stages' /\ Started /\ Started'
  BY <1>1, <1>3 DEF Stages, Started
<1> QED
  BY <1>1, <1>3, <1>4, RanksMove DEF Groups

LEMMA NextSizes == SizesInv /\ [Next]_vars => SizesInv'
<1> SUFFICES ASSUME SizesInv, [Next]_vars PROVE SizesInv'
  OBVIOUS
<1>1. CASE UNCHANGED vars
  <2>1. UNCHANGED <<workload, requested, stage, executing, assigned, argument, gained, sized, at, fault>>
    BY <1>1 DEF vars
  <2>2. Typed' /\ Stages' /\ LateFailures'
    BY <2>1 DEF SizesInv, Typed, Stages, Started, LateFailures, Rigid
  <2>3. \A k : Sizes(k)' = Sizes(k)
    BY <2>1 DEF Sizes
  <2>4. RigidJobs'
    BY <2>1, <2>3 DEF SizesInv, RigidJobs, Rigid, SizedFor
  <2>5. \A x : Configured(x)' <=> Configured(x)
    BY <2>1, <2>3 DEF Configured, SizedFor, Present, Gained
  <2> QED
    BY <2>1, <2>2, <2>4, <2>5 DEF SizesInv, Started
<1>2. CASE Next
  BY <1>2, ReadKeeps, AllocateKeeps, DecideKeeps, ReconfigureKeeps, ExpandKeeps, PerformKeeps,
     MeetKeeps, AskKeeps, ContinueKeeps DEF Next
<1> QED
  BY <1>1, <1>2

LEMMA SizesInvariant == Spec => []SizesInv
BY InitSizes, NextSizes, PTL DEF Spec

-----------------------------------------------------------------------------
(* The properties.                                                         *)

\* Whatever the algorithm decides and when, no rank executes a phase that was sized for
\* another number of ranks (Job::setState scales before the actors start, setExpandNodes
\* before those of the gained nodes do).
THEOREM SizesFit == Spec => []ShapesFit
<1>1. ASSUME SizesInv, fault = "none", NEW g \in Groups, at[g] \in Kinds, NEW c \in Sizes(at[g])
      PROVE  c.nodes = IF at[g] = "on_expansion" THEN gained ELSE executing.nodes
  <2>1. Started
    BY <1>1 DEF SizesInv, Stages, Kinds
  <2>2. PICK x : Configured(x)
    BY <1>1, <2>1 DEF SizesInv
  <2>3. c = IF at[g] = "on_expansion" THEN Gained(x) ELSE Present(x)
    BY <1>1, <2>2 DEF SizesInv, Stages, Configured, SizedFor, Groups, Kinds
  <2> QED
    BY <2>3 DEF Gained, Present
<1>2. SizesInv => ShapesFit
  BY <1>1 DEF ShapesFit
<1> QED
  BY <1>2, SizesInvariant, PTL

\* ... nor one that was sized for other GPUs, or for other run-time arguments than the
\* phases of the loop, although the arguments may be replaced between any two steps.
THEOREM OneConfigurationAtATime == Spec => []OneConfiguration
<1>1. ASSUME SizesInv, fault = "none", NEW g \in Groups, at[g] \in Kinds, NEW c \in Sizes(at[g])
      PROVE  c.gpus = executing.gpus /\ \A d \in Sizes("phases") : c.argument = d.argument
  <2>1. Started
    BY <1>1 DEF SizesInv, Stages, Kinds
  <2>2. PICK x : Configured(x)
    BY <1>1, <2>1 DEF SizesInv
  <2>3. c = IF at[g] = "on_expansion" THEN Gained(x) ELSE Present(x)
    BY <1>1, <2>2 DEF SizesInv, Stages, Configured, SizedFor, Groups, Kinds
  <2>4. \A d \in Sizes("phases") : d = Present(x)
    BY <2>2 DEF Configured, SizedFor
  <2> QED
    BY <2>3, <2>4 DEF Gained, Present
<1>2. SizesInv => OneConfiguration
  BY <1>1 DEF OneConfiguration
<1> QED
  BY <1>2, SizesInvariant, PTL

\* Scaling ends the process of no rigid job, whose tasks were examined when the workload was
\* read; that of another job only for a name that the run-time arguments of this decision do
\* not give (evaluateFormula), for a pattern without a meaning for its number of nodes or GPUs
\* (createMatrix, createMatrices), or for no gained nodes (createVector).
THEOREM FailuresAreEarly == Spec => []LateFailures
<1>1. SizesInv => LateFailures
  BY DEF SizesInv
<1> QED
  BY <1>1, SizesInvariant, PTL
=============================================================================
