------------------------------ MODULE MCScaling ------------------------------
(* Workloads for module Scaling.                                           *)
EXTENDS Scaling, TLC

CONSTANTS a1, a2

Plain == [type |-> "cpu", iterations |-> "value", flops |-> "value", computation |-> "UNIFORM",
          bytes |-> Null, communication |-> "RING", inner |-> FALSE]

Formulas(t) == {f \in {"iterations", "flops", "bytes"} : t[f] = "formula"}

\* Models that differ in what is never looked at count once (an input or output task is read
\* and sized like a delay, the computation of a GPU task like that of a CPU task), and a task
\* that communicates computes only where both can go wrong.
\* At most one part is a formula, and not the same one for each type of task, which makes no
\* difference to it; the tasks of a sequence are plain.
SomeTasks ==
  {t \in TaskModel :
     /\ t.bytes = Null => t.communication = "RING"
     /\ t.flops = Null => t.computation = "UNIFORM"
     /\ t.type # "io" /\ (t.type \in {"delay", "sequence"} => t.bytes = Null)
     /\ t.type = "sequence" => t.flops = Null /\ t.iterations = "formula"
     /\ \/ Null \in {t.flops, t.bytes}
        \/ t.flops = "value" /\ t.computation = "ROOT_ONLY" /\ t.bytes # "array"
     /\ Cardinality(Formulas(t)) <= 1
     /\ "iterations" \in Formulas(t) =>
          t.type = "sequence" \/ t = [Plain EXCEPT !.iterations = "formula"]
     /\ "flops" \in Formulas(t) => t.type = "cpu"
     /\ t.type = "gpu" => t.computation = "UNIFORM"
     /\ t.inner => t = [Plain EXCEPT !.inner = TRUE]}

\* A task of any model in a phase of any kind, the others without tasks.
OneTask ==
  {[k \in Kinds |-> IF k = special THEN <<t>> ELSE <<>>] : special \in Kinds, t \in SomeTasks}

\* A task in every phase, and a sequence in the loop.
AllKinds ==
  {[k \in Kinds |->
      IF k = "phases"
      THEN <<Plain, [Plain EXCEPT !.type = "sequence", !.flops = Null], [Plain EXCEPT !.inner = TRUE]>>
      ELSE <<Plain>>]}

Models == OneTask \cup AllKinds
=============================================================================
