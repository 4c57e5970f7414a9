---------------------------- MODULE MCApplication ----------------------------
(* Small instances of Application for TLC: up to three nodes, two phases. *)
EXTENDS Application

CONSTANTS n1, n2, n3

OneTwoThree == {<<n1>>, <<n1, n2>>, <<n2, n1>>, <<n2, n3>>, <<n1, n2, n3>>}
FirstTwo == <<n1, n2>>

Phase(iterations, schedulingPoint, evolving, barrier, synchronized) ==
  [iterations |-> iterations, schedulingPoint |-> schedulingPoint, evolving |-> evolving,
   barrier |-> barrier, synchronized |-> synchronized]

\* An asynchronous phase whose scheduling point follows each iteration but the last, and
\* a phase that can evolve.
TwoPhases == <<Phase(3, TRUE, FALSE, FALSE, FALSE), Phase(2, TRUE, TRUE, TRUE, TRUE)>>

\* A phase with several requests and then one without iterations.
EmptySecond == <<Phase(3, TRUE, TRUE, FALSE, TRUE), Phase(0, TRUE, TRUE, TRUE, FALSE)>>

\* A phase without iterations, and no other.
Empty == <<Phase(0, TRUE, TRUE, FALSE, TRUE)>>

AllWorkloads == {TwoPhases, EmptySecond, Empty}
=============================================================================
