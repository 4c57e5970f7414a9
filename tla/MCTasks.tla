------------------------------- MODULE MCTasks -------------------------------
(* A small instance of Tasks for TLC: three ranks, every kind of task. *)
EXTENDS Tasks

Kind(asynchronous, synchronized, coupled, sends, works, sequence) ==
  [asynchronous |-> asynchronous, synchronized |-> synchronized, coupled |-> coupled,
   sends |-> sends, works |-> works, iterations |-> 1, sequence |-> sequence]

\* An asynchronous write, a computation on the even ranks that also sends, a sequence of an
\* asynchronous read and two synchronized delays, a coupled transfer.
Mixed ==
  <<Kind(TRUE, FALSE, FALSE, FALSE, Ranks, 0),
    Kind(FALSE, FALSE, FALSE, TRUE, {0, 2}, 0),
    Kind(TRUE, FALSE, FALSE, FALSE, Ranks, 1),
    [Kind(FALSE, TRUE, FALSE, FALSE, Ranks, 1) EXCEPT !.iterations = 2],
    Kind(FALSE, FALSE, TRUE, TRUE, Ranks, 0)>>
=============================================================================
