------------------------------ MODULE Formulas ------------------------------
(***************************************************************************)
(* The performance models of a workload (util/Utility): formulas whose     *)
(* names are replaced in their text before exprtk evaluates them.  The     *)
(* replacement looks for the characters of a name, wherever they stand, so *)
(* the order of the replacements decides what a name that contains another *)
(* one becomes.                                                            *)
(*                                                                         *)
(* A text is a sequence of pieces, strings that no replacement divides;    *)
(* names that begin alike share their first pieces.  A map is the sequence *)
(* of its entries <<key, value>> in the order of std::map.                 *)
(***************************************************************************)
EXTENDS Integers, Sequences, SequencesExt, FiniteSetsExt, TLC

num_nodes == <<"num", "_nodes">>
num_gpus == <<"num", "_gpus">>
num_gpus_per_node == num_gpus \o <<"_per_node">>
num_nodes_min == num_nodes \o <<"_min">>
num_nodes_max == num_nodes \o <<"_max">>
phase_iteration == <<"phase_iteration">>

\* Where a name stands in a text.
Occurrences(name, text) ==
  {i \in 1 .. Len(text) - Len(name) + 1 : SubSeq(text, i, i + Len(name) - 1) = name}

\* std::regex_replace of a name that does not overlap itself.
Replace(text, name, value) ==
  LET replaceAt(t, i) == ReplaceSubSeqAt(i, <<value>>, name, t)
  IN  FoldLeft(replaceAt, text, SetToSortSeq(Occurrences(name, text), >))

\* ... of every entry of a map: Utility::applyArguments.
ApplyArguments(text, map) ==
  LET replaceEntry(t, entry) == Replace(t, entry[1], entry[2])
  IN  FoldLeft(replaceEntry, text, map)

(* (Definitions named Wrong... are deliberate mistakes, see module JobNode.) *)

WrongConfiguration(nodes, gpus) ==
  << <<num_nodes, ToString(nodes)>>, <<num_gpus, ToString(nodes * gpus)>>,
     <<num_gpus_per_node, ToString(gpus)>> >>

\* The names of the configuration, the longer one of the GPUs first.
Configuration(nodes, gpus) ==
  << <<num_nodes, ToString(nodes)>>, <<num_gpus_per_node, ToString(gpus)>>,
     <<num_gpus, ToString(nodes * gpus)>> >>

\* Job::additionalArguments.
AdditionalArguments(min, max, iteration) ==
  << <<num_nodes_max, ToString(max)>>, <<num_nodes_min, ToString(min)>>,
     <<phase_iteration, ToString(iteration)>> >>

\* What exprtk is given, in the overloads of Utility::evaluateFormula: when a rigid job is
\* read, when a task is scaled, and for an evolving request.
ReadFormula(text, nodes, gpus) == ApplyArguments(text, Configuration(nodes, gpus))

ScaledFormula(text, nodes, gpus, runtime) ==
  ApplyArguments(ReadFormula(text, nodes, gpus), runtime)

WrongRequestFormula(text, nodes, gpus, runtime, additional) ==
  ApplyArguments(ApplyArguments(text, Configuration(nodes, gpus)), additional \o runtime)

RequestFormula(text, nodes, gpus, runtime, additional) ==
  ApplyArguments(text, additional \o Configuration(nodes, gpus) \o runtime)
=============================================================================
