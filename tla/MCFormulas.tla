----------------------------- MODULE MCFormulas -----------------------------
(* Every formula of up to MaxWords names, in every place where a formula may *)
(* stand, evaluated as the code does it and name by name.                    *)
EXTENDS Formulas

CONSTANT MaxWords

size == <<"size">>
size_max == size \o <<"_max">>
steps == <<"steps">>

Names == {num_nodes, num_gpus, num_gpus_per_node, num_nodes_min, num_nodes_max,
          phase_iteration, size, size_max, steps}

\* The number of iterations of a phase, a task of a rigid job and of another one, and an
\* evolving request.
Kinds == {"iterations", "rigid", "elastic", "request"}

VARIABLES
  words,      \* the formula, a product of these names
  kind,
  arguments,  \* the arguments of the job
  runtime     \* its run-time arguments

vars == <<words, kind, arguments, runtime>>

Entries == << <<size, "11">>, <<size_max, "13">> >>
RuntimeEntries == << <<size, "17">>, <<steps, "19">> >>

\* The maps with some of the entries of m.
Submaps(m) == {SelectSeq(m, LAMBDA e : e \in s) : s \in SUBSET ToSet(m)}

Nodes == 2
Gpus == 3
Additional == AdditionalArguments(1, 5, 7)

Init ==
  /\ words = <<>>
  /\ kind \in Kinds
  /\ arguments \in Submaps(Entries) /\ runtime \in Submaps(RuntimeEntries)

AddName(w) ==
  /\ Len(words) < MaxWords
  /\ words' = Append(words, w)
  /\ UNCHANGED <<kind, arguments, runtime>>

Next == \E w \in Names : AddName(w)

Spec == Init /\ [][Next]_vars

-----------------------------------------------------------------------------
\* The text of a product of words.
Product(ws) == FlattenSeq([i \in DOMAIN ws |-> IF i = 1 THEN ws[i] ELSE <<"*">> \o ws[i]])

\* What the code makes of the formula.
Result ==
  LET text == Product(words)
      read == ApplyArguments(text, arguments)
  IN CASE kind = "iterations" -> read
       [] kind = "rigid" -> ReadFormula(read, Nodes, Gpus)
       [] kind = "elastic" -> ScaledFormula(read, Nodes, Gpus, runtime)
       [] kind = "request" -> RequestFormula(text, Nodes, Gpus, runtime, Additional)

\* The entries that name something in a formula of this kind, the first one of a name.
Environment ==
  CASE kind = "iterations" -> arguments
    [] kind = "rigid" -> arguments \o Configuration(Nodes, Gpus)
    [] kind = "elastic" -> arguments \o Configuration(Nodes, Gpus) \o runtime
    [] kind = "request" -> Additional \o Configuration(Nodes, Gpus) \o runtime

Known(w) == \E i \in DOMAIN Environment : Environment[i][1] = w
Meaning(w) == SelectInSeq(Environment, LAMBDA e : e[1] = w)

AllKnown == \A i \in DOMAIN words : Known(words[i])

\* exprtk has no symbols: a text is an expression if no piece of a name is left.
Valid(text) == \A i \in DOMAIN text : \A w \in Names : text[i] \notin ToSet(w)

\* No key of the user's maps stands within another name of the formula.
Separate ==
  \A k \in {e[1] : e \in ToSet(arguments \o runtime)} :
    \A i \in DOMAIN words : words[i] = k \/ Occurrences(k, words[i]) = {}

\* Every name that a formula may use gets its own value, although names contain each other
\* and the text is changed in several passes (Utility.cpp:597).
EachNameItsValue ==
  Separate /\ AllKnown =>
    Result = Product([i \in DOMAIN words |-> <<Environment[Meaning(words[i])][2]>>])

\* A formula dies of a name it may not use, and of nothing else: no half of a name becomes a
\* number that makes it valid, no pass damages a name that a later one would replace.
DiesOfUnknownNames == Separate => (Valid(Result) <=> AllKnown)
=============================================================================
