------------------------------ MODULE JobThread ------------------------------
(***************************************************************************)
(* One job as the scheduler sees it: a single thread that works off a      *)
(* number of iterations and stops to ask or when it has finished.  It is   *)
(* the application of module Elastisim (AppStarts, AppIterates,            *)
(* AppRequests, AppCompletes) for one job; module Application shows that   *)
(* the ranks of the job, each an actor on its node, behave like it.        *)
(***************************************************************************)
EXTENDS Naturals

CONSTANTS Works   \* the iterations that the whole workload may have

VARIABLES thread, todo, letter

threadVars == <<thread, todo, letter>>

ThreadInit == thread = "starting" /\ todo \in Works /\ letter = "none"

Begin ==
  thread = "starting" /\ thread' = "first" /\ UNCHANGED <<todo, letter>>

Iterate ==
  /\ thread \in {"first", "later"}
  /\ todo > 1
  /\ todo' = todo - 1
  /\ thread' = "later"
  /\ UNCHANGED letter

Ask ==
  /\ thread = "later"
  /\ letter' \in {"SCHEDULING_POINT", "EVOLVING_REQUEST"}
  /\ thread' = "none"
  /\ UNCHANGED todo

Finish ==
  /\ thread \in {"first", "later"}
  /\ todo = 1
  /\ todo' = 0
  /\ thread' = "none"
  /\ letter' = "WORKLOAD_PROCESSED"

\* The scheduler's answer: continued or reconfigured.
Resume ==
  /\ letter \in {"SCHEDULING_POINT", "EVOLVING_REQUEST"}
  /\ letter' = "none"
  /\ thread' = "starting"
  /\ UNCHANGED todo

ThreadNext == Begin \/ Iterate \/ Ask \/ Finish \/ Resume

ThreadSpec == ThreadInit /\ [][ThreadNext]_threadVars
=============================================================================
