---------------------------- MODULE CarefulProofs ----------------------------
(***************************************************************************)
(* What a careful algorithm can rely on, as long as no kill has overtaken  *)
(* a message (Undisturbed): two jobs never claim the same node, except for *)
(* the moment between the decision to take a node from the waiting job and *)
(* the answer to it, the state of a node is a function of its jobs, and no *)
(* check of the simulator fails.  Then Elastisim implements BatchSystem,   *)
(* for every workload and platform.                                        *)
(***************************************************************************)
EXTENDS UndisturbedProofs, ElastisimRefinement

-----------------------------------------------------------------------------
(* What a step does to the job it is about and to the nodes.               *)

Stays(j) ==
  /\ state'[j] = state[j] /\ assigned'[j] = assigned[j] /\ executing'[j] = executing[j]
  /\ node' = node /\ decided' = decided
  /\ app[j] = "starting" => app'[j] = "starting"

Sends(j, q) ==
  LET cleared == RemoveExpected(node, Assigned(j), j)
  IN  /\ pc = "respond" /\ pc' = pc /\ j \notin decided /\ Named(j)
      /\ MaySend(j, q) /\ MayAssign(j, q)
      /\ state'[j] = UpdatedState(state[j], q, executing[j])
      /\ assigned'[j] = q
      /\ executing'[j] = executing[j]
      /\ app'[j] = app[j]
      /\ node' = IF state[j] = "PENDING" THEN cleared ELSE Expect(cleared, Range(q), j)

\* The job comes into the state new and keeps its executing nodes.
Turns(j, new) ==
  state'[j] = new /\ assigned'[j] = assigned[j] /\ executing'[j] = executing[j]

Submits(j) ==
  /\ state[j] = "PENDING_SUBMISSION" /\ pc = "idle" /\ pc' # "respond"
  /\ Turns(j, "PENDING") /\ node' = node /\ app'[j] = app[j]

Condemns(j) ==
  /\ pc = "respond" /\ pc' = pc /\ j \notin decided /\ Named(j) /\ j \in MayKill
  /\ state[j] \notin Final \cup {"PENDING_SUBMISSION"}
  /\ Turns(j, "PENDING_KILL") /\ node' = node /\ app'[j] = app[j]

Ends(j) ==
  /\ pc' # "respond"
  /\ state[j] = "PENDING_KILL" \/ Posted(j) \/ Exceeded(j)
  /\ \E new \in Final :
       Turns(j, new) /\ node' = NodesAfterSetState(Complete(node, Executing(j), j), j, new)

\* ... or the assigned nodes become the executing ones.
Enters(j, new) ==
  /\ state'[j] = new /\ assigned'[j] = assigned[j] /\ executing'[j] = assigned[j]
  /\ app'[j] = "starting"

Allocates(j) ==
  /\ state[j] = "PENDING_ALLOCATION" /\ pc = "forward" /\ pc' = pc
  /\ Enters(j, "RUNNING") /\ NodesTaken(j)

Reconfigures(j) ==
  /\ state[j] = "PENDING_RECONFIGURATION" /\ pc \in {"idle", "answer"} /\ pc' # "respond"
  /\ Enters(j, "IN_RECONFIGURATION") /\ NodesReconfigured(j)

GoesOn(j) ==
  app[j] = "starting" /\ Turns(j, "RUNNING") /\ node' = node

JobStep(j) ==
  \/ Stays(j) \/ \E q \in Allocations : Sends(j, q)
  \/ Submits(j) \/ Condemns(j) \/ Ends(j) \/ Allocates(j) \/ Reconfigures(j) \/ GoesOn(j)

LEMMA SetStateTurns ==
  ASSUME JobNodeTypeOK, NEW j \in Jobs, NEW new, SetState(j, new), assigned' = assigned,
         ~TakesOver(state[j], new)
  PROVE  Turns(j, new)
BY DEF JobNodeTypeOK, SetState, Turns

LEMMA JobSteps ==
  ASSUME BaseInv, NEW j \in Jobs, StepOf(j)
  PROVE  JobStep(j)
<1>0. TypeOK /\ JobNodeTypeOK /\ ActorTypeOK /\ ThreadInv(j) /\ Submission(j) /\ fault = "none"
  BY DEF BaseInv, TypeOK, SchedulerTypeOK, ControlInv, StepOf
<1>1. ASSUME UNCHANGED <<jobVars, nodeVars, decided>>, app[j] = "starting" => app'[j] = "starting"
      PROVE  Stays(j)
  BY <1>1 DEF Stays, jobVars, nodeVars
<1>2. ASSUME NEW new \in Final, SetState(j, new), assigned' = assigned,
             node' = NodesAfterSetState(Complete(node, Executing(j), j), j, new), pc' # "respond",
             state[j] = "PENDING_KILL" \/ Posted(j) \/ Exceeded(j)
      PROVE  Ends(j)
  <2>1. ~TakesOver(state[j], new)
    BY <1>2 DEF TakesOver, Final
  <2> QED
    BY <1>0, <1>2, <2>1, SetStateTurns DEF Ends
<1>3. ASSUME NEW x, NEW mb, ForwardJobKill(j, x, mb), pc' # "respond", decided' = decided,
             state[j] = "PENDING_KILL" \/ Posted(j) \/ Exceeded(j)
      PROVE  JobStep(j)
  <2>1. CASE fault' = "null"
    <3>1. UNCHANGED <<jobVars, nodeVars, app>>
      BY <1>0, <1>3, <2>1 DEF ForwardJobKill, actorVars
    <3> QED
      BY <1>1, <1>3, <3>1 DEF JobStep
  <2>2. CASE fault' # "null"
    <3>1. /\ SetState(j, "KILLED") /\ assigned' = assigned
          /\ node' = NodesAfterSetState(Complete(node, Executing(j), j), j, "KILLED")
      BY <1>3, <2>2 DEF ForwardJobKill
    <3> QED
      <4>1. "KILLED" \in Final
        BY DEF Final
      <4> QED
        BY <1>2, <1>3, <3>1, <4>1 DEF JobStep
  <2> QED
    BY <2>1, <2>2
<1>4. ASSUME HandleReconfiguration(j), state[j] = "PENDING_RECONFIGURATION", pc \in {"idle", "answer"},
             pc' # "respond"
      PROVE  Reconfigures(j)
  <2>1. Enters(j, "IN_RECONFIGURATION")
    BY <1>0, <1>4 DEF HandleReconfiguration, SetState, TakesOver, Enters, JobNodeTypeOK, ActorTypeOK
  <2>2. NodesReconfigured(j)
    BY <1>4 DEF HandleReconfiguration, NodesReconfigured
  <2> QED
    BY <1>4, <2>1, <2>2 DEF Reconfigures
<1>5. ASSUME Continue(j), decided' = decided PROVE Stays(j)
  <2>1. app'[j] \in {app[j], "starting"} /\ UNCHANGED <<jobVars, nodeVars, decided>>
    BY <1>0, <1>5 DEF Continue, ActorTypeOK
  <2> QED
    BY <1>1, <2>1
<1>6. CASE HandleJobSubmit(j)
  <2>1. Carries(mailbox, {"JOB_SUBMIT"}, j)
    BY <1>0, <1>6, ReceivedCarries DEF HandleJobSubmit
  <2>2. state[j] = "PENDING_SUBMISSION"
    BY <2>1, <1>0 DEF Submission
  <2>3. Turns(j, "PENDING")
    BY <1>0, <1>6, <2>2, SetStateTurns DEF HandleJobSubmit, TakesOver
  <2>4. node' = node /\ app' = app /\ pc = "idle" /\ pc' # "respond"
    BY <1>6 DEF HandleJobSubmit, nodeVars, actorVars, Received, Schedule, Return
  <2> QED
    BY <2>2, <2>3, <2>4 DEF Submits, JobStep
<1>7. CASE HandleSchedulingPoint(j)
  <2>0. decided' = decided
    BY <1>7 DEF HandleSchedulingPoint, Schedule, Return
  <2>1. CASE UNCHANGED <<jobVars, nodeVars, actorVars>>
    BY <1>1, <2>0, <2>1 DEF actorVars, JobStep
  <2>2. CASE state[j] = "PENDING_RECONFIGURATION" /\ HandleReconfiguration(j)
    BY <1>4, <1>7, <2>2 DEF HandleSchedulingPoint, Received, Schedule, Return, JobStep
  <2>3. CASE Continue(j)
    BY <1>5, <2>0, <2>3 DEF JobStep
  <2> QED
    BY <1>7, <2>1, <2>2, <2>3 DEF HandleSchedulingPoint
<1>8. CASE HandleEvolvingRequest(j)
  BY <1>1, <1>8 DEF HandleEvolvingRequest, Schedule, Return, actorVars, JobStep
<1>9. CASE HandleWalltimeExceeded(j)
  <2>1. Exceeded(j)
    BY <1>0, <1>9, ReceivedCarries DEF HandleWalltimeExceeded, Exceeded
  <2>2. ForwardJobKill(j, TRUE, Tail(mailbox)) /\ pc' # "respond" /\ decided' = decided
    BY <1>9 DEF HandleWalltimeExceeded, Schedule, Return
  <2> QED
    BY <1>3, <2>1, <2>2
<1>10. CASE HandleProcessedWorkload(j)
  <2>1. Posted(j)
    BY <1>0, <1>10, ReceivedCarries DEF HandleProcessedWorkload, Posted, AppTypes
  <2>2. /\ SetState(j, "COMPLETED") /\ assigned' = assigned /\ pc' # "respond"
        /\ node' = NodesAfterSetState(Complete(node, Executing(j), j), j, "COMPLETED")
    BY <1>10 DEF HandleProcessedWorkload, Schedule, Return
  <2>3. "COMPLETED" \in Final
    BY DEF Final
  <2> QED
    BY <1>2, <2>1, <2>2, <2>3 DEF JobStep
<1>11. CASE DecideKill(j)
  <2>1. Turns(j, "PENDING_KILL")
    BY <1>0, <1>11, SetStateTurns DEF DecideKill, TakesOver
  <2>2. /\ pc = "respond" /\ pc' = pc /\ j \notin decided /\ Named(j) /\ j \in MayKill
        /\ node' = node /\ app' = app /\ state[j] \notin Final
    BY <1>11, KnownEnds DEF DecideKill, nodeVars, actorVars
  <2>3. state[j] # "PENDING_SUBMISSION"
    BY <1>0, <1>11 DEF DecideKill, Live, Submission
  <2> QED
    BY <2>1, <2>2, <2>3 DEF Condemns, JobStep
<1>12. CASE \E q \in Allocations : DecideNodes(j, q)
  <2>1. PICK q \in Allocations : DecideNodes(j, q)
    BY <1>12
  <2>2. CASE MayAssign(j, q)
    <3>1. /\ Assign(j, q) /\ pc = "respond" /\ pc' = pc /\ Named(j)
          /\ j \notin decided /\ MaySend(j, q) /\ app' = app
      BY <2>1, <2>2 DEF DecideNodes, actorVars
    <3>2. Sends(j, q)
      BY <1>0, <2>2, <3>1 DEF Assign, Sends, JobNodeTypeOK
    <3> QED
      BY <3>2 DEF JobStep
  <2>3. CASE ~MayAssign(j, q)
    BY <1>1, <2>1, <2>3 DEF DecideNodes, actorVars, JobStep
  <2> QED
    BY <2>2, <2>3
<1>13. CASE Answer /\ req = j
  <2>1. CASE state[j] = "PENDING_KILL"
    BY <1>3, <1>13, <2>1 DEF Answer, Final
  <2>2. CASE state[j] = "PENDING_RECONFIGURATION"
    BY <1>4, <1>13, <2>2 DEF Answer, JobStep
  <2>3. CASE state[j] \notin {"PENDING_KILL", "PENDING_RECONFIGURATION"}
    BY <1>5, <1>13, <2>3 DEF Answer, JobStep
  <2> QED
    BY <2>1, <2>2, <2>3
<1>14. CASE Forward /\ Head(scheduled) = j
  <2>1. CASE state[j] = "PENDING_KILL"
    <3>1. ForwardJobKill(j, FALSE, mailbox) /\ pc' # "respond" /\ decided' = decided
      BY <1>14, <2>1 DEF Forward
    <3> QED
      BY <1>3, <2>1, <3>1 DEF Final
  <2>2. CASE state[j] = "PENDING_ALLOCATION"
    <3>1. ForwardJobAllocation(j) /\ pc = "forward" /\ pc' = pc /\ decided' = decided
      BY <1>14, <2>2 DEF Forward
    <3>2. CASE UNCHANGED <<jobVars, nodeVars, actorVars>>
      BY <1>1, <3>1, <3>2 DEF actorVars, JobStep
    <3>3. CASE ~UNCHANGED <<jobVars, nodeVars, actorVars>>
      <4>1. Enters(j, "RUNNING") /\ NodesTaken(j)
        BY <1>0, <2>2, <3>1, <3>3 DEF ForwardJobAllocation, SetState, TakesOver, Enters, NodesTaken,
           JobNodeTypeOK, ActorTypeOK
      <4> QED
        BY <2>2, <3>1, <4>1 DEF Allocates, JobStep
    <3> QED
      BY <3>2, <3>3
  <2>3. CASE state[j] \notin {"PENDING_KILL", "PENDING_ALLOCATION"}
    BY <1>1, <1>14, <2>3 DEF Forward, actorVars, JobStep
  <2> QED
    BY <2>1, <2>2, <2>3
<1>15. CASE AppStarts(j)
  <2>1. state[j] # "PENDING_ALLOCATION" /\ app[j] = "starting"
    BY <1>0, <1>15 DEF AppStarts, ThreadInv, Lifecycle
  <2>2. Turns(j, "RUNNING")
    BY <1>0, <1>15, <2>1, SetStateTurns DEF AppStarts, TakesOver
  <2> QED
    BY <1>15, <2>1, <2>2 DEF AppStarts, nodeVars, GoesOn, JobStep
<1>16. CASE (Application(j) /\ ~AppStarts(j)) \/ WalltimeExceeded(j) \/ ReceiveJobStep(j)
  <2>1. UNCHANGED <<passive, decided>> /\ (app[j] = "starting" => app'[j] = "starting")
    BY <1>16 DEF Application, AppIterates, AppCompletes, AppRequests, WalltimeExceeded, ReceiveJobStep,
       actorVars, schedulerOnly, scheduleVars
  <2> QED
    BY <1>1, <2>1 DEF passive, JobStep
<1> QED
  BY <1>6, <1>7, <1>8, <1>9, <1>10, <1>11, <1>12, <1>13, <1>14, <1>15, <1>16
     DEF StepOf, SchedulerStepOf, Application

-----------------------------------------------------------------------------
(* What the algorithm knows when it answers, and what the response leads   *)
(* to: with any algorithm, and whatever kill overtakes what.               *)

\* While the algorithm has not yet decided on a job, it knows its state, or the job has gone
\* on to run; the job it is asked about cannot.
Known(j) ==
  pc = "respond" /\ j \notin decided =>
    \/ state[j] = seen[j]
    \/ state[j] = "RUNNING" /\ seen[j] \notin {"PENDING_SUBMISSION", "PENDING"} /\ ~Asking(j)

\* What the nodes of a job are for.
Kept(j) ==
  /\ state[j] \in {"PENDING_SUBMISSION", "PENDING"} => assigned[j] = <<>>
  /\ state[j] = "IN_RECONFIGURATION" => app[j] = "starting"
  /\ state[j] = "PENDING_KILL" => j \in MayKill
  /\ pc = "respond" /\ Asking(j) /\ j \in decided /\ state[j] = "RUNNING" =>
       assigned[j] = executing[j]

\* The jobs of the response, and the nodes as the algorithm was told.
Response ==
  /\ Range(scheduled) \subseteq decided
  /\ pc \in {"idle", "invoke"} => decided = {}
  /\ pc = "respond" =>
       \A n \in Nodes : /\ seenNode[n].running = node[n].running
                        /\ node[n].running # {} => seenNode[n].state # "FREE"

KnownInv == Response /\ \A j \in Jobs : Known(j) /\ Kept(j)

\* What a step about one job does to the response.
LEMMA ResponseOf ==
  ASSUME TypeOK, NEW j \in Jobs, StepOf(j)
  PROVE  /\ UNCHANGED viewVars /\ decided \subseteq decided'
         /\ Range(scheduled) \subseteq decided => Range(scheduled') \subseteq decided'
         /\ pc' \in {"idle", "invoke"} => pc \in {"idle", "invoke"} /\ decided' = decided
         /\ pc' = "respond" =>
              /\ pc = "respond"
              /\ \A i \in Jobs : Asking(i)' <=> Asking(i)
<1>0. scheduled \in Seq(Jobs) /\ decided \subseteq Jobs
  BY DEF TypeOK, SchedulerTypeOK, ControlTypeOK
<1>1. CASE DecideKill(j) \/ \E q \in Allocations : DecideNodes(j, q)
  <2>1. /\ UNCHANGED <<viewVars, pc, inv, req>> /\ pc = "respond"
        /\ UNCHANGED <<decided, scheduled>> \/ Named(j)
    BY <1>1 DEF DecideKill, DecideNodes
  <2>2. Named(j) => /\ decided' = decided \cup {j}
                    /\ Range(scheduled') = Range(scheduled) \cup {j}
    BY <1>0, AppendRange DEF Named
  <2> QED
    BY <2>1, <2>2 DEF Asking
<1>2. CASE Forward /\ Head(scheduled) = j
  <2>1. Range(Tail(scheduled)) \subseteq Range(scheduled)
    BY <1>0, <1>2, TailRange DEF Forward
  <2> QED
    BY <1>2, <2>1 DEF Forward
<1>3. CASE Answer /\ req = j
  BY <1>3 DEF Answer
<1>4. CASE Application(j) \/ WalltimeExceeded(j) \/ ReceiveJobStep(j)
  BY <1>4 DEF Application, WalltimeExceeded, ReceiveJobStep, schedulerOnly, scheduleVars, Asking
<1>5. CASE \/ HandleJobSubmit(j) \/ HandleSchedulingPoint(j) \/ HandleEvolvingRequest(j)
           \/ HandleWalltimeExceeded(j) \/ HandleProcessedWorkload(j)
  <2>1. /\ UNCHANGED <<viewVars, decided, scheduled>> /\ pc = "idle"
        /\ pc' \in {"idle", "invoke"}
    BY <1>5 DEF HandleJobSubmit, HandleSchedulingPoint, HandleEvolvingRequest,
       HandleWalltimeExceeded, HandleProcessedWorkload, Received, Schedule, Return
  <2> QED
    BY <2>1
<1> QED
  BY <1>1, <1>2, <1>3, <1>4, <1>5 DEF StepOf, SchedulerStepOf

LEMMA NextKnownOf ==
  ASSUME BaseInv, NEW j \in Jobs, StepOf(j), Known(j), Kept(j)
  PROVE  Known(j)' /\ Kept(j)'
<1>0. /\ ThreadInv(j) /\ state[j] \in JobStates /\ executing[j] \in Seq(Nodes)
      /\ state[j] = "PENDING_SUBMISSION" => seen[j] = "PENDING_SUBMISSION"
      /\ TypeOK
  BY DEF BaseInv, ControlInv, Submission, TypeOK, JobNodeTypeOK
<1>1. /\ UNCHANGED viewVars /\ decided \subseteq decided'
      /\ pc' = "respond" => pc = "respond" /\ (Asking(j)' <=> Asking(j))
  BY <1>0, ResponseOf
<1>2. seen' = seen
  BY <1>1 DEF viewVars
<1>3. CASE Stays(j)
  BY <1>1, <1>2, <1>3 DEF Stays, Known, Kept
<1>4. ASSUME NEW q \in Allocations, Sends(j, q)
      PROVE  Known(j)' /\ Kept(j)'
  <2>1. /\ j \in decided' /\ app'[j] = app[j]
        /\ assigned'[j] = q /\ executing'[j] = executing[j]
        /\ state'[j] = UpdatedState(state[j], q, executing[j])
    BY <1>4 DEF Sends, Named
  <2>2. state[j] # "PENDING_SUBMISSION"
    BY <1>0, <1>4 DEF Sends, MaySend
  <2>3. state[j] = "PENDING" => q # executing[j]
    <3>1. q # <<>>
      <4>1. Len(<<>>) = 0
        OBVIOUS
      <4>2. Len(q) >= 1
        BY <1>4, JobSpecification DEF Sends, MaySend, ValidConfiguration, ValidSpecification
      <4> QED
        BY <4>1, <4>2
    <3> QED
      BY <1>0, <3>1 DEF ThreadInv, Lifecycle
  <2>4. /\ state'[j] \notin {"PENDING_SUBMISSION", "PENDING"}
        /\ state'[j] \in {"IN_RECONFIGURATION", "PENDING_KILL"} => state[j] = state'[j]
        /\ state'[j] = "RUNNING" => q = executing[j]
    BY <2>1, <2>2, <2>3 DEF UpdatedState
  <2> QED
    BY <2>1, <2>4 DEF Known, Kept
<1>5. CASE Submits(j)
  BY <1>5 DEF Submits, Turns, Known, Kept
<1>6. CASE Condemns(j)
  <2>1. j \in decided' /\ j \in MayKill /\ state'[j] = "PENDING_KILL"
    BY <1>6 DEF Condemns, Named, Turns
  <2> QED
    BY <2>1 DEF Known, Kept
<1>7. CASE Ends(j) \/ Allocates(j) \/ Reconfigures(j)
  BY <1>7 DEF Ends, Allocates, Reconfigures, Turns, Enters, Known, Kept, Final
<1>8. CASE GoesOn(j)
  <2>1. state'[j] = "RUNNING" /\ ~Asking(j) /\ state[j] \notin {"PENDING_SUBMISSION", "PENDING"}
    BY <1>0, <1>8 DEF GoesOn, Turns, ThreadInv, Lifecycle, Alone
  <2> QED
    BY <1>1, <1>2, <2>1 DEF Known, Kept
<1> QED
  BY <1>3, <1>4, <1>5, <1>6, <1>7, <1>8, JobSteps DEF JobStep

LEMMA NextKnown ==
  ASSUME BaseInv, StatesCurrent', KnownInv, [Next]_vars, NEW i \in Jobs
  PROVE  Known(i)' /\ Kept(i)'
<1>0. TypeOK /\ Known(i) /\ Kept(i) /\ Response
  BY DEF BaseInv, KnownInv
<1>1. CASE Invoke
  <2>1. modifiedJobs' = {} /\ decided = {} /\ decided' = decided /\ UNCHANGED <<state, assigned, app>>
    BY <1>0, <1>1 DEF Invoke, Response, actorVars
  <2>2. state'[i] = seen'[i]
    BY <2>1 DEF StatesCurrent
  <2> QED
    BY <1>0, <2>1, <2>2 DEF Known, Kept
<1>2. CASE StepOfNone /\ ~Invoke
  <2>1. pc' = "respond" => pc = "respond" /\ UNCHANGED <<decided, seen>>
    BY <1>2 DEF StepOfNone, vars, HandleInvoke, HandleFinalize, EndResponse, EndSchedule, Schedule, Return,
       InvokePeriodically, IntervalElapses, EngineStep, schedulerOnly, scheduleVars, viewVars
  <2> QED
    BY <1>0, <1>2, <2>1, StepOfNoneTouches DEF Untouched, SameJob, Known, Kept
<1>3. ASSUME NEW j \in Jobs, StepOf(j)
      PROVE  Known(i)' /\ Kept(i)'
  <2>1. CASE i = j
    BY <1>0, <1>3, <2>1, NextKnownOf
  <2>2. CASE i # j
    <3>1. SameJob(i) /\ (Asking(i)' <=> Asking(i))
      BY <1>0, <1>3, <2>2, StepTouchesOne DEF Untouched
    <3>2. UNCHANGED viewVars /\ decided \subseteq decided' /\ (pc' = "respond" => pc = "respond")
      BY <1>0, <1>3, ResponseOf
    <3>3. pc = "respond" /\ i \in decided' => i \in decided
      <4>1. pc = "respond" => decided' \subseteq decided \cup {j}
        <5>1. CASE DecideKill(j) \/ \E q \in Allocations : DecideNodes(j, q)
          BY <5>1 DEF DecideKill, DecideNodes, Named
        <5>2. CASE ~(DecideKill(j) \/ \E q \in Allocations : DecideNodes(j, q))
          BY <1>3, <5>2 DEF StepOf, SchedulerStepOf, HandleJobSubmit, HandleSchedulingPoint, HandleEvolvingRequest,
             HandleWalltimeExceeded, HandleProcessedWorkload, Received, Answer, Forward,
             Application, WalltimeExceeded, ReceiveJobStep, schedulerOnly, scheduleVars
        <5> QED
          BY <5>1, <5>2
      <4> QED
        BY <2>2, <4>1
    <3> QED
      BY <1>0, <3>1, <3>2, <3>3 DEF SameJob, viewVars, Known, Kept
  <2> QED
    BY <2>1, <2>2
<1> QED
  BY <1>0, <1>1, <1>2, <1>3, StepCases

LEMMA NextResponse ==
  ASSUME BaseInv, StatesCurrent', \A n \in Nodes : Shown(node[n]), KnownInv, [Next]_vars
  PROVE  Response'
<1>0. TypeOK /\ Response /\ decided \subseteq Jobs /\ scheduled \in Seq(Jobs)
  BY DEF BaseInv, KnownInv, TypeOK, SchedulerTypeOK, ControlTypeOK
<1>1. CASE Invoke
  <2>1. /\ modifiedNodes' = {} /\ node' = node
        /\ UNCHANGED <<decided, scheduled>> /\ pc = "invoke" /\ pc' = "respond"
    BY <1>1 DEF Invoke
  <2>2. \A n \in Nodes : seenNode'[n] = [state |-> node[n].state, running |-> node[n].running]
    BY <2>1 DEF StatesCurrent
  <2>3. \A n \in Nodes : /\ seenNode'[n].running = node'[n].running
                         /\ node'[n].running # {} => seenNode'[n].state # "FREE"
    <3> SUFFICES ASSUME NEW n \in Nodes
                 PROVE  /\ seenNode'[n].running = node[n].running
                        /\ node[n].running # {} => seenNode'[n].state # "FREE"
      BY <2>1
    <3>1. seenNode'[n].running = node[n].running /\ seenNode'[n].state = node[n].state
      <4>1. seenNode'[n] = [state |-> node[n].state, running |-> node[n].running]
        BY <2>2
      <4> QED
        BY <4>1
    <3>2. node[n].running # {} => node[n].state = "ALLOCATED"
      BY DEF Shown
    <3> QED
      BY <3>1, <3>2
  <2>4. Range(scheduled') \subseteq decided' /\ pc' \notin {"idle", "invoke"}
    BY <1>0, <2>1 DEF Response
  <2> QED
    BY <2>3, <2>4 DEF Response
<1>2. CASE StepOfNone /\ ~Invoke
  <2>1. CASE EndSchedule
    <3>1. Range(<<>>) = {}
      BY DEF Range
    <3> QED
      BY <2>1, <3>1 DEF EndSchedule, Response
  <2>2. CASE ~EndSchedule
    <3>1. /\ UNCHANGED <<decided, scheduled, seenNode>>
          /\ pc' = "respond" => pc = "respond"
          /\ pc' \in {"idle", "invoke"} => pc \in {"idle", "invoke"}
      BY <1>2, <2>2 DEF StepOfNone, vars, HandleInvoke, HandleFinalize, EndResponse, Schedule, Return, Received,
         InvokePeriodically, IntervalElapses, EngineStep, schedulerOnly, scheduleVars, viewVars
    <3>2. node' = node
      BY <1>2, NodesOfNone
    <3> QED
      BY <1>0, <3>1, <3>2 DEF Response
  <2> QED
    BY <2>1, <2>2
<1>3. ASSUME NEW j \in Jobs, StepOf(j)
      PROVE  Response'
  <2>1. /\ UNCHANGED viewVars /\ decided \subseteq decided'
        /\ Range(scheduled') \subseteq decided'
        /\ pc' \in {"idle", "invoke"} => pc \in {"idle", "invoke"} /\ decided' = decided
        /\ pc' = "respond" => pc = "respond"
    BY <1>0, <1>3, ResponseOf DEF Response
  <2>2. pc' = "respond" => \A n \in Nodes : node'[n].running = node[n].running
    <3>1. ASSUME NEW q \in Allocations, Sends(j, q), NEW n \in Nodes
          PROVE  node'[n].running = node[n].running
      <4>1. node \in [Nodes -> NodeRecord]
        BY <1>0 DEF TypeOK, JobNodeTypeOK
      <4>2. RemoveExpected(node, Assigned(j), j) \in [Nodes -> NodeRecord]
        BY <4>1, NodeMaps
      <4> QED
        BY <3>1, <4>1, <4>2, RunningMaps DEF Sends
    <3>2. CASE Stays(j) \/ Submits(j) \/ Condemns(j) \/ Ends(j) \/ Allocates(j) \/ Reconfigures(j) \/ GoesOn(j)
      BY <3>2 DEF Stays, Submits, Condemns, Ends, Allocates, Reconfigures, GoesOn
    <3> QED
      BY <1>3, <3>1, <3>2, JobSteps DEF JobStep
  <2> QED
    BY <1>0, <2>1, <2>2 DEF Response, viewVars
<1> QED
  BY <1>0, <1>1, <1>2, <1>3, StepCases

LEMMA KnownIsInvariant == Spec => []KnownInv
<1> DEFINE AllShown == \A n \in Nodes : Shown(node[n])
<1>1. Init => KnownInv
  <2> SUFFICES ASSUME Init, NEW j \in Jobs PROVE Response /\ Known(j) /\ Kept(j)
    BY DEF KnownInv, Init, SchedulerInit, JobInit, NodeInit, Response, Range
  <2> QED
    BY DEF Init, SchedulerInit, JobInit, NodeInit, Response, Known, Kept, Range
<1>2. BaseInv /\ StatesCurrent' /\ AllShown /\ KnownInv /\ [Next]_vars => KnownInv'
  BY NextKnown, NextResponse DEF KnownInv
<1> HIDE DEF AllShown
<1>3. Spec => []AllShown
  BY NodesAreShown DEF AllShown
<1> QED
  BY <1>1, <1>2, <1>3, BaseIsInvariant, StatesAreCurrent, PTL DEF Spec

-----------------------------------------------------------------------------
(* The nodes that a job is still to have.                                  *)

\* Nodes expect only jobs that have been started.
Gains(j) == \A n \in Nodes : j \in node[n].expected => executing[j] # <<>>

\* The nodes a started job is to gain expect it.
Owed(j) ==
  Started(j) => \A n \in Nodes : n \in Assigned(j) \ Executing(j) => j \in node[n].expected

LEMMA SendsExpects ==
  ASSUME TypeOK, NEW j \in Jobs, NEW q \in Allocations, Sends(j, q), NEW n \in Nodes
  PROVE  /\ state[j] = "PENDING" => node'[n].expected \subseteq node[n].expected
         /\ state[j] # "PENDING" => /\ n \in Range(q) => j \in node'[n].expected
                                    /\ node'[n].expected \subseteq node[n].expected \cup {j}
<1> DEFINE cleared == RemoveExpected(node, Assigned(j), j)
<1>1. node \in [Nodes -> NodeRecord] /\ cleared \in [Nodes -> NodeRecord]
  BY NodeMaps DEF TypeOK, JobNodeTypeOK
<1>2. cleared[n].expected \subseteq node[n].expected
  BY <1>1, RemoveExpectedRemoves
<1>3. node' = IF state[j] = "PENDING" THEN cleared ELSE Expect(cleared, Range(q), j)
  BY DEF Sends
<1> HIDE DEF cleared
<1>4. CASE state[j] = "PENDING"
  BY <1>2, <1>3, <1>4
<1>5. CASE state[j] # "PENDING"
  <2>1. /\ n \in Range(q) => node'[n].expected = cleared[n].expected \cup {j}
        /\ n \notin Range(q) => node'[n].expected = cleared[n].expected
    BY <1>1, <1>3, <1>5, ExpectAdds
  <2> QED
    BY <1>2, <1>5, <2>1
<1> QED
  BY <1>4, <1>5

\* Nothing but a decision makes a node expect a job.
LEMMA OnlySendsExpects ==
  ASSUME TypeOK, NEW j \in Jobs, JobStep(j), ~\E q \in Allocations : Sends(j, q), NEW n \in Nodes
  PROVE  node'[n].expected \subseteq node[n].expected
<1>0. node \in [Nodes -> NodeRecord]
  BY DEF TypeOK, JobNodeTypeOK
<1>1. \A new : \A nds \in [Nodes -> NodeRecord] :
        NodesAfterSetState(nds, j, new)[n].expected \subseteq nds[n].expected
  BY RemoveExpectedRemoves DEF NodesAfterSetState
<1>2. CASE Ends(j)
  <2> DEFINE freed == Complete(node, Executing(j), j)
  <2>1. freed \in [Nodes -> NodeRecord] /\ freed[n].expected = node[n].expected
    BY <1>0, NodeMaps, OthersKeepExpected
  <2>2. \E new \in Final : node' = NodesAfterSetState(freed, j, new)
    BY <1>2 DEF Ends
  <2> HIDE DEF freed
  <2> QED
    BY <1>1, <2>1, <2>2
<1>3. CASE Allocates(j)
  BY <1>0, <1>3, OthersKeepExpected DEF Allocates, NodesTaken
<1>4. CASE Reconfigures(j)
  <2> DEFINE unreserved == NodesAfterSetState(node, j, "IN_RECONFIGURATION")
             taken == Allocate(unreserved, Assigned(j) \ Executing(j), j)
  <2>1. unreserved \in [Nodes -> NodeRecord]
    BY <1>0, NodeMaps DEF NodesAfterSetState
  <2>2. unreserved[n].expected \subseteq node[n].expected
    BY <1>0, <1>1
  <2> HIDE DEF unreserved
  <2>3. taken[n].expected = unreserved[n].expected /\ taken \in [Nodes -> NodeRecord]
    BY <2>1, OthersKeepExpected, NodeMaps
  <2>4. node' = Complete(taken, Executing(j) \ Assigned(j), j)
    BY <1>4 DEF Reconfigures, NodesReconfigured, unreserved
  <2> HIDE DEF taken
  <2> QED
    BY <2>2, <2>3, <2>4, OthersKeepExpected
<1>5. CASE Stays(j) \/ Submits(j) \/ Condemns(j) \/ GoesOn(j)
  BY <1>5 DEF Stays, Submits, Condemns, GoesOn
<1> QED
  BY <1>2, <1>3, <1>4, <1>5 DEF JobStep

LEMMA ExecutingStays ==
  ASSUME NEW j \in Jobs, ThreadInv(j), JobStep(j), executing[j] # <<>>
  PROVE  executing'[j] # <<>>
BY DEF JobStep, Stays, Sends, Submits, Condemns, Ends, Allocates, Reconfigures, GoesOn, Turns, Enters,
       ThreadInv, Lifecycle

LEMMA NextGains ==
  ASSUME BaseInv, KnownInv, [Next]_vars, \A i \in Jobs : Gains(i), NEW i \in Jobs
  PROVE  Gains(i)'
<1>0. TypeOK /\ ThreadInv(i) /\ Known(i) /\ Gains(i)
  BY DEF BaseInv, ControlInv, KnownInv
<1>1. CASE StepOfNone
  BY <1>0, <1>1, StepOfNoneTouches, NodesOfNone DEF Untouched, SameJob, Gains
<1>2. ASSUME NEW j \in Jobs, StepOf(j)
      PROVE  Gains(i)'
  <2>1. CASE i # j
    BY <1>0, <1>2, <2>1, StepTouchesOne, StepNodes, NodeStepsTouchOne DEF Untouched, SameJob, SameNodes, Gains
  <2>2. ASSUME i = j, NEW q \in Allocations, Sends(i, q)
        PROVE  Gains(i)'
    <3>1. executing'[i] = executing[i]
      BY <2>2 DEF Sends
    <3>2. state[i] # "PENDING" => executing[i] # <<>>
      BY <1>0, <2>2 DEF Sends, MaySend, Known, ThreadInv, Lifecycle
    <3> QED
      BY <1>0, <2>2, <3>1, <3>2, SendsExpects DEF Gains
  <2>3. CASE i = j /\ ~\E q \in Allocations : Sends(i, q)
    <3>1. JobStep(i)
      BY <1>2, <2>3, JobSteps
    <3>2. executing[i] # <<>> => executing'[i] # <<>>
      BY <1>0, <3>1, ExecutingStays
    <3>3. \A n \in Nodes : node'[n].expected \subseteq node[n].expected
      BY <1>0, <2>3, <3>1, OnlySendsExpects
    <3> QED
      BY <1>0, <3>2, <3>3 DEF Gains
  <2> QED
    BY <2>1, <2>2, <2>3
<1> QED
  BY <1>0, <1>1, <1>2, StepCases

LEMMA NextOwed ==
  ASSUME BaseInv, PlacesInv, [Next]_vars, Undisturbed', \A i \in Jobs : Owed(i), NEW i \in Jobs, KnownInv
  PROVE  Owed(i)'
<1>0. TypeOK /\ ThreadInv(i) /\ Ended(i) /\ Owed(i) /\ Known(i) /\ Kept(i)
  BY UndisturbedBefore DEF BaseInv, ControlInv, PlacesInv, KnownInv
<1>1. CASE StepOfNone
  BY <1>0, <1>1, StepOfNoneTouches, NodesOfNone DEF Untouched, SameJob, Owed, Started, Assigned, Executing
<1>2. ASSUME NEW j \in Jobs, StepOf(j)
      PROVE  Owed(i)'
  <2>1. CASE i # j
    BY <1>0, <1>2, <2>1, StepTouchesOne, StepNodes, NodeStepsTouchOne
       DEF Untouched, SameJob, SameNodes, Owed, Started, Assigned, Executing
  <2>2. ASSUME i = j, NEW q \in Allocations, Sends(i, q)
        PROVE  Owed(i)'
    <3>1. executing'[i] = executing[i] /\ assigned'[i] = q
      BY <2>2 DEF Sends
    <3>2. state[i] = "PENDING" => executing[i] = <<>>
      BY <1>0 DEF ThreadInv, Lifecycle
    <3>3. CASE state[i] = "PENDING"
      BY <3>1, <3>2, <3>3 DEF Owed, Started
    <3>4. CASE state[i] # "PENDING"
      <4>1. \A n \in Nodes : n \in Range(q) => i \in node'[n].expected
        BY <1>0, <2>2, <3>4, SendsExpects
      <4> QED
        BY <3>1, <4>1 DEF Owed, Assigned
    <3> QED
      BY <3>3, <3>4
  <2>3. CASE i = j /\ ~\E q \in Allocations : Sends(i, q)
    <3>1. JobStep(i)
      BY <1>2, <2>3, JobSteps
    <3>2. CASE Allocates(i) \/ Reconfigures(i)
      BY <3>2 DEF Allocates, Reconfigures, Enters, Owed, Assigned, Executing
    <3>3. CASE Ends(i)
      BY <3>3 DEF Ends, Turns, Owed, Started
    <3>4. CASE Stays(i) \/ Submits(i) \/ Condemns(i) \/ GoesOn(i)
      <4>1. /\ assigned'[i] = assigned[i] /\ executing'[i] = executing[i] /\ node' = node
            /\ state[i] \in Final => state'[i] = state[i]
        BY <1>0, <3>4 DEF Stays, Submits, Condemns, GoesOn, Turns, Ended, Final
      <4> QED
        BY <1>0, <4>1 DEF Owed, Started, Assigned, Executing
    <3> QED
      BY <2>3, <3>1, <3>2, <3>3, <3>4 DEF JobStep
  <2> QED
    BY <2>1, <2>2, <2>3
<1> QED
  BY <1>0, <1>1, <1>2, StepCases

GainsInv == /\ \A j \in Jobs : Gains(j)
            /\ Undisturbed => \A j \in Jobs : Owed(j)

LEMMA GainsIsInvariant == Spec => []GainsInv
<1>1. Init => GainsInv
  BY DEF Init, JobInit, NodeInit, GainsInv, Gains, Owed, Started
<1>2. BaseInv /\ PlacesInv /\ KnownInv /\ GainsInv /\ [Next]_vars => GainsInv'
  BY NextGains, NextOwed, UndisturbedBefore DEF GainsInv, BaseInv
<1> QED
  BY <1>1, <1>2, BaseIsInvariant, PlacesAreInvariant, KnownIsInvariant, PTL DEF Spec

-----------------------------------------------------------------------------
(* With a careful algorithm no two jobs claim a node.                      *)

\* The nodes a job has or is to have.
Claims(j) == IF state[j] \in Final THEN {} ELSE Assigned(j) \cup Executing(j)

\* Node n passes from job i, which waits for the answer at its scheduling point and is to leave
\* n, to job j, which the same response starts on it.
Passing(i, j, n) ==
  /\ state[j] = "PENDING_ALLOCATION"
  /\ pc \in {"respond", "answer"} /\ inv \in Waiting /\ req = i
  /\ n \in Executing(i) /\ n \notin Assigned(i)
  /\ state[i] \in {"PENDING_RECONFIGURATION", "PENDING_KILL"}

Apart ==
  \A i, j \in Jobs : i # j =>
    \A n \in Claims(i) \cap Claims(j) : Passing(i, j, n) \/ Passing(j, i, n)

\* The algorithm sees a node that expects a job as taken, unless it has just sent it itself.
Foreseen ==
  pc = "respond" =>
    \A n \in Nodes : \A j \in Jobs \ decided :
      j \in node[n].expected => seenNode[n].state # "FREE"

\* A node that is expected is not shown free.
Clear(nd) == nd.expected # {} => nd.state # "FREE"

CarefulInv ==
  Careful /\ Undisturbed /\ fault = "none" => Apart /\ Foreseen /\ \A n \in Nodes : Clear(node[n])

\* What has been shown to hold of job j as long as no kill has overtaken a message.
JobFacts(j) ==
  /\ ThreadInv(j) /\ Ended(j) /\ OnNodes(j) /\ Known(j) /\ Kept(j) /\ Gains(j) /\ Owed(j)
  /\ state[j] \in {"PENDING_ALLOCATION", "PENDING_KILL"} =>
       pc \in {"respond", "answer", "forward"} /\ j \in decided
  /\ pc = "respond" /\ state[j] \in Final => seen[j] = state[j]
  /\ state[j] \in JobStates /\ assigned[j] \in Seq(Nodes) /\ executing[j] \in Seq(Nodes)

Facts ==
  /\ BaseInv /\ KnownInv /\ Reservations /\ (\A n \in Nodes : Shown(node[n]))
  /\ Undisturbed /\ fault = "none" => \A j \in Jobs : JobFacts(j)

LEMMA FactsHold == Spec => []Facts
<1> DEFINE AllShown == \A n \in Nodes : Shown(node[n])
<1>1. ASSUME BaseInv, PlacesInv, KnownInv, GainsInv, OccupiedInv, DecisionsForwarded, Undisturbed,
             fault = "none", NEW j \in Jobs
      PROVE  JobFacts(j)
  <2>1. ThreadInv(j) /\ Ended(j) /\ OnNodes(j) /\ Known(j) /\ Kept(j) /\ Gains(j) /\ Owed(j)
    BY <1>1 DEF BaseInv, ControlInv, PlacesInv, KnownInv, GainsInv, OccupiedInv
  <2>2. state[j] \in {"PENDING_ALLOCATION", "PENDING_KILL"} =>
          pc \in {"respond", "answer", "forward"} /\ j \in decided
    BY <1>1 DEF DecisionsForwarded, KnownInv, Response
  <2>3. pc = "respond" /\ state[j] \in Final => seen[j] = state[j]
    BY <1>1 DEF BaseInv, EndedAreKnown
  <2>4. state[j] \in JobStates /\ assigned[j] \in Seq(Nodes) /\ executing[j] \in Seq(Nodes)
    BY <1>1 DEF BaseInv, TypeOK, JobNodeTypeOK
  <2> QED
    BY <2>1, <2>2, <2>3, <2>4 DEF JobFacts
<1>2. BaseInv /\ PlacesInv /\ KnownInv /\ GainsInv /\ OccupiedInv /\ DecisionsForwarded
        /\ Reservations /\ AllShown => Facts
  BY <1>1 DEF Facts
<1> HIDE DEF AllShown
<1>3. Spec => []AllShown
  BY NodesAreShown DEF AllShown
<1> QED
  BY <1>2, <1>3, BaseIsInvariant, PlacesAreInvariant, KnownIsInvariant, GainsIsInvariant,
     OccupiedIsInvariant, NoDecisionIsLeft, ReservationsMatch, PTL

\* A job whose start is decided has no nodes yet, and the algorithm has just decided on it.
LEMMA StartDecided ==
  ASSUME NEW j \in Jobs, JobFacts(j), state[j] = "PENDING_ALLOCATION"
  PROVE  j \in decided /\ executing[j] = <<>> /\ Executing(j) = {} /\ Claims(j) = Assigned(j)
<1>1. j \in decided /\ executing[j] = <<>>
  BY DEF JobFacts, ThreadInv, Lifecycle
<1>2. Executing(j) = {}
  BY <1>1 DEF Executing, Range
<1> QED
  BY <1>1, <1>2 DEF Claims, Final

\* A decision of a careful algorithm claims only nodes nobody else claims, or nodes that pass.
LEMMA SendsApart ==
  ASSUME Careful, Response, Apart, Foreseen, pc = "respond", \A k \in Jobs : JobFacts(k),
         NEW j \in Jobs, NEW q \in Allocations, Sends(j, q), NEW i \in Jobs, i # j,
         UNCHANGED <<inv, req>>, SameJob(i), req \in Jobs \/ inv \notin Waiting,
         NEW n \in Nodes, n \in Claims(i), n \in Range(q) \cup Executing(j),
         \A m \in Nodes : node[m].running \subseteq Jobs
  PROVE  Passing(i, j, n)' \/ Passing(j, i, n)'
<1>0. JobFacts(i) /\ JobFacts(j) /\ j \notin decided
  BY DEF Sends
<1>1. /\ state'[j] = UpdatedState(state[j], q, executing[j]) /\ assigned'[j] = q
      /\ executing'[j] = executing[j] /\ pc' = "respond"
      /\ state'[i] = state[i] /\ assigned'[i] = assigned[i] /\ executing'[i] = executing[i]
  BY DEF Sends, SameJob
<1>2. state[j] \notin {"PENDING_ALLOCATION", "PENDING_KILL"} /\ state[j] \notin Final
  BY <1>0 DEF JobFacts, Sends, MaySend, Final
<1>3. n \in Range(q) =>
        /\ i \in decided => n \notin Assigned(i)
        /\ \/ seenNode[n].state = "FREE"
           \/ j \in seenNode[n].running
           \/ n \in Assigned(j)
           \/ seen[j] = "PENDING" /\ seenNode[n].running = {req} /\ Leaves(n)
  <2>1. n \in Range(q) => n \notin Taken(j)
    BY DEF Sends, MaySend
  <2> DEFINE sent == UNION {Assigned(k) : k \in decided \ {j}}
             seenTaken ==
               {m \in Nodes :
                 /\ seenNode[m].state # "FREE"
                 /\ j \notin seenNode[m].running /\ m \notin Assigned(j)
                 /\ ~ (seen[j] = "PENDING" /\ seenNode[m].running = {req} /\ Leaves(m))}
  <2>2. i \in decided => Assigned(i) \subseteq sent
    OBVIOUS
  <2>3. Taken(j) = sent \cup seenTaken
    BY DEF Taken
  <2>4. n \notin seenTaken =>
          \/ seenNode[n].state = "FREE"
          \/ j \in seenNode[n].running
          \/ n \in Assigned(j)
          \/ seen[j] = "PENDING" /\ seenNode[n].running = {req} /\ Leaves(n)
    OBVIOUS
  <2> HIDE DEF sent, seenTaken
  <2> QED
    BY <2>1, <2>2, <2>3, <2>4
<1>4. state[i] = "PENDING_ALLOCATION" => n \notin Range(q)
  BY <1>0, <1>3, StartDecided
<1>5. seenNode[n].running = node[n].running
  BY DEF Response
<1>6. n \in Claims(j) => Passing(j, i, n)
  BY <1>2 DEF Apart, Passing
<1>7. CASE n \in Claims(j)
  <2>1. Passing(j, i, n)
    BY <1>6, <1>7
  <2>2. n \notin Range(q) /\ state[j] = "PENDING_RECONFIGURATION"
    BY <1>2, <1>4, <2>1 DEF Passing
  <2>3. state'[j] = "PENDING_RECONFIGURATION"
    BY <1>1, <2>1, <2>2 DEF UpdatedState, Passing, Executing
  <2> QED
    BY <1>1, <2>1, <2>2, <2>3 DEF Passing, Executing, Assigned
<1>8. CASE n \notin Claims(j)
  <2>0. n \in Range(q) /\ n \notin Executing(j) /\ n \notin Assigned(j)
    BY <1>2, <1>8 DEF Claims
  <2>1. j \notin node[n].running
    BY <1>0, <2>0 DEF JobFacts, OnNodes
  <2>2. CASE seenNode[n].state = "FREE"
    <3>1. node[n].running = {} /\ (i \notin decided => i \notin node[n].expected)
      BY <2>2 DEF Response, Foreseen
    <3>2. n \notin Executing(i)
      BY <1>0, <3>1 DEF JobFacts, OnNodes, Started, Claims, Executing, Range
    <3>3. n \in Assigned(i) /\ i \notin decided /\ state[i] \notin Final
      BY <1>3, <2>0, <3>2 DEF Claims
    <3>4. ~Started(i)
      BY <1>0, <3>1, <3>2, <3>3 DEF JobFacts, Owed
    <3>5. state[i] \in {"PENDING_SUBMISSION", "PENDING"}
      BY <1>0, <3>3, <3>4 DEF JobFacts, ThreadInv, Lifecycle, Started, Final
    <3>6. assigned[i] = <<>>
      BY <1>0, <3>5 DEF JobFacts, Kept
    <3> QED
      BY <3>3, <3>6 DEF Assigned, Range
  <2>3. CASE seen[j] = "PENDING" /\ seenNode[n].running = {req} /\ Leaves(n)
    <3>1. /\ node[n].running = {req} /\ inv \in Waiting /\ req \in Jobs
          /\ n \notin Assigned(req)
          /\ req \in decided \/ seen[req] = "PENDING_RECONFIGURATION"
      BY <1>5, <2>3 DEF Leaves
    <3>2. req # j /\ JobFacts(req) /\ Asking(req)
      BY <2>1, <3>1 DEF Asking
    <3>3. Started(req) /\ n \in Executing(req)
      BY <3>1, <3>2 DEF JobFacts, OnNodes
    <3>4. state[req] \in {"RUNNING", "PENDING_RECONFIGURATION", "IN_RECONFIGURATION", "PENDING_KILL"}
      BY <3>2, <3>3 DEF JobFacts, ThreadInv, Lifecycle, Started, Final, JobStates
    <3>5. state[req] # "IN_RECONFIGURATION"
      BY <3>2 DEF JobFacts, Kept, ThreadInv, Alone
    <3>6. state[req] # "RUNNING"
      <4>1. req \in decided /\ state[req] = "RUNNING" => assigned[req] = executing[req]
        BY <3>2 DEF JobFacts, Kept
      <4>2. req \notin decided => state[req] = "PENDING_RECONFIGURATION"
        BY <3>1, <3>2 DEF JobFacts, Known
      <4> QED
        BY <3>1, <3>3, <4>1, <4>2 DEF Assigned, Executing
    <3>7. CASE i = req
      <4>1. state[j] = "PENDING" /\ executing[j] = <<>>
        BY <1>0, <2>3 DEF JobFacts, Known, Sends, ThreadInv, Lifecycle
      <4>2. q # <<>>
        BY <2>0 DEF Range
      <4>3. state'[j] = "PENDING_ALLOCATION"
        BY <1>1, <4>1, <4>2 DEF UpdatedState
      <4>4. Passing(i, j, n)'
        BY <1>1, <3>1, <3>3, <3>4, <3>5, <3>6, <3>7, <4>3 DEF Passing, Executing, Assigned
      <4> QED
        BY <4>4
    <3>8. CASE i # req
      <4>1. n \in Claims(req)
        BY <3>3 DEF Claims, Started
      <4>2. Passing(i, req, n) \/ Passing(req, i, n)
        BY <3>1, <3>8, <4>1 DEF Apart
      <4>3. state[req] # "PENDING_ALLOCATION" /\ state[i] # "PENDING_ALLOCATION"
        BY <1>4, <2>0, <3>4
      <4> QED
        BY <4>2, <4>3 DEF Passing
    <3> QED
      BY <3>7, <3>8
  <2> QED
    BY <1>3, <1>5, <2>0, <2>1, <2>2, <2>3
<1> QED
  BY <1>7, <1>8

\* A step about a job does not end or answer the response, unless it is the answer to the job.
LEMMA ResponseGoesOn ==
  ASSUME NEW j \in Jobs, StepOf(j), pc \in {"respond", "answer"}
  PROVE  UNCHANGED <<pc, inv, req>> \/ (Answer /\ req = j)
BY DEF StepOf, SchedulerStepOf, HandleJobSubmit, HandleSchedulingPoint, HandleEvolvingRequest,
   HandleWalltimeExceeded, HandleProcessedWorkload, Received, DecideKill, DecideNodes, Forward,
   Application, WalltimeExceeded, ReceiveJobStep, schedulerOnly, scheduleVars

\* Only a decision claims nodes.
LEMMA ClaimsShrink ==
  ASSUME NEW j \in Jobs, JobFacts(j), JobStep(j), ~\E q \in Allocations : Sends(j, q)
  PROVE  Claims(j)' \subseteq Claims(j)
<1>1. CASE Stays(j) \/ Submits(j) \/ Condemns(j) \/ GoesOn(j)
  <2>1. /\ assigned'[j] = assigned[j] /\ executing'[j] = executing[j]
        /\ state[j] \in Final => state'[j] = state[j]
    BY <1>1 DEF Stays, Submits, Condemns, GoesOn, Turns, JobFacts, Ended, Final
  <2> QED
    BY <2>1 DEF Claims, Assigned, Executing
<1>2. CASE Ends(j)
  BY <1>2 DEF Ends, Turns, Claims
<1>3. CASE Allocates(j) \/ Reconfigures(j)
  <2>1. assigned'[j] = assigned[j] /\ executing'[j] = assigned[j] /\ state[j] \notin Final
    BY <1>3 DEF Allocates, Reconfigures, Enters, Final
  <2> QED
    BY <2>1 DEF Claims, Assigned, Executing
<1> QED
  BY <1>1, <1>2, <1>3 DEF JobStep

LEMMA PassingStays ==
  ASSUME NEW i \in Jobs, NEW k \in Jobs, NEW n, Passing(i, k, n), SameJob(i), SameJob(k),
         UNCHANGED <<inv, req>>, pc' \in {"respond", "answer"}
  PROVE  Passing(i, k, n)'
BY DEF Passing, SameJob, Executing, Assigned

\* The pair of the job of a step with another job.
LEMMA PairStaysApart ==
  ASSUME Careful, BaseInv, KnownInv, Apart, Foreseen, fault' = "none", \A k \in Jobs : JobFacts(k),
         NEW j \in Jobs, StepOf(j), NEW i \in Jobs, i # j, SameJob(i),
         NEW n \in Nodes, n \in Claims(i), n \in Claims(j)'
  PROVE  Passing(i, j, n)' \/ Passing(j, i, n)'
<1>0. JobStep(j) /\ JobFacts(j) /\ JobFacts(i) /\ Response
  BY JobSteps DEF KnownInv
<1>1. ASSUME NEW q \in Allocations, Sends(j, q)
      PROVE  Passing(i, j, n)' \/ Passing(j, i, n)'
  <2>1. pc = "respond" /\ assigned'[j] = q /\ executing'[j] = executing[j] /\ pc' = "respond"
    BY <1>1 DEF Sends
  <2>2. UNCHANGED <<inv, req>>
    BY <2>1, ResponseGoesOn DEF Answer
  <2>3. req \in Jobs \/ inv \notin Waiting
    BY <2>1 DEF BaseInv, TypeOK, SchedulerTypeOK, ControlTypeOK
  <2>4. \A m \in Nodes : node[m].running \subseteq Jobs
    BY DEF BaseInv, TypeOK, JobNodeTypeOK, NodeRecord
  <2>5. n \in Range(q) \cup Executing(j)
    BY <2>1 DEF Claims, Assigned, Executing
  <2> QED
    BY <1>0, <1>1, <2>1, <2>2, <2>3, <2>4, <2>5, SendsApart
<1>2. CASE ~\E q \in Allocations : Sends(j, q)
  <2>1. n \in Claims(j)
    BY <1>0, <1>2, ClaimsShrink
  <2>2. Passing(i, j, n) \/ Passing(j, i, n)
    BY <2>1 DEF Apart
  <2>3. CASE UNCHANGED <<pc, inv, req>>
    <3>1. CASE Stays(j)
      <4>1. state'[j] = state[j] /\ assigned'[j] = assigned[j] /\ executing'[j] = executing[j]
        BY <3>1 DEF Stays
      <4> QED
        BY <2>2, <2>3, <4>1 DEF SameJob, Passing, Executing, Assigned
    <3>2. CASE Condemns(j)
      <4>1. state[j] # "PENDING_ALLOCATION"
        BY <1>0, <3>2 DEF Condemns, JobFacts
      <4> QED
        BY <2>2, <2>3, <3>2, <4>1 DEF SameJob, Passing, Executing, Assigned, Condemns, Turns
    <3>3. CASE GoesOn(j)
      <4>1. state[j] # "PENDING_ALLOCATION" /\ ~Asking(j)
        BY <1>0, <3>3 DEF GoesOn, JobFacts, ThreadInv, Alone, Lifecycle
      <4> QED
        BY <2>2, <4>1 DEF Passing, Asking
    <3>4. CASE Ends(j)
      BY <3>4 DEF Ends, Turns, Claims
    <3>5. CASE Submits(j) \/ Allocates(j)
      BY <2>2, <3>5 DEF Submits, Allocates, Passing
    <3>6. CASE Reconfigures(j)
      <4>1. n \in Assigned(j) /\ state[j] = "PENDING_RECONFIGURATION"
        BY <3>6 DEF Reconfigures, Enters, Claims, Assigned, Executing
      <4> QED
        BY <2>2, <4>1 DEF Passing
    <3> QED
      BY <1>0, <1>2, <3>1, <3>2, <3>3, <3>4, <3>5, <3>6 DEF JobStep
  <2>4. CASE Answer /\ req = j
    <3>1. Passing(j, i, n)
      BY <2>2, <2>4 DEF Passing
    <3>2. CASE state[j] = "PENDING_KILL"
      <4>1. state'[j] = "KILLED"
        BY <2>4, <3>2 DEF Answer, ForwardJobKill, SetState, BaseInv, TypeOK, JobNodeTypeOK
      <4> QED
        BY <4>1 DEF Claims, Final
    <3>3. CASE state[j] = "PENDING_RECONFIGURATION"
      <4>1. executing'[j] = assigned[j] /\ assigned' = assigned
        BY <2>4, <3>3 DEF Answer, HandleReconfiguration, SetState, TakesOver, BaseInv, TypeOK, JobNodeTypeOK
      <4> QED
        BY <3>1, <4>1 DEF Claims, Passing, Assigned, Executing
    <3> QED
      BY <3>1, <3>2, <3>3 DEF Passing
  <2> QED
    BY <2>2, <2>3, <2>4, ResponseGoesOn DEF Passing
<1> QED
  BY <1>1, <1>2

LEMMA PassingSwaps ==
  ASSUME Apart, NEW i \in Jobs, NEW k \in Jobs, i # k, NEW n, n \in Claims(i), n \in Claims(k)
  PROVE  Passing(i, k, n) \/ Passing(k, i, n)
BY DEF Apart

LEMMA NextApart ==
  ASSUME Careful, BaseInv, KnownInv, Apart, Foreseen, fault' = "none", \A k \in Jobs : JobFacts(k),
         [Next]_vars
  PROVE  Apart'
<1> SUFFICES ASSUME NEW i \in Jobs, NEW k \in Jobs, i # k,
                    NEW n, n \in Claims(i)', n \in Claims(k)'
             PROVE  Passing(i, k, n)' \/ Passing(k, i, n)'
  BY DEF Apart
<1>0. n \in Nodes
  <2>1. TypeOK'
    BY NextType DEF BaseInv
  <2>2. assigned'[i] \in Seq(Nodes) /\ executing'[i] \in Seq(Nodes)
    BY <2>1 DEF TypeOK, JobNodeTypeOK
  <2> QED
    BY <2>2 DEF Claims, Assigned, Executing, Range
<1>1. ASSUME SameJob(i), SameJob(k),
             Passing(i, k, n) \/ Passing(k, i, n) =>
               UNCHANGED <<inv, req>> /\ pc' \in {"respond", "answer"}
      PROVE  Passing(i, k, n)' \/ Passing(k, i, n)'
  <2>1. n \in Claims(i) /\ n \in Claims(k)
    BY <1>1 DEF SameJob, Claims, Assigned, Executing
  <2> QED
    BY <1>1, <2>1, PassingSwaps, PassingStays
<1>2. CASE StepOfNone
  <2>1. SameJob(i) /\ SameJob(k)
    BY <1>2, StepOfNoneTouches DEF Untouched, BaseInv
  <2>2. pc \in {"respond", "answer"} /\ inv \in Waiting =>
          UNCHANGED <<inv, req>> /\ pc' \in {"respond", "answer"}
    BY <1>2 DEF StepOfNone, vars, HandleInvoke, HandleFinalize, Invoke, EndResponse, EndSchedule, Received,
       InvokePeriodically, IntervalElapses, EngineStep, schedulerOnly, scheduleVars
  <2> QED
    BY <1>1, <2>1, <2>2 DEF Passing
<1>3. ASSUME NEW j \in Jobs, StepOf(j)
      PROVE  Passing(i, k, n)' \/ Passing(k, i, n)'
  <2>0. \A x \in Jobs : x # j => SameJob(x)
    BY <1>3, StepTouchesOne DEF Untouched, BaseInv
  <2>1. CASE i # j /\ k # j
    <3>1. SameJob(i) /\ SameJob(k)
      BY <2>0, <2>1
    <3>2. Passing(i, k, n) \/ Passing(k, i, n) => UNCHANGED <<inv, req>> /\ pc' \in {"respond", "answer"}
      BY <1>3, <2>1, ResponseGoesOn DEF Passing
    <3> QED
      BY <1>1, <3>1, <3>2
  <2>2. CASE k = j
    <3>1. SameJob(i) /\ n \in Claims(i)
      BY <2>0, <2>2 DEF SameJob, Claims, Assigned, Executing
    <3> QED
      BY <1>0, <1>3, <2>2, <3>1, PairStaysApart
  <2>3. CASE i = j
    <3>1. SameJob(k) /\ n \in Claims(k)
      BY <2>0, <2>3 DEF SameJob, Claims, Assigned, Executing
    <3> QED
      BY <1>0, <1>3, <2>3, <3>1, PairStaysApart
  <2> QED
    BY <2>1, <2>2, <2>3
<1> QED
  BY <1>2, <1>3, StepCases DEF BaseInv

LEMMA NextForeseen ==
  ASSUME BaseInv, StatesCurrent', Foreseen, \A n \in Nodes : Clear(node[n]), [Next]_vars
  PROVE  Foreseen'
<1>0. TypeOK
  BY DEF BaseInv
<1>1. CASE Invoke
  <2>1. modifiedNodes' = {} /\ node' = node
    BY <1>1 DEF Invoke
  <2> SUFFICES ASSUME NEW n \in Nodes, NEW i \in Jobs, i \in node'[n].expected
               PROVE  seenNode'[n].state # "FREE"
    BY DEF Foreseen
  <2>2. node[n].state # "FREE"
    BY <2>1 DEF Clear
  <2>3. seenNode'[n] = [state |-> node[n].state, running |-> node[n].running]
    BY <2>1 DEF StatesCurrent
  <2>4. seenNode'[n].state = node[n].state
    BY <2>3
  <2> QED
    BY <2>2, <2>4
<1>2. CASE StepOfNone /\ ~Invoke
  <2>1. pc' = "respond" => pc = "respond" /\ UNCHANGED <<decided, seenNode>>
    BY <1>2 DEF StepOfNone, vars, HandleInvoke, HandleFinalize, EndResponse, EndSchedule, Schedule, Return,
       InvokePeriodically, IntervalElapses, EngineStep, schedulerOnly, scheduleVars, viewVars
  <2> QED
    BY <1>2, <2>1, NodesOfNone DEF Foreseen
<1>3. ASSUME NEW j \in Jobs, StepOf(j)
      PROVE  Foreseen'
  <2>1. UNCHANGED viewVars /\ decided \subseteq decided' /\ (pc' = "respond" => pc = "respond")
    BY <1>0, <1>3, ResponseOf
  <2> SUFFICES ASSUME pc = "respond", NEW n \in Nodes, NEW i \in Jobs, i \notin decided',
                      i \in node'[n].expected
               PROVE  i \in node[n].expected
    BY <2>1 DEF Foreseen, viewVars
  <2>2. CASE i # j
    BY <1>0, <1>3, <2>2, StepNodes, NodeStepsTouchOne DEF SameNodes
  <2>3. CASE i = j
    <3>1. ~\E q \in Allocations : Sends(j, q)
      BY <2>3 DEF Sends, Named
    <3> QED
      BY <1>0, <1>3, <2>3, <3>1, JobSteps, OnlySendsExpects
  <2> QED
    BY <2>2, <2>3
<1> QED
  BY <1>0, <1>1, <1>2, <1>3, StepCases

LEMMA NodeOperationsClear ==
  ASSUME NEW nd \in NodeRecord, NEW j \in Jobs
  PROVE  /\ Clear(nd) => /\ Clear(ExpectJob(nd, j)) /\ Clear(RemoveExpectedJob(nd, j))
                         /\ Clear(AllocateJob(nd, j))
         /\ nd.expected = {} => Clear(CompleteJob(nd, j))
BY DEF Clear, NodeRecord, NodeStates, ExpectJob, RemoveExpectedJob, AllocateJob, CompleteJob

\* No other job is to have a node on which a job runs.
LEMMA RunsAlone ==
  ASSUME Apart, Reservations, \A i \in Jobs : JobFacts(i), NEW j \in Jobs, state[j] \notin Final,
         NEW n \in Nodes, n \in Executing(j), NEW k \in Jobs, k # j
  PROVE  /\ n \notin Executing(k) \/ state[k] \in Final
         /\ k \notin node[n].expected
<1>1. JobFacts(j) /\ JobFacts(k)
  OBVIOUS
<1>2. state[j] # "PENDING_ALLOCATION"
  BY <1>1, StartDecided
<1>3. n \in Claims(k) => Passing(j, k, n)
  BY <1>2, PassingSwaps DEF Claims, Passing
<1>4. n \notin Executing(k) \/ state[k] \in Final
  BY <1>1, <1>3, StartDecided DEF Claims, Passing
<1>5. k \notin node[n].expected
  <2>1. k \in node[n].expected => n \in Claims(k) /\ executing[k] # <<>>
    BY <1>1 DEF Reservations, Claims, JobFacts, Gains
  <2> QED
    BY <1>1, <1>3, <2>1, StartDecided DEF Passing
<1> QED
  BY <1>4, <1>5

LEMMA NextClear ==
  ASSUME BaseInv, Reservations, Apart, \A i \in Jobs : JobFacts(i),
         \A n \in Nodes : Clear(node[n]), [Next]_vars, NEW n \in Nodes
  PROVE  Clear(node'[n])
<1>0. TypeOK /\ node \in [Nodes -> NodeRecord] /\ node[n] \in NodeRecord /\ Clear(node[n])
  BY DEF BaseInv, TypeOK, JobNodeTypeOK
<1>1. CASE StepOfNone
  BY <1>0, <1>1, NodesOfNone
<1>2. ASSUME NEW j \in Jobs, StepOf(j)
      PROVE  Clear(node'[n])
  <2>0. JobStep(j) /\ JobFacts(j)
    BY <1>2, JobSteps
  <2>1. ASSUME NEW q \in Allocations, Sends(j, q)
        PROVE  Clear(node'[n])
    <3> DEFINE cleared == RemoveExpected(node, Assigned(j), j)
    <3>1. cleared \in [Nodes -> NodeRecord]
      BY <1>0, NodeMaps
    <3>2. cleared[n] \in NodeRecord
      BY <3>1
    <3>3. Clear(cleared[n])
      BY <1>0, NodeOperationsClear DEF RemoveExpected
    <3>4. node' = IF state[j] = "PENDING" THEN cleared ELSE Expect(cleared, Range(q), j)
      BY <2>1 DEF Sends
    <3> HIDE DEF cleared
    <3> QED
      BY <3>2, <3>3, <3>4, NodeOperationsClear DEF Expect
  <2>2. CASE Ends(j)
    <3> DEFINE freed == Complete(node, Executing(j), j)
    <3>1. freed \in [Nodes -> NodeRecord]
      BY <1>0, NodeMaps
    <3>2. freed[n] \in NodeRecord /\ freed[n].expected = node[n].expected
      BY <1>0, <3>1, OthersKeepExpected
    <3>3. PICK new \in Final : node' = NodesAfterSetState(freed, j, new)
      BY <2>2 DEF Ends
    <3>4. node' = RemoveExpected(freed, Assigned(j), j)
      BY <3>3 DEF NodesAfterSetState, Unreserves
    <3>5. n \notin Executing(j) => freed[n] = node[n]
      BY DEF Complete
    <3> HIDE DEF freed
    <3>6. CASE n \in Executing(j)
      <4>1. state[j] \notin Final
        BY <2>0, <2>2 DEF Ends, JobFacts, Ended, ThreadInv, Monitored, Final
      <4>2. \A k \in Jobs : k # j => k \notin node[n].expected
        BY <3>6, <4>1, RunsAlone
      <4>3. j \in node[n].expected => n \in Assigned(j)
        BY DEF Reservations
      <4>4. node[n].expected \subseteq Jobs
        BY <1>0 DEF NodeRecord
      <4>5. node'[n].expected = {}
        BY <3>1, <3>2, <3>4, <4>2, <4>3, <4>4, RemoveExpectedRemoves
      <4> QED
        BY <4>5 DEF Clear
    <3>7. CASE n \notin Executing(j)
      BY <1>0, <3>2, <3>4, <3>5, <3>7, NodeOperationsClear DEF RemoveExpected
    <3> QED
      BY <3>6, <3>7
  <2>3. CASE Allocates(j)
    BY <1>0, <2>3, NodeOperationsClear DEF Allocates, NodesTaken, Allocate
  <2>4. CASE Reconfigures(j)
    <3> DEFINE unreserved == NodesAfterSetState(node, j, "IN_RECONFIGURATION")
               taken == Allocate(unreserved, Assigned(j) \ Executing(j), j)
    <3>1. unreserved \in [Nodes -> NodeRecord]
      BY <1>0, NodeMaps DEF NodesAfterSetState
    <3>2. Clear(unreserved[n]) /\ unreserved[n].expected \subseteq node[n].expected
      BY <1>0, NodeOperationsClear, RemoveExpectedRemoves DEF NodesAfterSetState, RemoveExpected
    <3> HIDE DEF unreserved
    <3>3. taken \in [Nodes -> NodeRecord] /\ taken[n].expected \subseteq node[n].expected
      BY <3>1, <3>2, NodeMaps, OthersKeepExpected
    <3>4. Clear(taken[n])
      BY <3>1, <3>2, NodeOperationsClear DEF Allocate
    <3>5. node' = Complete(taken, Executing(j) \ Assigned(j), j)
      BY <2>4 DEF Reconfigures, NodesReconfigured, unreserved
    <3> HIDE DEF taken
    <3>6. CASE n \in Executing(j) \ Assigned(j)
      <4>1. state[j] \notin Final
        BY <2>4 DEF Reconfigures, Final
      <4>2. \A k \in Jobs : k # j => k \notin node[n].expected
        BY <3>6, <4>1, RunsAlone
      <4>3. j \notin node[n].expected
        BY <3>6 DEF Reservations
      <4>4. node[n].expected \subseteq Jobs
        BY <1>0 DEF NodeRecord
      <4>5. taken[n].expected = {}
        BY <3>3, <4>2, <4>3, <4>4
      <4>6. taken[n] \in NodeRecord
        BY <3>3
      <4> QED
        BY <3>5, <3>6, <4>5, <4>6, NodeOperationsClear DEF Complete
    <3>7. CASE n \notin Executing(j) \ Assigned(j)
      BY <3>4, <3>5, <3>7 DEF Complete
    <3> QED
      BY <3>6, <3>7
  <2>5. CASE Stays(j) \/ Submits(j) \/ Condemns(j) \/ GoesOn(j)
    BY <1>0, <2>5 DEF Stays, Submits, Condemns, GoesOn
  <2> QED
    BY <2>0, <2>1, <2>2, <2>3, <2>4, <2>5 DEF JobStep
<1> QED
  BY <1>0, <1>1, <1>2, StepCases

LEMMA CarefulIsInvariant == Spec => []CarefulInv
<1>1. Init => CarefulInv
  BY DEF Init, JobInit, NodeInit, SchedulerInit, CarefulInv, Apart, Foreseen, Clear, Claims, Assigned, Executing, Range
<1>2. Facts /\ StatesCurrent' /\ CarefulInv /\ [Next]_vars => CarefulInv'
  <2> SUFFICES ASSUME Facts, StatesCurrent', CarefulInv, [Next]_vars, Careful, Undisturbed', fault' = "none"
               PROVE  Apart' /\ Foreseen' /\ \A n \in Nodes : Clear(node'[n])
    BY DEF CarefulInv, Clear
  <2>1. BaseInv /\ KnownInv /\ Reservations /\ Undisturbed /\ fault = "none"
    BY UndisturbedBefore, FaultBefore DEF Facts, BaseInv
  <2>2. (\A i \in Jobs : JobFacts(i)) /\ Apart /\ Foreseen /\ \A n \in Nodes : Clear(node[n])
    BY <2>1 DEF Facts, CarefulInv
  <2> QED
    BY <2>1, <2>2, NextApart, NextForeseen, NextClear
<1> QED
  BY <1>1, <1>2, FactsHold, StatesAreCurrent, PTL DEF Spec

-----------------------------------------------------------------------------
(* NodeStateHonest and NoAbort.                                            *)

\* Where a check of the simulator fails, or a null pointer is followed.
Fails(j) ==
  \/ /\ fault' = "reservation"
     /\ \E q \in Allocations : pc = "respond" /\ j \notin decided /\ MaySend(j, q) /\ ~MayAssign(j, q)
  \/ /\ fault' = "allocation"
     /\ pc = "forward" /\ state[j] = "PENDING_ALLOCATION"
     /\ ~MayAllocateAll(node, assigned[j])
  \/ /\ fault' = "null"
     /\ \/ state[j] = "PENDING_KILL" /\ Walltime[j] /\ monitor[j] = "none"
        \/ ~IsInjective(executing[j])

LEMMA FaultCauses ==
  ASSUME TypeOK, [Next]_vars, fault' # fault
  PROVE  /\ fault = "none" /\ node' = node /\ executing' = executing
         /\ (fault' = "status" /\ WriteStatistics) \/ \E j \in Jobs : Fails(j)
<1>1. CASE StepOfNone
  <2>1. EngineStep /\ WriteStatistics
    BY <1>1 DEF StepOfNone, vars, HandleInvoke, HandleFinalize, Invoke, EndResponse, EndSchedule,
       InvokePeriodically, IntervalElapses, EngineStep
  <2> QED
    BY <1>1, <2>1, NodesOfNone DEF StepOfNone, WriteStatistics, EngineStep, passive, jobVars, vars
<1>2. ASSUME NEW j \in Jobs, StepOf(j)
      PROVE  fault = "none" /\ node' = node /\ executing' = executing /\ Fails(j)
  <2>0. fault = "none"
    BY <1>2 DEF StepOf
  <2>1. ASSUME NEW mb, ForwardJobKill(j, FALSE, mb), state[j] = "PENDING_KILL"
        PROVE  node' = node /\ executing' = executing /\ Fails(j)
    BY <2>1 DEF ForwardJobKill, NoActor, Fails, jobVars, nodeVars
  <2>2. CASE HandleWalltimeExceeded(j)
    <3>1. ForwardJobKill(j, TRUE, Tail(mailbox))
      BY <2>2 DEF HandleWalltimeExceeded
    <3>2. NoActor(j, TRUE) /\ fault' = "null" /\ UNCHANGED <<jobVars, nodeVars>>
      BY <3>1 DEF ForwardJobKill
    <3>3. Fails(j)
      BY <3>2 DEF NoActor, Fails
    <3> QED
      BY <2>0, <3>2, <3>3 DEF jobVars, nodeVars
  <2>3. ASSUME NEW q \in Allocations, DecideNodes(j, q)
        PROVE  node' = node /\ executing' = executing /\ Fails(j)
    BY <2>3 DEF DecideNodes, Fails, jobVars, nodeVars
  <2>4. CASE Answer /\ req = j
    BY <2>0, <2>1, <2>4 DEF Answer
  <2>5. CASE Forward /\ Head(scheduled) = j
    <3>1. CASE state[j] = "PENDING_KILL"
      <4>1. ForwardJobKill(j, FALSE, mailbox)
        BY <2>5, <3>1 DEF Forward
      <4> QED
        BY <2>0, <2>1, <3>1, <4>1
    <3>2. CASE state[j] = "PENDING_ALLOCATION"
      <4>1. ForwardJobAllocation(j) /\ pc = "forward"
        BY <2>5, <3>2 DEF Forward
      <4> QED
        BY <2>0, <3>2, <4>1 DEF ForwardJobAllocation, Fails, jobVars, nodeVars
    <3>3. CASE state[j] \notin {"PENDING_KILL", "PENDING_ALLOCATION"}
      BY <2>5, <3>3 DEF Forward
    <3> QED
      BY <3>1, <3>2, <3>3
  <2>6. CASE \/ HandleJobSubmit(j) \/ HandleSchedulingPoint(j) \/ HandleEvolvingRequest(j)
             \/ HandleProcessedWorkload(j) \/ DecideKill(j)
             \/ Application(j) \/ WalltimeExceeded(j) \/ ReceiveJobStep(j)
    BY <2>6 DEF HandleJobSubmit, HandleSchedulingPoint, HandleEvolvingRequest,
       HandleProcessedWorkload, DecideKill, Application, WalltimeExceeded, ReceiveJobStep
  <2> QED
    BY <1>2, <2>0, <2>2, <2>3, <2>4, <2>5, <2>6 DEF StepOf, SchedulerStepOf
<1> QED
  BY <1>1, <1>2, StepCases

\* After a fault nothing happens.
LEMMA FaultStops ==
  ASSUME TypeOK, [Next]_vars, fault # "none"
  PROVE  UNCHANGED vars
BY DEF Next, Scheduling, SchedulerNext, Application, WalltimeExceeded, InvokePeriodically, IntervalElapses,
       Simulation

ClearInv == Careful /\ Undisturbed => \A n \in Nodes : Clear(node[n])

\* The state of a node, which five operations update, is always what its running and expected
\* jobs call for; if a careful algorithm decides, it is never shown free while a job is to get it.
THEOREM NodesAreHonest == ASSUME Careful PROVE Spec => []NodeStateHonest
<1>1. Init => ClearInv
  BY DEF Init, JobInit, NodeInit, ClearInv, Clear
<1>2. TypeOK /\ CarefulInv' /\ ClearInv /\ [Next]_vars => ClearInv'
  <2> SUFFICES ASSUME TypeOK, CarefulInv', ClearInv, [Next]_vars, Undisturbed', fault' # "none"
               PROVE  \A n \in Nodes : Clear(node'[n])
    BY DEF ClearInv, CarefulInv
  <2>1. Undisturbed
    BY UndisturbedBefore
  <2>2. node' = node
    BY FaultCauses, FaultStops DEF vars, nodeVars
  <2> QED
    BY <2>1, <2>2 DEF ClearInv
<1>3. Facts /\ ClearInv => NodeStateHonest
  BY DEF Facts, ClearInv, Shown, Clear, NodeStateHonest
<1> QED
  BY <1>1, <1>2, <1>3, FactsHold, TypeCorrect, CarefulIsInvariant, PTL DEF Spec

\* A decision of a careful algorithm passes the checks of Job::assignNode and Node::expectJob.
LEMMA SendIsAccepted ==
  ASSUME Careful, Response, Reservations, Apart, Foreseen, pc = "respond", TypeOK,
         \A k \in Jobs : JobFacts(k),
         NEW j \in Jobs, j \notin decided, NEW q \in Allocations, MaySend(j, q)
  PROVE  MayAssign(j, q)
<1>0. JobFacts(j) /\ node \in [Nodes -> NodeRecord]
  BY DEF TypeOK, JobNodeTypeOK
<1>1. CASE state[j] = "PENDING"
  BY <1>1 DEF MayAssign
<1>2. CASE state[j] # "PENDING"
  <2>1. /\ seen[j] # "PENDING" /\ Type[j] \in Elastic
        /\ state[j] \in {"RUNNING", "PENDING_RECONFIGURATION", "IN_RECONFIGURATION"}
    BY <1>0, <1>2 DEF JobFacts, Known, MaySend
  <2> SUFFICES ASSUME NEW n \in Range(q)
               PROVE  MayExpect(RemoveExpected(node, Assigned(j), j)[n], j)
    BY <2>1 DEF MayAssign
  <2> DEFINE cleared == RemoveExpected(node, Assigned(j), j)
  <2>2. n \in Nodes
    BY SchedulerConfiguration DEF Range
  <2>3. /\ cleared[n].running = node[n].running
        /\ cleared[n].expected \subseteq node[n].expected
        /\ n \in Assigned(j) => j \notin cleared[n].expected
    BY <1>0, <2>2, RunningMaps, RemoveExpectedRemoves
  <2>4. node[n].running \subseteq Jobs /\ node[n].expected \subseteq Jobs
    BY <1>0, <2>2 DEF NodeRecord
  <2>5. j \notin cleared[n].expected
    BY <2>2, <2>3 DEF Reservations
  <2> HIDE DEF cleared
  <2>6. ASSUME NEW i \in Jobs, i # j, n \in Claims(i), executing[i] # <<>>, n \in Claims(j)
        PROVE  FALSE
    <3>1. state[j] # "PENDING_ALLOCATION" /\ state[i] # "PENDING_ALLOCATION"
      BY <2>1, <2>6, StartDecided
    <3> QED
      BY <2>6, <3>1, PassingSwaps DEF Passing
  <2>7. ASSUME NEW i \in Jobs, i \in node[n].running
        PROVE  n \in Executing(i) /\ n \in Claims(i) /\ executing[i] # <<>>
    BY <2>2, <2>7 DEF JobFacts, OnNodes, Started, Claims
  <2>8. ASSUME NEW i \in Jobs, i \in node[n].expected
        PROVE  n \in Assigned(i) /\ n \in Claims(i) /\ executing[i] # <<>>
    BY <2>2, <2>8 DEF JobFacts, Gains, Reservations, Claims
  <2>9. CASE n \in Claims(j)
    <3>1. \A i \in Jobs : i # j => i \notin node[n].running /\ i \notin node[n].expected
      BY <2>6, <2>7, <2>8, <2>9
    <3>2. node[n].running = {} \/ j \in node[n].running
      BY <2>4, <3>1
    <3>3. cleared[n].expected = {}
      BY <2>3, <2>4, <2>5, <3>1
    <3> QED
      BY <2>3, <3>2, <3>3 DEF MayExpect, cleared
  <2>10. CASE n \notin Claims(j)
    <3>1. n \notin Assigned(j) /\ j \notin node[n].running
      BY <2>1, <2>7, <2>10 DEF Claims, Final
    <3>2. n \notin Taken(j)
      BY DEF MaySend
    <3>3. seenNode[n].state = "FREE" /\ \A i \in decided : n \notin Assigned(i)
      <4> DEFINE sent == UNION {Assigned(k) : k \in decided \ {j}}
                 seenTaken ==
                   {m \in Nodes :
                     /\ seenNode[m].state # "FREE"
                     /\ j \notin seenNode[m].running /\ m \notin Assigned(j)
                     /\ ~ (seen[j] = "PENDING" /\ seenNode[m].running = {req} /\ Leaves(m))}
      <4>1. \A i \in decided : Assigned(i) \subseteq sent
        OBVIOUS
      <4>2. Taken(j) = sent \cup seenTaken
        BY DEF Taken
      <4>3. seenNode[n].running = node[n].running
        BY <2>2 DEF Response
      <4>4. n \notin seenTaken => seenNode[n].state = "FREE"
        BY <2>1, <2>2, <3>1, <4>3
      <4> HIDE DEF sent, seenTaken
      <4> QED
        BY <3>2, <4>1, <4>2, <4>4
    <3>4. node[n].running = {}
      BY <2>2, <3>3 DEF Response
    <3>5. \A i \in Jobs : i \notin node[n].expected
      BY <2>2, <2>8, <3>3 DEF Foreseen
    <3>6. cleared[n].expected = {}
      BY <2>3, <2>4, <3>5
    <3> QED
      BY <2>3, <3>4, <3>6 DEF MayExpect, cleared
  <2> QED
    BY <2>9, <2>10
<1> QED
  BY <1>1, <1>2

\* When a job is started, no other job runs on its nodes.
LEMMA StartIsAccepted ==
  ASSUME Apart, TypeOK, \A k \in Jobs : JobFacts(k), pc = "forward",
         NEW j \in Jobs, state[j] = "PENDING_ALLOCATION", NEW n \in Assigned(j)
  PROVE  node[n].running = {}
<1>1. n \in Nodes /\ n \in Claims(j)
  BY DEF JobFacts, Assigned, Range, Claims, Final
<1>2. node[n].running \subseteq Jobs
  BY <1>1 DEF TypeOK, JobNodeTypeOK, NodeRecord
<1>3. ASSUME NEW i \in Jobs, i \in node[n].running
      PROVE  FALSE
  <2>1. Started(i) /\ n \in Executing(i)
    BY <1>1, <1>3 DEF JobFacts, OnNodes
  <2>2. i # j /\ n \in Claims(i)
    BY <2>1, StartDecided DEF Started, Claims
  <2> QED
    BY <1>1, <2>2, PassingSwaps DEF Passing
<1> QED
  BY <1>2, <1>3

\* The engine finalizes when it expects no job any more.
FinalizingInv == engine = "finalizing" => expectedJobs = 0

LEMMA FinalizesInTime == Spec => []FinalizingInv
<1>1. Init => FinalizingInv
  BY DEF Init, FinalizingInv
<1>2. FinalizingInv /\ [Next]_vars => FinalizingInv'
  <2> SUFFICES ASSUME FinalizingInv, [Next]_vars
               PROVE  FinalizingInv'
    OBVIOUS
  <2>1. CASE UNCHANGED engineVars
    BY <2>1 DEF engineVars, FinalizingInv
  <2>2. CASE Simulation
    <3>1. CASE JobSubmitter \/ WriteStatistics
      BY <3>1 DEF JobSubmitter, SendNumberOfJobs, SubmitJob, WriteStatistics, engineVars, FinalizingInv
    <3>2. CASE SimulationEngine
      BY <3>2 DEF SimulationEngine, ReceiveNumberOfJobs, ReceiveJob, ReceiveEnd, Looping, SendFinalize,
         FinalizingInv
    <3> QED
      BY <2>2, <3>1, <3>2 DEF Simulation
  <2> QED
    BY <2>1, <2>2 DEF Next, Scheduling, Application, WalltimeExceeded, InvokePeriodically,
       IntervalElapses, vars
<1> QED
  BY <1>1, <1>2, PTL DEF Spec

\* The statistics are written when every job has ended.
LEMMA StatisticsOfEnded ==
  ASSUME TypeOK, Accounting, Undisturbed, FinalizingInv, engine = "finalizing", NEW j \in Jobs
  PROVE  state[j] \in Final
<1>1. IsFiniteSet(Unfinished) /\ IsFiniteSet(EndPlaces(simMailbox))
  BY ElastisimConfiguration, FS_Subset, EndPlacesFinite DEF Unfinished, TypeOK, SchedulerTypeOK
<1>2. Cardinality(Unfinished) \in Nat /\ Cardinality(EndPlaces(simMailbox)) \in Nat
  BY <1>1, FS_CardinalityType
<1>3. 0 = Cardinality(Unfinished) + Cardinality(EndPlaces(simMailbox))
  BY DEF Accounting, FinalizingInv, Unfinished, EndPlaces, EndMessages
<1>4. Unfinished = {}
  BY <1>1, <1>2, <1>3, FS_EmptySet
<1> QED
  BY <1>4 DEF Unfinished

\* A careful algorithm sends a job no node twice.
Distinct(j) == Careful => IsInjective(assigned[j]) /\ IsInjective(executing[j])

LEMMA DistinctIsInvariant == Spec => []\A j \in Jobs : Distinct(j)
<1> DEFINE AllDistinct == \A j \in Jobs : Distinct(j)
<1>1. Init => AllDistinct
  BY EmptySeq DEF Init, JobInit, NodeInit, Distinct, IsInjective
<1>2. BaseInv /\ AllDistinct /\ [Next]_vars => AllDistinct'
  <2> SUFFICES ASSUME BaseInv, AllDistinct, [Next]_vars, NEW i \in Jobs
               PROVE  Distinct(i)'
    OBVIOUS
  <2>1. CASE StepOfNone
    BY <2>1, StepOfNoneTouches DEF BaseInv, Untouched, SameJob, Distinct
  <2>2. ASSUME NEW j \in Jobs, StepOf(j)
        PROVE  Distinct(i)'
    <3>1. CASE i # j
      BY <2>2, <3>1, StepTouchesOne DEF BaseInv, Untouched, SameJob, Distinct
    <3>2. CASE i = j
      <4>1. JobStep(j)
        BY <2>2, JobSteps
      <4>2. ASSUME NEW q \in Allocations, Sends(j, q)
            PROVE  Distinct(i)'
        BY <3>2, <4>2 DEF Sends, MaySend, Distinct
      <4>3. CASE ~\E q \in Allocations : Sends(j, q)
        <5>1. assigned'[j] = assigned[j] /\ executing'[j] \in {assigned[j], executing[j]}
          BY <4>1, <4>3 DEF JobStep, Stays, Submits, Condemns, Ends, Allocates, Reconfigures, GoesOn, Turns, Enters
        <5> QED
          BY <3>2, <5>1 DEF Distinct
      <4> QED
        BY <4>2, <4>3
    <3> QED
      BY <3>1, <3>2
  <2> QED
    BY <2>1, <2>2, StepCases DEF BaseInv
<1> HIDE DEF AllDistinct
<1>3. Spec => []AllDistinct
  BY <1>1, <1>2, BaseIsInvariant, PTL DEF Spec
<1> QED
  BY <1>3 DEF AllDistinct

AbortInv ==
  Careful =>
    /\ Undisturbed => fault \in {"none", "null"}
    /\ fault = "null" => \E j \in MayKill : Walltime[j] /\ executing[j] = <<>>

LEMMA NextAbort ==
  ASSUME Facts, CarefulInv, Accounting, FinalizingInv, AbortInv, \A j \in Jobs : Distinct(j), [Next]_vars
  PROVE  AbortInv'
<1>0. TypeOK /\ KnownInv /\ \A j \in Jobs : ThreadInv(j) /\ Kept(j)
  BY DEF Facts, BaseInv, KnownInv, ControlInv
<1>1. CASE fault' = fault
  <2>1. fault' = "null" => executing' = executing
    BY <1>0, <1>1, FaultStops DEF vars, jobVars
  <2> QED
    BY <1>0, <1>1, <2>1, UndisturbedBefore DEF AbortInv
<1>2. CASE fault' # fault
  <2>0. fault = "none" /\ executing' = executing
    BY <1>0, <1>2, FaultCauses
  <2>1. CASE fault' = "status" /\ WriteStatistics
    <3>1. registered \subseteq Jobs
      BY <1>0 DEF TypeOK
    <3>2. ~Undisturbed
      BY <1>0, <1>2, <2>1, <3>1, StatisticsOfEnded DEF WriteStatistics
    <3> QED
      BY <1>0, <2>1, <3>2, UndisturbedBefore DEF AbortInv
  <2>2. ASSUME NEW j \in Jobs, Fails(j)
        PROVE  AbortInv'
    <3>1. CASE fault' = "null"
      <4> SUFFICES ASSUME Careful
                   PROVE  \E i \in MayKill : Walltime[i] /\ executing[i] = <<>>
        BY <2>0, <3>1 DEF AbortInv
      <4>1. state[j] = "PENDING_KILL" /\ Walltime[j] /\ monitor[j] = "none"
        BY <2>2, <3>1 DEF Fails, Distinct
      <4>2. j \in MayKill /\ executing[j] = <<>>
        BY <1>0, <4>1 DEF Kept, ThreadInv, Monitored, Lifecycle
      <4> QED
        BY <4>1, <4>2
    <3>2. CASE fault' # "null"
      <4> SUFFICES ASSUME Careful, Undisturbed'
                   PROVE  FALSE
        BY <3>2 DEF AbortInv
      <4>1. Undisturbed /\ (\A k \in Jobs : JobFacts(k)) /\ Apart /\ Foreseen /\ Response /\ Reservations
        BY <1>0, <2>0, UndisturbedBefore DEF Facts, CarefulInv, KnownInv
      <4>2. CASE fault' = "reservation"
        BY <1>0, <2>2, <4>1, <4>2, SendIsAccepted DEF Fails
      <4>3. CASE fault' = "allocation"
        <5>1. IsInjective(assigned[j])
          BY DEF Distinct
        <5> QED
          BY <1>0, <2>2, <4>1, <4>3, <5>1, StartIsAccepted DEF Fails, MayAllocateAll, MayAllocate, Assigned
      <4> QED
        BY <2>2, <3>2, <4>2, <4>3 DEF Fails
    <3> QED
      BY <3>1, <3>2
  <2> QED
    BY <1>0, <1>2, <2>1, <2>2, FaultCauses
<1> QED
  BY <1>1, <1>2

\* With a careful algorithm none of the checks that end the process can fail: not the one of
\* an allocation, not the one of a reservation, not the one of the statistics; and a null
\* pointer is followed only for a job with a walltime that was killed before its start.  (That
\* a careful algorithm names no node twice is needed for both.)
THEOREM CarefulNeverAborts == ASSUME Careful PROVE Spec => []NoAbort
<1>1. Init => AbortInv
  BY DEF Init, SchedulerInit, AbortInv
<1>2. Facts /\ CarefulInv /\ Accounting /\ FinalizingInv /\ AbortInv /\ (\A j \in Jobs : Distinct(j))
        /\ [Next]_vars => AbortInv'
  BY NextAbort
<1>3. AbortInv => NoAbort
  BY DEF AbortInv, NoAbort
<1> QED
  BY <1>1, <1>2, <1>3, FactsHold, CarefulIsInvariant, EndsAreCounted, FinalizesInTime, DistinctIsInvariant,
     PTL DEF Spec

-----------------------------------------------------------------------------
(* The refinement.                                                         *)

(* The sizes of jobs.                                                      *)

\* The nodes of a job are those of one decision, as many as its specification allows.
Sized(j) == assigned[j] = <<>> \/ (assigned[j] \in Allocations /\ ValidConfiguration(j, assigned[j]))

LEMMA SizedIsInvariant == Spec => []\A j \in Jobs : Sized(j)
<1> DEFINE AllSized == \A j \in Jobs : Sized(j)
<1>1. Init => AllSized
  BY DEF Init, JobInit, NodeInit, Sized
<1>2. BaseInv /\ AllSized /\ [Next]_vars => AllSized'
  <2> SUFFICES ASSUME BaseInv, AllSized, [Next]_vars, NEW i \in Jobs
               PROVE  Sized(i)'
    OBVIOUS
  <2>1. CASE StepOfNone
    BY <2>1, StepOfNoneTouches DEF BaseInv, Untouched, SameJob, Sized, ValidConfiguration
  <2>2. ASSUME NEW j \in Jobs, StepOf(j)
        PROVE  Sized(i)'
    <3>1. CASE i # j
      BY <2>2, <3>1, StepTouchesOne DEF BaseInv, Untouched, SameJob, Sized, ValidConfiguration
    <3>2. CASE i = j
      <4>1. JobStep(j)
        BY <2>2, JobSteps
      <4>2. ASSUME NEW q \in Allocations, Sends(j, q)
            PROVE  Sized(i)'
        BY <3>2, <4>2 DEF Sends, MaySend, Sized, ValidConfiguration
      <4>3. CASE ~\E q \in Allocations : Sends(j, q)
        <5>1. assigned'[j] = assigned[j]
          BY <4>1, <4>3 DEF JobStep, Stays, Submits, Condemns, Ends, Allocates, Reconfigures, GoesOn, Turns, Enters
        <5> QED
          BY <3>2, <5>1 DEF Sized, ValidConfiguration
      <4> QED
        BY <4>2, <4>3
    <3> QED
      BY <3>1, <3>2
  <2> QED
    BY <2>1, <2>2, StepCases DEF BaseInv
<1> HIDE DEF AllSized
<1>3. Spec => []AllSized
  BY <1>1, <1>2, BaseIsInvariant, PTL DEF Spec
<1> QED
  BY <1>3 DEF AllSized

LEMMA InjectiveCardinality ==
  ASSUME NEW q \in Seq(Nodes), IsInjective(q)
  PROVE  Cardinality(Range(q)) = Len(q)
<1>1. q \in [1 .. Len(q) -> Nodes] /\ Len(q) \in Nat
  BY LenProperties
<1>2. q \in Injection(1 .. Len(q), Nodes)
  BY <1>1 DEF Injection
<1>3. q \in Bijection(1 .. Len(q), Range(q))
  BY <1>2, Fun_InjMeansBijImage
<1>4. IsFiniteSet(1 .. Len(q)) /\ Cardinality(1 .. Len(q)) = Len(q)
  <2>1. Len(q) - 1 + 1 = Len(q) /\ (1 > Len(q) <=> Len(q) = 0)
    BY <1>1
  <2> QED
    BY <1>1, <2>1, FS_Interval
<1>5. ExistsBijection(1 .. Len(q), Range(q))
  BY <1>3, Fun_ExistsBij
<1> QED
  BY <1>4, <1>5, FS_Bijection

\* The nodes of a job are a size that BatchSystem allows.
LEMMA AssignedSizes ==
  ASSUME Careful, NEW j \in Jobs, Sized(j), Distinct(j), assigned[j] # <<>>
  PROVE  Assigned(j) \in Batch!Sizes(j)
<1>1. /\ assigned[j] \in Seq(Nodes) /\ IsInjective(assigned[j])
      /\ Len(assigned[j]) \in MinNodes[j] .. MaxNodes[j]
  BY SchedulerConfiguration DEF Distinct, Sized, ValidConfiguration
<1>2. Cardinality(Assigned(j)) \in MinNodes[j] .. MaxNodes[j]
  BY <1>1, InjectiveCardinality DEF Assigned
<1>3. Assigned(j) \subseteq Nodes
  BY <1>1 DEF Assigned, Range
<1>4. Cardinality(Assigned(j)) = Batch!Cardinality(Assigned(j))
  BY DEF Cardinality, Batch!Cardinality
<1> QED
  BY <1>2, <1>3, <1>4 DEF Batch!Sizes

-----------------------------------------------------------------------------
(* The refinement mapping, job by job.                                     *)

LEMMA Mapping ==
  ASSUME NEW j \in Jobs
  PROVE  /\ Phase[j] = CASE state[j] = "PENDING_SUBMISSION" -> "absent"
                         [] state[j] \in Final -> "ended"
                         [] Active(j) -> "running"
                         [] OTHER -> "queued"
         /\ Holds[j] = {n \in Nodes : j \in node[n].running}
BY DEF Phase, Holds

\* Where a job is for the users, by its state and by whether it was started.
LEMMA PhaseOf ==
  ASSUME TypeOK, NEW j \in Jobs, ThreadInv(j)
  PROVE  /\ state[j] = "PENDING_SUBMISSION" => Phase[j] = "absent"
         /\ state[j] \in Final => Phase[j] = "ended"
         /\ Started(j) => Phase[j] = "running"
         /\ state[j] \notin Final \cup {"PENDING_SUBMISSION"} /\ executing[j] = <<>> => Phase[j] = "queued"
<1>1. Active(j) <=> Started(j)
  BY ActiveIff
<1>2. Started(j) => state[j] # "PENDING_SUBMISSION"
  BY DEF ThreadInv, Lifecycle, Started
<1> QED
  BY <1>1, <1>2, Mapping DEF Started, Final

\* A job holds its executing nodes while it is started.
LEMMA HeldBy ==
  ASSUME NEW j \in Jobs, OnNodes(j), executing[j] \in Seq(Nodes)
  PROVE  Holds[j] = IF Started(j) THEN Executing(j) ELSE {}
<1>1. Executing(j) \subseteq Nodes
  BY DEF Executing, Range
<1> QED
  BY <1>1, Mapping DEF OnNodes

\* A step about one job changes what the users see of this job only.
LEMMA OthersSeen ==
  ASSUME TypeOK, NEW j \in Jobs, StepOf(j), NEW i \in Jobs, i # j
  PROVE  Phase'[i] = Phase[i] /\ Holds'[i] = Holds[i]
<1>1. SameJob(i) /\ SameNodes(i)
  BY StepTouchesOne, StepNodes, NodeStepsTouchOne DEF Untouched
<1>2. Active(i)' <=> Active(i)
  BY <1>1 DEF SameJob, Active
<1> QED
  BY <1>1, <1>2 DEF SameJob, SameNodes, Phase, Holds

LEMMA Replaced ==
  ASSUME TypeOK, NEW j \in Jobs, StepOf(j)
  PROVE  /\ Phase' = [Phase EXCEPT ![j] = Phase'[j]]
         /\ Holds' = [Holds EXCEPT ![j] = Holds'[j]]
         /\ Phase'[j] = Phase[j] => Phase' = Phase
         /\ Holds'[j] = Holds[j] => Holds' = Holds
<1>1. \A i \in Jobs : i # j => Phase'[i] = Phase[i] /\ Holds'[i] = Holds[i]
  BY OthersSeen
<1>2. /\ Phase = [i \in Jobs |-> Phase[i]] /\ Phase' = [i \in Jobs |-> Phase'[i]]
      /\ Holds = [i \in Jobs |-> Holds[i]] /\ Holds' = [i \in Jobs |-> Holds'[i]]
  BY DEF Phase, Holds
<1> QED
  BY <1>1, <1>2

\* No other job holds a node that job j is to have when it takes its nodes over.
LEMMA TakesNodesOfNobody ==
  ASSUME Apart, TypeOK, \A k \in Jobs : JobFacts(k), NEW j \in Jobs,
         \/ state[j] = "PENDING_ALLOCATION" /\ pc = "forward"
         \/ state[j] = "PENDING_RECONFIGURATION"
  PROVE  Assigned(j) \cap Batch!HeldByOthers(j) = {}
<1> SUFFICES ASSUME NEW n \in Assigned(j), NEW i \in Jobs, i # j, n \in Holds[i]
             PROVE  FALSE
  BY DEF Batch!HeldByOthers
<1>1. Started(i) /\ n \in Executing(i)
  BY HeldBy DEF JobFacts
<1>2. n \in Claims(i) /\ n \in Claims(j)
  BY <1>1 DEF Started, Claims, Final
<1>3. state[i] # "PENDING_ALLOCATION"
  BY <1>1, StartDecided DEF Started
<1> QED
  BY <1>2, <1>3, PassingSwaps DEF Passing

\* The same of the state after a step.
LEMMA PhaseNext ==
  ASSUME NEW j \in Jobs, TypeOK', ThreadInv(j)'
  PROVE  /\ state'[j] = "PENDING_SUBMISSION" => Phase'[j] = "absent"
         /\ state'[j] \in Final => Phase'[j] = "ended"
         /\ Started(j)' => Phase'[j] = "running"
         /\ state'[j] \notin Final \cup {"PENDING_SUBMISSION"} /\ executing'[j] = <<>> => Phase'[j] = "queued"
<1>1. Active(j)' <=> Started(j)'
  BY DEF TypeOK, JobNodeTypeOK, JobStates, ThreadInv, Lifecycle, Active, Started, Final
<1>2. Started(j)' => state'[j] # "PENDING_SUBMISSION"
  BY DEF ThreadInv, Lifecycle, Started
<1>3. Phase'[j] = CASE state'[j] = "PENDING_SUBMISSION" -> "absent"
                    [] state'[j] \in Final -> "ended"
                    [] Active(j)' -> "running"
                    [] OTHER -> "queued"
  BY DEF Phase
<1> QED
  BY <1>1, <1>2, <1>3 DEF Started, Final

LEMMA HeldNext ==
  ASSUME NEW j \in Jobs, TypeOK', OnNodes(j)'
  PROVE  Holds'[j] = IF Started(j)' THEN Range(executing'[j]) ELSE {}
<1>1. Range(executing'[j]) \subseteq Nodes
  BY DEF TypeOK, JobNodeTypeOK, Range
<1>2. Holds'[j] = {n \in Nodes : j \in node'[n].running}
  BY DEF Holds
<1> QED
  BY <1>1, <1>2 DEF OnNodes, Executing

\* What the users see of a step about job j: nothing, or a step of the abstract batch system.
LEMMA StepRefines ==
  ASSUME Careful, BaseInv, Apart, \A k \in Jobs : JobFacts(k), TypeOK', NEW j \in Jobs, StepOf(j),
         Sized(j), Distinct(j), ThreadInv(j)', OnNodes(j)'
  PROVE  UNCHANGED <<Phase, Holds>> \/ Batch!BatchNext
<1>0. JobStep(j) /\ JobFacts(j) /\ ThreadInv(j) /\ TypeOK
  BY JobSteps DEF BaseInv, JobFacts
<1>1. /\ Phase' = [Phase EXCEPT ![j] = Phase'[j]] /\ Holds' = [Holds EXCEPT ![j] = Holds'[j]]
      /\ Phase'[j] = Phase[j] => Phase' = Phase
      /\ Holds'[j] = Holds[j] => Holds' = Holds
  BY <1>0, Replaced
<1>2. Holds[j] = IF Started(j) THEN Executing(j) ELSE {}
  BY <1>0, HeldBy DEF JobFacts
<1>3. Holds'[j] = IF Started(j)' THEN Range(executing'[j]) ELSE {}
  BY HeldNext
<1>4. ASSUME executing'[j] = executing[j], Started(j)' <=> Started(j)
      PROVE  Holds' = Holds
  BY <1>1, <1>2, <1>3, <1>4 DEF Executing
<1>5. ASSUME executing'[j] = executing[j], state[j] \notin Final \cup {"PENDING_SUBMISSION"},
             state'[j] \notin Final \cup {"PENDING_SUBMISSION"}
      PROVE  UNCHANGED <<Phase, Holds>>
  <2>1. Started(j)' <=> Started(j)
    BY <1>5 DEF Started
  <2>2. Phase'[j] = Phase[j]
    BY <1>0, <1>5, PhaseOf, PhaseNext DEF Started
  <2> QED
    BY <1>1, <1>4, <1>5, <2>1, <2>2
<1>6. CASE Stays(j)
  <2>1. Started(j)' <=> Started(j)
    BY <1>6 DEF Stays, Started
  <2>2. Phase'[j] = Phase[j]
    BY <1>6 DEF Stays, Phase, Active
  <2> QED
    BY <1>1, <1>4, <1>6, <2>1, <2>2 DEF Stays
<1>7. ASSUME NEW q \in Allocations, Sends(j, q)
      PROVE  UNCHANGED <<Phase, Holds>>
  <2>1. state[j] \notin Final \cup {"PENDING_SUBMISSION"}
    BY <1>0, <1>7 DEF Sends, MaySend, JobFacts, Known, Final
  <2>2. state'[j] \notin Final \cup {"PENDING_SUBMISSION"}
    BY <1>7, <2>1 DEF Sends, UpdatedState, Final
  <2> QED
    BY <1>5, <1>7, <2>1, <2>2 DEF Sends
<1>8. CASE Submits(j)
  <2>1. executing[j] = <<>> /\ executing'[j] = <<>> /\ Phase[j] = "absent" /\ Phase'[j] = "queued"
    BY <1>0, <1>8, PhaseOf, PhaseNext DEF Submits, Turns, ThreadInv, Lifecycle, Final
  <2>2. Holds' = Holds
    BY <1>4, <2>1 DEF Started
  <2>3. Batch!Submit(j)
    BY <1>1, <2>1, <2>2 DEF Batch!Submit
  <2> QED
    BY <2>3 DEF Batch!BatchNext
<1>9. CASE Condemns(j)
  BY <1>5, <1>9 DEF Condemns, Turns, Final
<1>10. CASE GoesOn(j)
  BY <1>0, <1>5, <1>10 DEF GoesOn, Turns, JobFacts, Ended, ThreadInv, Lifecycle, Final
<1>11. CASE Ends(j)
  <2>1. state[j] \notin Final \cup {"PENDING_SUBMISSION"} /\ state'[j] \in Final
    BY <1>0, <1>11 DEF Ends, Turns, JobFacts, Ended, ThreadInv, Monitored, Lifecycle, Final
  <2>2. Phase[j] \in {"queued", "running"} /\ Phase'[j] = "ended"
    BY <1>0, <2>1, PhaseOf, PhaseNext DEF Started
  <2>3. Holds'[j] = {}
    BY <1>3, <2>1 DEF Started
  <2>4. Batch!End(j)
    BY <1>1, <2>2, <2>3 DEF Batch!End
  <2> QED
    BY <2>4 DEF Batch!BatchNext
<1>12. CASE Allocates(j)
  <2>1. /\ state[j] = "PENDING_ALLOCATION" /\ pc = "forward" /\ executing[j] = <<>> /\ assigned[j] # <<>>
        /\ state'[j] = "RUNNING" /\ executing'[j] = assigned[j]
    BY <1>0, <1>12 DEF Allocates, Enters, ThreadInv, Lifecycle
  <2>2. Phase[j] = "queued" /\ Phase'[j] = "running" /\ Holds'[j] = Assigned(j)
    BY <1>0, <1>3, <2>1, PhaseOf, PhaseNext DEF Started, Final, Assigned
  <2>3. Assigned(j) \in Batch!Sizes(j) /\ Assigned(j) \cap Batch!HeldByOthers(j) = {}
    BY <1>0, <2>1, AssignedSizes, TakesNodesOfNobody
  <2>4. Batch!Start(j, Assigned(j))
    BY <1>1, <2>2, <2>3 DEF Batch!Start
  <2> QED
    BY <2>3, <2>4 DEF Batch!BatchNext
<1>13. CASE Reconfigures(j)
  <2>1. /\ state[j] = "PENDING_RECONFIGURATION" /\ executing[j] # <<>> /\ assigned[j] # <<>>
        /\ state'[j] = "IN_RECONFIGURATION" /\ executing'[j] = assigned[j]
    BY <1>0, <1>13 DEF Reconfigures, Enters, ThreadInv, Lifecycle
  <2>2. Phase[j] = "running" /\ Phase'[j] = "running" /\ Holds'[j] = Assigned(j)
    BY <1>0, <1>3, <2>1, PhaseOf, PhaseNext DEF Started, Final, Assigned
  <2>3. Assigned(j) \in Batch!Sizes(j) /\ Assigned(j) \cap Batch!HeldByOthers(j) = {}
    BY <1>0, <2>1, AssignedSizes, TakesNodesOfNobody
  <2>4. Batch!Resize(j, Assigned(j))
    BY <1>1, <2>2, <2>3 DEF Batch!Resize
  <2> QED
    BY <2>3, <2>4 DEF Batch!BatchNext
<1> QED
  BY <1>0, <1>6, <1>7, <1>8, <1>9, <1>10, <1>11, <1>12, <1>13 DEF JobStep

-----------------------------------------------------------------------------
(* The theorem.                                                            *)

RefinementInv ==
  /\ Facts /\ CarefulInv /\ OccupiedInv
  /\ \A j \in Jobs : Sized(j) /\ Distinct(j)

LEMMA InitRefines == Init => Batch!BatchInit
<1> SUFFICES ASSUME Init
             PROVE  Phase = [j \in Jobs |-> "absent"] /\ Holds = [j \in Jobs |-> {}]
  BY DEF Batch!BatchInit
<1>1. \A j \in Jobs : state[j] = "PENDING_SUBMISSION" /\ \A n \in Nodes : node[n].running = {}
  BY DEF Init, JobInit, NodeInit
<1>2. \A j \in Jobs : Phase[j] = "absent" /\ Holds[j] = {}
  BY <1>1, Mapping DEF Final, Active
<1>3. Phase = [j \in Jobs |-> Phase[j]] /\ Holds = [j \in Jobs |-> Holds[j]]
  BY DEF Phase, Holds
<1> QED
  BY <1>2, <1>3

LEMMA NextRefines ==
  ASSUME Careful, RefinementInv, OccupiedInv', BaseInv', [Next]_vars, Undisturbed'
  PROVE  UNCHANGED <<Phase, Holds>> \/ Batch!BatchNext
<1>0. BaseInv /\ TypeOK /\ TypeOK' /\ Undisturbed
  BY UndisturbedBefore DEF RefinementInv, Facts, BaseInv
<1>1. CASE StepOfNone
  <2>1. node' = node /\ \A i \in Jobs : state'[i] = state[i] /\ executing'[i] = executing[i]
    BY <1>0, <1>1, NodesOfNone, StepOfNoneTouches DEF Untouched, SameJob
  <2>2. \A i \in Jobs : Active(i)' <=> Active(i)
    BY <2>1 DEF Active
  <2> QED
    BY <2>1, <2>2 DEF Phase, Holds
<1>2. ASSUME NEW j \in Jobs, StepOf(j)
      PROVE  UNCHANGED <<Phase, Holds>> \/ Batch!BatchNext
  <2>1. fault = "none"
    BY <1>2 DEF StepOf
  <2>2. Apart /\ \A k \in Jobs : JobFacts(k)
    BY <1>0, <2>1 DEF RefinementInv, Facts, CarefulInv
  <2>3. Sized(j) /\ Distinct(j) /\ ThreadInv(j)' /\ OnNodes(j)'
    BY DEF RefinementInv, BaseInv, ControlInv, OccupiedInv
  <2> QED
    BY <1>0, <1>2, <2>2, <2>3, StepRefines
<1> QED
  BY <1>0, <1>1, <1>2, StepCases

\* The simulated batch system keeps the promises of the abstract one: with a careful algorithm,
\* and until a kill overtakes a message, every step of any actor submits, starts, resizes or ends one job, on nodes that no other job holds and in a number
\* its specification allows, or shows the users nothing.
THEOREM ElastisimImplementsBatch ==
  ASSUME Careful
  PROVE  Spec => ImplementsBatch
<1>1. Spec => []RefinementInv
  <2>1. Facts /\ CarefulInv /\ OccupiedInv /\ (\A j \in Jobs : Sized(j)) /\ (\A j \in Jobs : Distinct(j))
          => RefinementInv
    BY DEF RefinementInv
  <2> QED
    BY <2>1, FactsHold, CarefulIsInvariant, OccupiedIsInvariant, SizedIsInvariant, DistinctIsInvariant, PTL
<1>2. RefinementInv /\ OccupiedInv' /\ BaseInv' /\ [Next]_vars
        => [~Undisturbed' \/ Batch!BatchNext]_(Batch!batchVars)
  BY NextRefines DEF Batch!batchVars
<1> QED
  BY <1>1, <1>2, InitRefines, OccupiedIsInvariant, BaseIsInvariant, PTL DEF Spec, ImplementsBatch
=============================================================================
