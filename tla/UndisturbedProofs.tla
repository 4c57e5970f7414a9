-------------------------- MODULE UndisturbedProofs --------------------------
(***************************************************************************)
(* What holds as long as no kill has overtaken a message of the killed job *)
(* (Undisturbed), whatever the algorithm decides: each active job goes on  *)
(* in exactly one place, a job that has ended stays so, the nodes know the *)
(* jobs they run, and the engine counts every end once.                    *)
(***************************************************************************)
EXTENDS ElastisimProofs, FunctionTheorems

-----------------------------------------------------------------------------
(* The inductive invariant.                                                *)

\* A job that has ended goes on nowhere.
Ended(j) == state[j] \in Final => app[j] = "none" /\ ~Posted(j) /\ ~Asking(j)

\* A job that was started and has not ended goes on somewhere.
Started(j) == executing[j] # <<>> /\ state[j] \notin Final
Goes(j) ==
  fault = "none" /\ Answered(j) /\ Started(j) => app[j] # "none" \/ Posted(j) \/ Asking(j)

\* Only jobs of the evolving types make evolving requests.
WellTyped(j) == Carries(mailbox, {"EVOLVING_REQUEST"}, j) => Type[j] \in {"EVOLVING", "ADAPTIVE"}

\* The part of it that needs no message to be lost.
PlacesInv == Undisturbed => \A j \in Jobs : Ended(j) /\ Goes(j)
TypesInv == \A j \in Jobs : WellTyped(j)

BaseInv == TypeOK /\ ControlInv /\ EndedAreKnown

LEMMA ActiveIff ==
  ASSUME TypeOK, NEW j \in Jobs, ThreadInv(j)
  PROVE  Active(j) <=> Started(j)
BY DEF TypeOK, JobNodeTypeOK, JobStates, ThreadInv, Lifecycle, Active, Started, Final

\* Once a kill has overtaken a message, that is never forgotten.
LEMMA UndisturbedBefore ==
  ASSUME TypeOK, [Next]_vars, Undisturbed'
  PROVE  Undisturbed
<1>1. overtaken \subseteq overtaken'
  <2>1. CASE StepOfNone
    BY <2>1 DEF StepOfNone, vars, HandleInvoke, HandleFinalize, Invoke, EndResponse, EndSchedule,
       InvokePeriodically, IntervalElapses, EngineStep, schedulerOnly
  <2>2. ASSUME NEW j \in Jobs, StepOf(j)
        PROVE  overtaken \subseteq overtaken'
    <3>1. ASSUME NEW i, NEW x, NEW mb, ForwardJobKill(i, x, mb)
          PROVE  overtaken \subseteq overtaken'
      BY <3>1 DEF ForwardJobKill
    <3> QED
      BY <2>2, <3>1 DEF StepOf, SchedulerStepOf, HandleJobSubmit, HandleSchedulingPoint, HandleEvolvingRequest,
         HandleWalltimeExceeded, HandleProcessedWorkload, DecideKill, DecideNodes, Answer, Forward,
         Application, WalltimeExceeded, ReceiveJobStep, schedulerOnly
  <2> QED
    BY <2>1, <2>2, StepCases
<1> QED
  BY <1>1 DEF Undisturbed

LEMMA FaultBefore ==
  ASSUME TypeOK, [Next]_vars, fault' = "none"
  PROVE  fault = "none"
BY StepCases DEF StepOfNone, StepOf, vars

LEMMA UntouchedPlaces ==
  ASSUME TypeOK, [Next]_vars, NEW i \in Jobs, Untouched(i), Ended(i), Goes(i)
  PROVE  Ended(i)' /\ Goes(i)'
<1>1. /\ Posted(i)' <=> Posted(i)
      /\ SameJob(i) /\ (Asking(i)' <=> Asking(i))
  BY DEF Untouched, SameMail, Fewer, Posted
<1> QED
  BY <1>1, FaultBefore DEF SameJob, Ended, Goes, Started, Answered

LEMMA KillPlaces ==
  ASSUME TypeOK, fault = "none", NEW j \in Jobs, NEW x, NEW mb, ForwardJobKill(j, x, mb),
         Undisturbed', mb \in Seq(SchedMsg), ~Asking(j)', state[j] \in Final => Ended(j) /\ Fewer(mailbox, mb, j)
  PROVE  Ended(j)' /\ Goes(j)'
<1>1. Fewer(mb, mailbox', j)
  <2>1. mailbox' = mb \/ mailbox' = Cancelled(mb, Message("WALLTIME_EXCEEDED", j))
    BY DEF ForwardJobKill
  <2> QED
    BY <2>1, MonitorCancelled DEF Fewer
<1>2. CASE fault' = "null"
  <2>1. UNCHANGED <<state, app>> /\ mailbox' = mb
    BY <1>2 DEF ForwardJobKill, jobVars, actorVars
  <2> QED
    BY <1>2, <2>1 DEF Ended, Goes, Posted, Fewer
<1>3. CASE fault' # "null"
  <2>1. /\ state'[j] = "KILLED" /\ app'[j] = "none"
        /\ (\E i \in DOMAIN mb : FromApp(mb[i], j)) => j \in overtaken'
    BY <1>3 DEF ForwardJobKill, SetState, TypeOK, JobNodeTypeOK, SchedulerTypeOK, ActorTypeOK
  <2>2. ~Carries(mb, AppTypes, j)
    BY <2>1 DEF Undisturbed, Carries, At, FromApp, AppTypes
  <2>3. ~Posted(j)'
    BY <1>1, <2>2 DEF Posted, Fewer
  <2> QED
    BY <2>1, <2>3 DEF Ended, Goes, Started, Final
<1> QED
  BY <1>2, <1>3

LEMMA HandlerPlaces ==
  ASSUME BaseInv, fault = "none", NEW j \in Jobs, Ended(j), Goes(j), WellTyped(j), Undisturbed',
         \/ HandleJobSubmit(j) \/ HandleSchedulingPoint(j) \/ HandleEvolvingRequest(j)
         \/ HandleWalltimeExceeded(j) \/ HandleProcessedWorkload(j)
  PROVE  Ended(j)' /\ Goes(j)'
<1>0. TypeOK /\ ThreadInv(j) /\ Submission(j) /\ JobNodeTypeOK /\ ActorTypeOK
  BY DEF BaseInv, ControlInv, TypeOK, SchedulerTypeOK
<1>1. CASE HandleJobSubmit(j)
  <2>1. state'[j] = "PENDING"
    BY <1>0, <1>1, SetStateMoves DEF HandleJobSubmit
  <2>2. executing'[j] = <<>>
    <3>1. Carries(mailbox, {"JOB_SUBMIT"}, j)
      BY <1>0, <1>1, ReceivedCarries DEF HandleJobSubmit
    <3>2. executing[j] = <<>>
      BY <1>0, <3>1 DEF Submission, ThreadInv, Lifecycle
    <3> QED
      BY <1>1, <3>2 DEF HandleJobSubmit, SetState, TakesOver
  <2> QED
    BY <2>1, <2>2 DEF Ended, Goes, Started, Final
<1>2. CASE HandleSchedulingPoint(j)
  <2>1. Posted(j) /\ pc = "idle"
    BY <1>0, <1>2, ReceivedCarries DEF HandleSchedulingPoint, Posted, AppTypes
  <2>2. app[j] = "none" /\ executing[j] # <<>> /\ state[j] \notin Final
    BY <1>0, <2>1 DEF ThreadInv, Alone, Lifecycle, Ended
  <2>3. CASE ScheduleOnSchedulingPoint
    <3>1. /\ Schedule(TRUE, "INVOKE_SCHEDULING_POINT", j)
          /\ UNCHANGED state
      BY <1>2, <2>3 DEF HandleSchedulingPoint, jobVars
    <3>2. Answered(j) => Asking(j)'
      BY <2>3, <3>1 DEF Answered, Schedule, Throttled, Asking, Waiting
    <3> QED
      BY <2>2, <3>1, <3>2 DEF Ended, Goes, Answered
  <2>4. CASE ~ScheduleOnSchedulingPoint
    <3>1. Continue(j) \/ HandleReconfiguration(j)
      BY <1>2, <2>4 DEF HandleSchedulingPoint
    <3>2. app'[j] = "starting"
      BY <1>0, <2>2, <3>1 DEF Continue, HandleReconfiguration, ActorTypeOK
    <3>3. state'[j] \notin Final
      BY <1>0, <2>2, <3>1, SetStateMoves DEF Continue, HandleReconfiguration, jobVars, Final
    <3> QED
      BY <3>2, <3>3 DEF Ended, Goes
  <2> QED
    BY <2>3, <2>4
<1>3. CASE HandleEvolvingRequest(j)
  <2>1. Posted(j) /\ Carries(mailbox, {"EVOLVING_REQUEST"}, j)
    BY <1>0, <1>3, ReceivedCarries DEF HandleEvolvingRequest, Posted, AppTypes
  <2>2. state'[j] \notin Final
    BY <1>3, <2>1 DEF HandleEvolvingRequest, jobVars, Ended
  <2>3. Answered(j) => Asking(j)'
    <3>1. Answered(j) => ~MinInterval
      BY <2>1 DEF Answered, WellTyped
    <3> QED
      BY <1>3, <3>1 DEF HandleEvolvingRequest, Schedule, Throttled, Asking, Waiting
  <2> QED
    BY <2>2, <2>3 DEF Ended, Goes, Answered
<1>4. CASE HandleWalltimeExceeded(j)
  <2>1. /\ ForwardJobKill(j, TRUE, Tail(mailbox)) /\ ~Asking(j)'
        /\ Received("WALLTIME_EXCEEDED", j)
    BY <1>4 DEF HandleWalltimeExceeded, Schedule, Return, Asking, Waiting
  <2>2. Tail(mailbox) \in Seq(SchedMsg) /\ Fewer(mailbox, Tail(mailbox), j)
    BY <1>0, <2>1, ReceivedCarries
  <2> QED
    BY <1>0, <2>1, <2>2, KillPlaces
<1>5. CASE HandleProcessedWorkload(j)
  <2>1. state'[j] = "COMPLETED" /\ app' = app /\ ~Asking(j)'
    BY <1>0, <1>5, SetStateMoves DEF HandleProcessedWorkload, Schedule, Return, Asking, Waiting
  <2>2. /\ Posted(j) /\ ~Carries(Tail(mailbox), AppTypes, j) /\ Tail(mailbox) \in Seq(SchedMsg)
    BY <1>0, <1>5, ReceivedCarries DEF HandleProcessedWorkload, Posted, AppTypes, ThreadInv, Alone
  <2>3. app[j] = "none"
    BY <1>0, <2>2 DEF ThreadInv, Alone
  <2>4. ~Posted(j)'
    BY <1>5, <2>2, MonitorCancelled DEF HandleProcessedWorkload, Fewer, Posted
  <2> QED
    BY <2>1, <2>3, <2>4 DEF Ended, Goes, Started, Final
<1> QED
  BY <1>1, <1>2, <1>3, <1>4, <1>5

LEMMA KnownEnds ==
  ASSUME BaseInv, NEW j \in Jobs, DecideKill(j)
  PROVE  state[j] \notin Final
BY DEF BaseInv, DecideKill, EndedAreKnown, Live

\* A decision on the nodes of a job, or a fault instead of it, ends and starts no job.
LEMMA DecideNodesKeeps ==
  ASSUME TypeOK, NEW j \in Jobs, NEW q \in Allocations, DecideNodes(j, q)
  PROVE  /\ UNCHANGED <<executing, app, monitor, mailbox, simMailbox, pc, inv, req>>
         /\ (state'[j] \in Final) <=> (state[j] \in Final)
         /\ state[j] \in Final => state'[j] = state[j]
<1>1. \/ state'[j] = state[j]
      \/ state'[j] = UpdatedState(state[j], q, executing[j])
  BY DEF DecideNodes, Assign, TypeOK, JobNodeTypeOK, jobVars
<1>2. UNCHANGED <<executing, app, monitor, mailbox, simMailbox, pc, inv, req>>
  BY DEF DecideNodes, Assign, actorVars, jobVars
<1> QED
  BY <1>1, <1>2 DEF UpdatedState, Final

LEMMA ResponsePlaces ==
  ASSUME BaseInv, fault = "none", NEW j \in Jobs, Ended(j), Goes(j), Undisturbed',
         \/ DecideKill(j) \/ \E q \in Allocations : DecideNodes(j, q)
         \/ Answer /\ req = j
         \/ Forward /\ Head(scheduled) = j
  PROVE  Ended(j)' /\ Goes(j)'
<1>0. /\ TypeOK /\ ThreadInv(j) /\ JobNodeTypeOK /\ ActorTypeOK /\ mailbox \in Seq(SchedMsg)
      /\ Fewer(mailbox, mailbox, j)
  BY DEF BaseInv, ControlInv, TypeOK, SchedulerTypeOK, Fewer
<1>1. CASE DecideKill(j)
  <2>1. state'[j] = "PENDING_KILL" /\ executing' = executing /\ state[j] \notin Final
    BY <1>0, <1>1, KnownEnds DEF DecideKill, SetState, TakesOver, JobNodeTypeOK
  <2>2. UNCHANGED <<app, mailbox, pc, inv, req, fault>>
    BY <1>1 DEF DecideKill, actorVars
  <2> QED
    BY <2>1, <2>2 DEF Ended, Goes, Started, Answered, Posted, Asking, Final
<1>2. ASSUME NEW q \in Allocations, DecideNodes(j, q)
      PROVE  Ended(j)' /\ Goes(j)'
  BY <1>0, <1>2, DecideNodesKeeps DEF Ended, Goes, Started, Answered, Posted, Asking
<1>3. CASE Answer /\ req = j
  <2>1. Asking(j) /\ ~Asking(j)'
    BY <1>0, <1>3 DEF Answer, Asking, TypeOK, SchedulerTypeOK, ControlTypeOK
  <2>2. state[j] \notin Final /\ executing[j] # <<>>
    BY <1>0, <2>1 DEF Ended, ThreadInv, Lifecycle
  <2>3. CASE ForwardJobKill(j, FALSE, mailbox)
    BY <1>0, <2>1, <2>2, <2>3, KillPlaces
  <2>4. CASE Continue(j) \/ HandleReconfiguration(j)
    <3>1. app'[j] = "starting"
      BY <1>0, <2>2, <2>4 DEF Continue, HandleReconfiguration, ActorTypeOK
    <3>2. state'[j] \notin Final
      BY <1>0, <2>2, <2>4, SetStateMoves DEF Continue, HandleReconfiguration, jobVars, Final
    <3> QED
      BY <3>1, <3>2 DEF Ended, Goes
  <2> QED
    BY <1>3, <2>3, <2>4 DEF Answer
<1>4. CASE Forward /\ Head(scheduled) = j
  <2>1. ~Asking(j) /\ ~Asking(j)'
    BY <1>4 DEF Forward, Asking
  <2>2. CASE state[j] = "PENDING_ALLOCATION"
    <3>1. ForwardJobAllocation(j)
      BY <1>4, <2>2 DEF Forward
    <3>2. CASE fault' = "allocation" /\ UNCHANGED state
      BY <2>2, <3>2 DEF Ended, Goes, Final
    <3>3. CASE ~(fault' = "allocation" /\ UNCHANGED state)
      <4>1. state'[j] = "RUNNING" /\ app'[j] = "starting"
        BY <1>0, <3>1, <3>3 DEF ForwardJobAllocation, SetState, JobNodeTypeOK, ActorTypeOK, jobVars
      <4> QED
        BY <4>1 DEF Ended, Goes, Final
    <3> QED
      BY <3>2, <3>3
  <2>3. CASE state[j] = "PENDING_KILL"
    <3>1. ForwardJobKill(j, FALSE, mailbox)
      BY <1>4, <2>3 DEF Forward
    <3> QED
      BY <1>0, <2>1, <2>3, <3>1, KillPlaces DEF Final
  <2>4. CASE state[j] \notin {"PENDING_ALLOCATION", "PENDING_KILL"}
    <3>1. UNCHANGED <<jobVars, actorVars, mailbox, fault>>
      BY <1>4, <2>4 DEF Forward
    <3> QED
      BY <2>1, <3>1 DEF Ended, Goes, Started, Answered, Posted, jobVars, actorVars
  <2> QED
    BY <2>2, <2>3, <2>4
<1> QED
  BY <1>1, <1>2, <1>3, <1>4

LEMMA ActorPlaces ==
  ASSUME BaseInv, NEW j \in Jobs, Ended(j), Goes(j),
         Application(j) \/ WalltimeExceeded(j) \/ ReceiveJobStep(j)
  PROVE  Ended(j)' /\ Goes(j)'
<1>0. /\ TypeOK /\ ThreadInv(j) /\ JobNodeTypeOK /\ ActorTypeOK /\ mailbox \in Seq(SchedMsg)
  BY DEF BaseInv, ControlInv, TypeOK, SchedulerTypeOK
<1>1. (Asking(j)' <=> Asking(j)) /\ fault' = fault
  BY DEF Application, WalltimeExceeded, ReceiveJobStep, schedulerOnly, scheduleVars, Asking
<1>2. CASE AppStarts(j)
  <2>1. app'[j] = "first" /\ state'[j] = "RUNNING"
    BY <1>0, <1>2, SetStateMoves DEF AppStarts, ActorTypeOK
  <2> QED
    BY <2>1 DEF Ended, Goes, Final
<1>3. CASE AppIterates(j)
  <2>1. app[j] # "none" /\ app'[j] = "later" /\ UNCHANGED state
    BY <1>0, <1>3 DEF AppIterates, passive, jobVars, ActorTypeOK
  <2> QED
    BY <2>1 DEF Ended, Goes
<1>4. CASE AppCompletes(j) \/ \E type \in {"SCHEDULING_POINT", "EVOLVING_REQUEST"} : AppRequests(j, type)
  <2>1. PICK type \in AppTypes : mailbox' = Append(mailbox, Message(type, j))
    BY <1>4 DEF AppCompletes, AppRequests, AppTypes
  <2>2. app[j] # "none" /\ UNCHANGED state
    BY <1>4 DEF AppCompletes, AppRequests, passive, jobVars
  <2>3. Message(type, j) \in SchedMsg /\ Message(type, j).type \in AppTypes /\ Message(type, j).job = j
    BY MessageTypes DEF Message, AppTypes
  <2>4. Posted(j)'
    BY <1>0, <2>1, <2>3, AppendCarries DEF Posted
  <2> QED
    BY <2>2, <2>4 DEF Ended, Goes
<1>5. CASE WalltimeExceeded(j) \/ ReceiveJobStep(j)
  <2>1. PICK type \in {"WALLTIME_EXCEEDED", "JOB_SUBMIT"} : mailbox' = Append(mailbox, Message(type, j))
    BY <1>5 DEF WalltimeExceeded, ReceiveJobStep, ReceiveJob
  <2>2. UNCHANGED <<state, executing, app>>
    BY <1>5 DEF WalltimeExceeded, ReceiveJobStep, passive, jobVars, actorVars
  <2>3. Message(type, j) \in SchedMsg /\ Message(type, j).type \notin AppTypes
    BY MessageTypes DEF Message, AppTypes
  <2>4. Posted(j)' <=> Posted(j)
    BY <1>0, <2>1, <2>3, AppendCarries DEF Posted
  <2> QED
    BY <1>1, <2>2, <2>4 DEF Ended, Goes, Started, Answered
<1> QED
  BY <1>2, <1>3, <1>4, <1>5 DEF Application

LEMMA NextPlaces == BaseInv /\ TypesInv /\ PlacesInv /\ [Next]_vars => PlacesInv'
<1> SUFFICES ASSUME BaseInv, TypesInv, PlacesInv, [Next]_vars, Undisturbed', NEW i \in Jobs
             PROVE  Ended(i)' /\ Goes(i)'
  BY DEF PlacesInv
<1>1. TypeOK /\ Ended(i) /\ Goes(i) /\ WellTyped(i)
  BY UndisturbedBefore DEF BaseInv, PlacesInv, TypesInv
<1>2. CASE StepOfNone
  BY <1>1, <1>2, StepOfNoneTouches, UntouchedPlaces
<1>3. ASSUME NEW j \in Jobs, StepOf(j)
      PROVE  Ended(i)' /\ Goes(i)'
  <2>1. CASE i # j
    BY <1>1, <1>3, <2>1, StepTouchesOne, UntouchedPlaces
  <2>2. CASE i = j
    BY <1>1, <1>3, <2>2, HandlerPlaces, ResponsePlaces, ActorPlaces DEF StepOf, SchedulerStepOf
  <2> QED
    BY <2>1, <2>2
<1> QED
  BY <1>1, <1>2, <1>3, StepCases DEF BaseInv

LEMMA NextTypes == TypeOK /\ TypesInv /\ [Next]_vars => TypesInv'
<1> SUFFICES ASSUME TypeOK, TypesInv, [Next]_vars, NEW i \in Jobs PROVE WellTyped(i)'
  BY DEF TypesInv
<1> DEFINE E == {"EVOLVING_REQUEST"}
<1>0. WellTyped(i) /\ mailbox \in Seq(SchedMsg)
  BY DEF TypesInv, TypeOK, SchedulerTypeOK
<1>1. CASE Fewer(mailbox, mailbox', i)
  BY <1>0, <1>1 DEF WellTyped, Fewer
<1>2. ASSUME NEW type \in AppTypes \cup {"WALLTIME_EXCEEDED", "JOB_SUBMIT"},
             mailbox' = Append(mailbox, Message(type, i)),
             type = "EVOLVING_REQUEST" => Type[i] \in {"EVOLVING", "ADAPTIVE"}
      PROVE  WellTyped(i)'
  <2>1. /\ Message(type, i) \in SchedMsg
        /\ Message(type, i).type \in E => type = "EVOLVING_REQUEST"
    BY MessageTypes DEF Message, AppTypes
  <2> HIDE DEF E
  <2>2. Carries(mailbox', E, i) => Carries(mailbox, E, i) \/ type = "EVOLVING_REQUEST"
    BY <1>0, <1>2, <2>1, AppendCarries
  <2> QED
    BY <1>0, <1>2, <2>2 DEF WellTyped, E
<1>3. CASE StepOfNone
  BY <1>1, <1>3, StepOfNoneTouches DEF Untouched, SameMail
<1>4. ASSUME NEW j \in Jobs, StepOf(j)
      PROVE  WellTyped(i)'
  <2>1. CASE i # j
    BY <1>1, <1>4, <2>1, StepTouchesOne DEF Untouched, SameMail
  <2>2. CASE SchedulerStepOf(i) /\ i = j
    BY <1>1, <2>2, SchedulerStepTakes
  <2>3. CASE mailbox' = mailbox
    BY <1>0, <2>3 DEF WellTyped
  <2>4. ASSUME i = j, ~SchedulerStepOf(j), mailbox' # mailbox
        PROVE  \E type \in AppTypes \cup {"WALLTIME_EXCEEDED", "JOB_SUBMIT"} :
                 /\ mailbox' = Append(mailbox, Message(type, i))
                 /\ type = "EVOLVING_REQUEST" => Type[i] \in {"EVOLVING", "ADAPTIVE"}
    <3>1. ASSUME NEW type \in {"SCHEDULING_POINT", "EVOLVING_REQUEST"}, AppRequests(j, type)
          PROVE  /\ mailbox' = Append(mailbox, Message(type, j))
                 /\ type = "EVOLVING_REQUEST" => Type[i] \in {"EVOLVING", "ADAPTIVE"}
      BY <2>4, <3>1 DEF AppRequests, Requests
    <3>2. CASE \E type \in {"SCHEDULING_POINT", "EVOLVING_REQUEST"} : AppRequests(j, type)
      BY <2>4, <3>1, <3>2 DEF AppTypes
    <3>3. CASE AppCompletes(j)
      BY <2>4, <3>3 DEF AppCompletes, AppTypes
    <3>4. CASE WalltimeExceeded(j) \/ ReceiveJobStep(j)
      BY <2>4, <3>4 DEF WalltimeExceeded, ReceiveJobStep, ReceiveJob
    <3> QED
      BY <1>4, <2>4, <3>2, <3>3, <3>4 DEF StepOf, Application, AppStarts, AppIterates
  <2> QED
    BY <1>2, <2>1, <2>2, <2>3, <2>4
<1> QED
  BY <1>3, <1>4, StepCases

-----------------------------------------------------------------------------
(* OneContinuation and FinalIsFinal.                                       *)

LEMMA InitPlaces == Init => TypesInv /\ PlacesInv
<1> SUFFICES ASSUME Init, NEW j \in Jobs PROVE WellTyped(j) /\ Ended(j) /\ Goes(j)
  BY DEF TypesInv, PlacesInv
<1>1. \A T : ~Carries(mailbox, T, j)
  <2>1. mailbox = <<>> /\ DOMAIN <<>> = {}
    BY DEF Init, SchedulerInit
  <2> QED
    BY <2>1 DEF Carries
<1>2. state[j] = "PENDING_SUBMISSION" /\ executing[j] = <<>>
  BY DEF Init, JobInit, NodeInit
<1> QED
  BY <1>1, <1>2 DEF WellTyped, Ended, Goes, Started, Final

LEMMA BaseIsInvariant == Spec => []BaseInv
<1>1. ReservationInv /\ [Next]_vars /\ TypeOK' /\ StatesCurrent' => ReservationInv'
  BY NextReservations DEF ReservationInv
<1>2. Init /\ TypeOK /\ StatesCurrent => ReservationInv
  BY InitReservations DEF ReservationInv
<1>3. ReservationInv /\ ControlInv => BaseInv
  BY DEF ReservationInv, BaseInv
<1> QED
  BY <1>1, <1>2, <1>3, TypeCorrect, StatesAreCurrent, ControlIsInvariant, PTL DEF Spec

\* As long as no kill has overtaken a message of the killed job, a job that has ended goes on
\* nowhere and one that was started and has not ended goes on somewhere; and evolving requests
\* come from evolving jobs only.
THEOREM PlacesAreInvariant == Spec => [](TypesInv /\ PlacesInv)
<1>1. BaseInv /\ TypesInv /\ PlacesInv /\ [Next]_vars => TypesInv' /\ PlacesInv'
  BY NextPlaces, NextTypes DEF BaseInv
<1> QED
  BY <1>1, InitPlaces, BaseIsInvariant, PTL DEF Spec

\* A set of messages counted: there is at most one.
LEMMA OnceCounted ==
  ASSUME TypeOK, NEW j \in Jobs, Once(mailbox, AppTypes, j)
  PROVE  Cardinality(AppMessages(j)) = IF Posted(j) THEN 1 ELSE 0
<1>1. AppMessages(j) = {i \in DOMAIN mailbox : At(mailbox, i, AppTypes, j)}
  BY DEF AppMessages, FromApp, At, AppTypes
<1>2. CASE ~Posted(j)
  <2>1. AppMessages(j) = {}
    BY <1>1, <1>2 DEF Posted, Carries
  <2> QED
    BY <1>2, <2>1, FS_EmptySet
<1>3. CASE Posted(j)
  <2>1. PICK i \in DOMAIN mailbox : At(mailbox, i, AppTypes, j)
    BY <1>3 DEF Posted, Carries
  <2>2. AppMessages(j) = {i}
    BY <1>1, <2>1 DEF Once
  <2> QED
    BY <1>3, <2>2, FS_Singleton
<1> QED
  BY <1>2, <1>3

\* As long as no kill overtakes a message, every active job goes on in exactly one place, and
\* the others nowhere: its application runs, or one message of it is queued, or the scheduler
\* is about to answer it.
THEOREM OnePlace == Spec => []OneContinuation
<1>1. BaseInv /\ PlacesInv => OneContinuation
  <2> SUFFICES ASSUME BaseInv, PlacesInv, Undisturbed, fault = "none", NEW j \in Jobs, Answered(j)
               PROVE  Continuations(j) = IF Active(j) THEN 1 ELSE 0
    BY DEF OneContinuation
  <2>1. TypeOK /\ ThreadInv(j) /\ Ended(j) /\ Goes(j)
    BY DEF BaseInv, ControlInv, PlacesInv
  <2>2. Cardinality(AppMessages(j)) = IF Posted(j) THEN 1 ELSE 0
    BY <2>1, OnceCounted DEF ThreadInv, Alone
  <2>3. Active(j) <=> Started(j)
    BY <2>1, ActiveIff
  <2>4. CASE Started(j)
    <3>1. app[j] # "none" \/ Posted(j) \/ Asking(j)
      BY <2>1, <2>4 DEF Goes
    <3> QED
      BY <2>1, <2>2, <2>3, <2>4, <3>1 DEF ThreadInv, Alone, Continuations
  <2>5. CASE ~Started(j)
    <3>1. app[j] = "none" /\ ~Posted(j) /\ ~Asking(j)
      BY <2>1, <2>5 DEF ThreadInv, Lifecycle, Ended, Started
    <3> QED
      BY <2>2, <2>3, <2>5, <3>1 DEF Continuations
  <2> QED
    BY <2>4, <2>5
<1> QED
  BY <1>1, BaseIsInvariant, PlacesAreInvariant, PTL

\* How a job may come to its end: the engine is sent one message of it then, and never else.
EndMessages == {"JOB_COMPLETED", "JOB_KILLED"}
EndReported(j) == \E type \in EndMessages : simMailbox' = Append(simMailbox, Message(type, j))

LEMMA EndsOnce ==
  ASSUME BaseInv, NEW j \in Jobs, Ended(j), fault = "none", SchedulerStepOf(j)
  PROVE  \/ /\ simMailbox' = simMailbox
            /\ (state'[j] \in Final) <=> (state[j] \in Final)
            /\ state[j] \in Final => state'[j] = state[j]
         \/ EndReported(j) /\ state[j] \notin Final /\ state'[j] \in Final
<1> DEFINE Quiet == /\ simMailbox' = simMailbox
                    /\ (state'[j] \in Final) <=> (state[j] \in Final)
                    /\ state[j] \in Final => state'[j] = state[j]
           Reported == EndReported(j) /\ state[j] \notin Final /\ state'[j] \in Final
<1>0. /\ TypeOK /\ ThreadInv(j) /\ Submission(j) /\ JobNodeTypeOK
  BY DEF BaseInv, ControlInv, TypeOK
<1>1. ASSUME NEW new \in JobStates \ Final, SetState(j, new), state[j] \notin Final, simMailbox' = simMailbox
      PROVE  Quiet
  BY <1>0, <1>1, SetStateMoves
<1>2. ASSUME UNCHANGED <<state, simMailbox>>
      PROVE  Quiet
  BY <1>2
<1>3. ASSUME NEW x, NEW mb, ForwardJobKill(j, x, mb), state[j] \notin Final
      PROVE  Quiet \/ Reported
  <2>1. \/ UNCHANGED <<state, simMailbox>>
        \/ SetState(j, "KILLED") /\ simMailbox' = Append(simMailbox, Message("JOB_KILLED", j))
    BY <1>3 DEF ForwardJobKill, jobVars
  <2>2. SetState(j, "KILLED") => state'[j] \in Final
    BY <1>0, SetStateMoves DEF Final
  <2> QED
    BY <1>2, <1>3, <2>1, <2>2 DEF EndReported, EndMessages
<1>4. CASE HandleJobSubmit(j)
  <2>1. state[j] \notin Final
    BY <1>0, <1>4, ReceivedCarries DEF HandleJobSubmit, Submission, Final
  <2> QED
    BY <1>1, <1>4, <2>1 DEF HandleJobSubmit, JobStates, Final
<1>5. CASE HandleSchedulingPoint(j) \/ HandleEvolvingRequest(j)
  <2>1. Posted(j)
    BY <1>0, <1>5, ReceivedCarries DEF HandleSchedulingPoint, HandleEvolvingRequest, Posted, AppTypes
  <2>2. state[j] \notin Final /\ simMailbox' = simMailbox
    BY <1>5, <2>1 DEF Ended, HandleSchedulingPoint, HandleEvolvingRequest
  <2>3. UNCHANGED state \/ SetState(j, "IN_RECONFIGURATION")
    BY <1>5 DEF HandleSchedulingPoint, HandleEvolvingRequest, HandleReconfiguration, Continue, jobVars
  <2> QED
    BY <1>1, <1>2, <2>2, <2>3 DEF JobStates, Final
<1>6. CASE HandleWalltimeExceeded(j)
  <2>1. state[j] \notin Final
    BY <1>0, <1>6, ReceivedCarries DEF HandleWalltimeExceeded, ThreadInv, Monitored, Exceeded
  <2> QED
    BY <1>3, <1>6, <2>1 DEF HandleWalltimeExceeded
<1>7. CASE HandleProcessedWorkload(j)
  <2>1. Posted(j)
    BY <1>0, <1>7, ReceivedCarries DEF HandleProcessedWorkload, Posted, AppTypes
  <2>2. state'[j] \in Final /\ simMailbox' = Append(simMailbox, Message("JOB_COMPLETED", j))
    BY <1>0, <1>7, SetStateMoves DEF HandleProcessedWorkload, Final
  <2> QED
    BY <2>1, <2>2 DEF Ended, EndReported, EndMessages
<1>8. CASE DecideKill(j)
  <2>1. state[j] \notin Final
    BY <1>8, KnownEnds
  <2> QED
    BY <1>1, <1>8, <2>1 DEF DecideKill, JobStates, Final
<1>9. ASSUME NEW q \in Allocations, DecideNodes(j, q)
      PROVE  Quiet
  BY <1>0, <1>9, DecideNodesKeeps
<1>10. CASE Answer /\ req = j
  <2>1. Asking(j)
    BY <1>0, <1>10 DEF Answer, Asking, TypeOK, SchedulerTypeOK, ControlTypeOK
  <2>2. state[j] \notin Final
    BY <2>1 DEF Ended
  <2>3. \/ ForwardJobKill(j, FALSE, mailbox)
        \/ simMailbox' = simMailbox /\ (UNCHANGED state \/ SetState(j, "IN_RECONFIGURATION"))
    BY <1>10 DEF Answer, HandleReconfiguration, Continue, jobVars
  <2> QED
    BY <1>1, <1>2, <1>3, <2>2, <2>3 DEF JobStates, Final
<1>11. CASE Forward /\ Head(scheduled) = j
  <2>1. CASE state[j] = "PENDING_KILL"
    <3>1. ForwardJobKill(j, FALSE, mailbox)
      BY <1>11, <2>1 DEF Forward
    <3> QED
      BY <1>3, <2>1, <3>1 DEF Final
  <2>2. CASE state[j] # "PENDING_KILL"
    <3>1. /\ simMailbox' = simMailbox
          /\ UNCHANGED state \/ (SetState(j, "RUNNING") /\ state[j] = "PENDING_ALLOCATION")
      BY <1>11, <2>2 DEF Forward, ForwardJobAllocation, jobVars
    <3> QED
      BY <1>1, <1>2, <3>1 DEF JobStates, Final
  <2> QED
    BY <2>1, <2>2
<1> QED
  BY <1>4, <1>5, <1>6, <1>7, <1>8, <1>9, <1>10, <1>11 DEF SchedulerStepOf

\* No step of an application ends its job or revives it.
LEMMA ApplicationEndsNothing ==
  ASSUME BaseInv, NEW j \in Jobs, Ended(j), Application(j) \/ WalltimeExceeded(j) \/ ReceiveJobStep(j)
  PROVE  /\ (state'[j] \in Final) <=> (state[j] \in Final)
         /\ state[j] \in Final => state'[j] = state[j]
<1>1. CASE AppStarts(j)
  <2>1. state[j] \notin Final /\ state'[j] = "RUNNING"
    BY <1>1, SetStateMoves DEF AppStarts, Ended, BaseInv, TypeOK
  <2> QED
    BY <2>1 DEF Final
<1>2. CASE UNCHANGED state
  BY <1>2
<1> QED
  BY <1>1, <1>2 DEF Application, AppIterates, AppCompletes, AppRequests, WalltimeExceeded, ReceiveJobStep,
                    passive, jobVars

\* A job that has completed or was killed stays so.
THEOREM EndsAreFinal == Spec => FinalIsFinal
<1>1. BaseInv /\ PlacesInv /\ [Next]_vars =>
        [\A j \in Jobs : state[j] \in Final /\ Undisturbed => state'[j] = state[j]]_vars
  <2> SUFFICES ASSUME BaseInv, PlacesInv, [Next]_vars, NEW i \in Jobs, state[i] \in Final, Undisturbed
               PROVE  state'[i] = state[i]
    OBVIOUS
  <2>1. TypeOK /\ Ended(i)
    BY DEF BaseInv, PlacesInv
  <2>2. CASE StepOfNone
    BY <2>1, <2>2, StepOfNoneTouches DEF Untouched, SameJob
  <2>3. ASSUME NEW j \in Jobs, StepOf(j)
        PROVE  state'[i] = state[i]
    <3>1. CASE i # j
      BY <2>1, <2>3, <3>1, StepTouchesOne DEF Untouched, SameJob
    <3>2. CASE i = j
      BY <2>1, <2>3, <3>2, EndsOnce, ApplicationEndsNothing DEF StepOf
    <3> QED
      BY <3>1, <3>2
  <2> QED
    BY <2>1, <2>2, <2>3, StepCases
<1> QED
  BY <1>1, BaseIsInvariant, PlacesAreInvariant, PTL DEF Spec, FinalIsFinal

-----------------------------------------------------------------------------
(* Accounting.                                                             *)

\* The places of a mailbox that hold the end of a job, and the jobs that have not ended.
EndPlaces(mb) == {i \in DOMAIN mb : mb[i].type \in EndMessages}
Unfinished == {j \in Jobs : state[j] \notin Final}

LEMMA EndPlacesFinite ==
  ASSUME NEW M, NEW mb \in Seq(M)
  PROVE  IsFiniteSet(EndPlaces(mb)) /\ Cardinality(EndPlaces(mb)) \in Nat
<1>1. Len(mb) \in Nat /\ DOMAIN mb = 1 .. Len(mb)
  BY LenProperties
<1>2. IsFiniteSet(1 .. Len(mb))
  BY <1>1, FS_Interval
<1>3. EndPlaces(mb) \in SUBSET (1 .. Len(mb))
  BY <1>1 DEF EndPlaces
<1>4. IsFiniteSet(EndPlaces(mb))
  BY <1>2, <1>3, FS_Subset
<1> QED
  BY <1>4, FS_CardinalityType

LEMMA AppendedEnds ==
  ASSUME NEW M, NEW mb \in Seq(M), NEW m \in M
  PROVE  Cardinality(EndPlaces(Append(mb, m)))
           = Cardinality(EndPlaces(mb)) + (IF m.type \in EndMessages THEN 1 ELSE 0)
<1> DEFINE l == Len(mb) + 1
<1>1. /\ Len(mb) \in Nat /\ DOMAIN mb = 1 .. Len(mb) /\ DOMAIN Append(mb, m) = 1 .. l
      /\ \A i \in 1 .. Len(mb) : Append(mb, m)[i] = mb[i]
      /\ Append(mb, m)[l] = m
  BY AppendProperties, LenProperties
<1>2. IsFiniteSet(EndPlaces(mb)) /\ Cardinality(EndPlaces(mb)) \in Nat
  BY EndPlacesFinite
<1>3. l \notin EndPlaces(mb) /\ l \in Nat /\ 1 .. l = (1 .. Len(mb)) \cup {l}
  BY <1>1 DEF EndPlaces
<1> HIDE DEF l
<1>4. CASE m.type \in EndMessages
  <2>1. EndPlaces(Append(mb, m)) = EndPlaces(mb) \cup {l}
    BY <1>1, <1>3, <1>4 DEF EndPlaces
  <2> QED
    BY <1>2, <1>3, <1>4, <2>1, FS_AddElement
<1>5. CASE m.type \notin EndMessages
  <2>1. EndPlaces(Append(mb, m)) = EndPlaces(mb)
    BY <1>1, <1>3, <1>5 DEF EndPlaces
  <2> QED
    BY <1>2, <1>5, <2>1
<1> QED
  BY <1>4, <1>5

LEMMA ReceivedEnds ==
  ASSUME NEW M, NEW mb \in Seq(M), mb # <<>>
  PROVE  Cardinality(EndPlaces(mb))
           = Cardinality(EndPlaces(Tail(mb))) + (IF Head(mb).type \in EndMessages THEN 1 ELSE 0)
<1> DEFINE rest == Tail(mb)
           T == EndPlaces(mb) \ {1}
           f == [i \in EndPlaces(rest) |-> i + 1]
<1>1. /\ Len(mb) \in Nat \ {0} /\ DOMAIN mb = 1 .. Len(mb)
      /\ rest \in Seq(M) /\ DOMAIN rest = 1 .. Len(mb) - 1
      /\ \A i \in DOMAIN rest : rest[i] = mb[i + 1]
      /\ Head(mb) = mb[1]
  BY HeadTailProperties, LenProperties, EmptySeq
<1> HIDE DEF rest
<1>2. IsFiniteSet(EndPlaces(mb)) /\ IsFiniteSet(EndPlaces(rest))
  BY <1>1, EndPlacesFinite
<1>3. f \in [EndPlaces(rest) -> T]
  BY <1>1 DEF EndPlaces
<1>4. \A i, k \in EndPlaces(rest) : f[i] = f[k] => i = k
  BY <1>1 DEF EndPlaces
<1>5. \A k \in T : \E i \in EndPlaces(rest) : f[i] = k
  <2>1. ASSUME NEW k \in T
        PROVE  k - 1 \in EndPlaces(rest) /\ f[k - 1] = k
    <3>1. k \in 1 .. Len(mb) /\ k # 1 /\ mb[k].type \in EndMessages
      BY <1>1 DEF EndPlaces
    <3>2. k - 1 \in DOMAIN rest /\ rest[k - 1] = mb[k]
      BY <1>1, <3>1
    <3> QED
      BY <1>1, <3>1, <3>2 DEF EndPlaces
  <2> QED
    BY <2>1
<1>6. f \in Bijection(EndPlaces(rest), T)
  BY <1>3, <1>4, <1>5, Fun_IsBij
<1>7. Cardinality(T) = Cardinality(EndPlaces(rest))
  BY <1>2, <1>6, FS_Bijection DEF ExistsBijection
<1>8. Cardinality(T) = IF 1 \in EndPlaces(mb) THEN Cardinality(EndPlaces(mb)) - 1
                                              ELSE Cardinality(EndPlaces(mb))
  BY <1>2, FS_RemoveElement
<1>9. (1 \in EndPlaces(mb)) <=> (Head(mb).type \in EndMessages)
  BY <1>1 DEF EndPlaces
<1>10. Cardinality(EndPlaces(mb)) \in Nat
  BY EndPlacesFinite
<1> QED
  BY <1>7, <1>8, <1>9, <1>10 DEF rest

\* While the engine waits for the number of jobs, no job is registered and none has ended;
\* then its counter is that of the jobs that have not ended or whose end it has yet to hear.
AccountInv ==
  Undisturbed =>
    IF engine = "waiting"
    THEN registered = {} /\ Cardinality(EndPlaces(simMailbox)) = 0
    ELSE expectedJobs = Cardinality(Unfinished) + Cardinality(EndPlaces(simMailbox))

LEMMA SchedulerAccount ==
  ASSUME BaseInv, PlacesInv, AccountInv, Undisturbed, fault = "none",
         NEW j \in Jobs, SchedulerStepOf(j), UNCHANGED <<left, engineVars>>
  PROVE  AccountInv'
<1>0. /\ TypeOK /\ ThreadInv(j) /\ Submission(j) /\ Ended(j)
      /\ simMailbox \in Seq(SimMsg) /\ IsFiniteSet(Jobs)
  BY ElastisimConfiguration DEF BaseInv, PlacesInv, ControlInv, TypeOK, SchedulerTypeOK
<1>1. \A i \in Jobs : i # j => state'[i] = state[i]
  BY <1>0, SchedulerStepTouchesOne DEF Untouched, SameJob
<1>2. CASE simMailbox' = simMailbox /\ ((state'[j] \in Final) <=> (state[j] \in Final))
  <2>1. Unfinished' = Unfinished
    BY <1>1, <1>2 DEF Unfinished
  <2> QED
    BY <1>2, <2>1 DEF AccountInv, engineVars
<1>3. CASE EndReported(j) /\ state[j] \notin Final /\ state'[j] \in Final
  <2>1. PICK type \in EndMessages : simMailbox' = Append(simMailbox, Message(type, j))
    BY <1>3 DEF EndReported
  <2>2. Message(type, j) \in SimMsg /\ Message(type, j).type \in EndMessages
    BY MessageTypes DEF Message, EndMessages
  <2>3. Cardinality(EndPlaces(simMailbox')) = Cardinality(EndPlaces(simMailbox)) + 1
    BY <1>0, <2>1, <2>2, AppendedEnds
  <2>4. Unfinished' = Unfinished \ {j} /\ j \in Unfinished
    BY <1>1, <1>3 DEF Unfinished
  <2>5. IsFiniteSet(Unfinished) /\ Cardinality(Unfinished) \in Nat
    <3>1. Unfinished \in SUBSET Jobs
      BY DEF Unfinished
    <3> QED
      BY <1>0, <3>1, FS_Subset, FS_CardinalityType
  <2>6. Cardinality(Unfinished') = Cardinality(Unfinished) - 1
    BY <2>4, <2>5, FS_RemoveElement
  <2>7. Cardinality(EndPlaces(simMailbox)) \in Nat
    BY <1>0, EndPlacesFinite
  <2>8. engine # "waiting"
    <3>1. SUFFICES ASSUME engine = "waiting" PROVE FALSE
      OBVIOUS
    <3>2. j \notin registered /\ state[j] = "PENDING_SUBMISSION"
      BY <1>0, <3>1 DEF AccountInv, Submission
    <3>3. ~HandleJobSubmit(j)
      BY <1>0, <3>2, ReceivedCarries DEF HandleJobSubmit, Submission
    <3>4. state'[j] = "PENDING_SUBMISSION"
      BY <1>0, <3>2, <3>3, FirstStateStays DEF StepOf
    <3> QED
      BY <1>3, <3>4 DEF Final
  <2> QED
    BY <2>3, <2>5, <2>6, <2>7, <2>8 DEF AccountInv, engineVars
<1> QED
  BY <1>0, <1>2, <1>3, EndsOnce

LEMMA EngineAccount ==
  ASSUME BaseInv, AccountInv, Undisturbed, EngineStep
  PROVE  AccountInv'
<1> DEFINE c == Cardinality(EndPlaces(simMailbox))
<1>0. /\ simMailbox \in Seq(SimMsg) /\ c \in Nat /\ IsFiniteSet(Jobs) /\ expectedJobs \in Int
      /\ \A j \in Jobs : Submission(j)
  BY EndPlacesFinite, ElastisimConfiguration DEF BaseInv, ControlInv, TypeOK, SchedulerTypeOK
<1>1. Unfinished' = Unfinished /\ UNCHANGED registered
  BY DEF EngineStep, Unfinished, passive, jobVars, JobSubmitter, SendNumberOfJobs, SubmitJob,
         ReceiveNumberOfJobs, ReceiveEnd, SendFinalize, WriteStatistics, engineVars
<1>2. Cardinality(Unfinished) \in Nat
  <2>1. Unfinished \in SUBSET Jobs
    BY DEF Unfinished
  <2> QED
    BY <1>0, <2>1, FS_Subset, FS_CardinalityType
<1>3. ASSUME JobSubmitter
      PROVE  AccountInv'
  <2>1. /\ UNCHANGED <<engine, expectedJobs>>
        /\ \/ simMailbox' = Append(simMailbox, Message("NUMBER_OF_JOBS", NoJob))
           \/ \E j \in Jobs : simMailbox' = Append(simMailbox, Message("SUBMIT_JOB", j))
    BY <1>3 DEF JobSubmitter, SendNumberOfJobs, SubmitJob, engineVars
  <2>2. \E m \in SimMsg : m.type \notin EndMessages /\ simMailbox' = Append(simMailbox, m)
    <3>1. Message("NUMBER_OF_JOBS", NoJob) \in SimMsg /\ Message("NUMBER_OF_JOBS", NoJob).type \notin EndMessages
      BY DEF Message, EndMessages, SimMsg
    <3>2. \A j \in Jobs : Message("SUBMIT_JOB", j) \in SimMsg /\ Message("SUBMIT_JOB", j).type \notin EndMessages
      BY DEF Message, EndMessages, SimMsg
    <3> QED
      BY <2>1, <3>1, <3>2
  <2>3. Cardinality(EndPlaces(simMailbox')) = c
    BY <1>0, <2>2, AppendedEnds
  <2> QED
    BY <1>1, <2>1, <2>3 DEF AccountInv
<1>4. ASSUME ReceiveNumberOfJobs
      PROVE  AccountInv'
  <2>1. /\ engine = "waiting" /\ engine' = "running" /\ expectedJobs' = Cardinality(Jobs)
        /\ simMailbox # <<>> /\ Head(simMailbox).type = "NUMBER_OF_JOBS"
        /\ simMailbox' = Tail(simMailbox)
    BY <1>4 DEF ReceiveNumberOfJobs, SimReceived, Message
  <2>2. registered = {} /\ c = 0
    BY <2>1 DEF AccountInv
  <2>3. Unfinished = Jobs
    BY <1>0, <2>2 DEF Unfinished, Submission, Final
  <2>4. Cardinality(EndPlaces(simMailbox')) = 0
    <3>1. Tail(simMailbox) \in Seq(SimMsg)
      BY <1>0, <2>1, HeadTailProperties
    <3>2. Cardinality(EndPlaces(Tail(simMailbox))) \in Nat
      BY <3>1, EndPlacesFinite
    <3>3. c = Cardinality(EndPlaces(Tail(simMailbox))) + 0
      BY <1>0, <2>1, ReceivedEnds DEF EndMessages
    <3> QED
      BY <2>1, <2>2, <3>2, <3>3
  <2> QED
    BY <1>1, <1>2, <2>1, <2>3, <2>4 DEF AccountInv
<1>5. ASSUME NEW j \in Jobs, NEW type \in EndMessages, ReceiveEnd(type, j)
      PROVE  AccountInv'
  <2>1. /\ engine = "running" /\ engine' = engine /\ expectedJobs' = expectedJobs - 1
        /\ simMailbox # <<>> /\ Head(simMailbox).type \in EndMessages
        /\ simMailbox' = Tail(simMailbox)
    BY <1>5 DEF ReceiveEnd, Looping, SimReceived, Message
  <2>2. Tail(simMailbox) \in Seq(SimMsg)
    BY <1>0, <2>1, HeadTailProperties
  <2>3. c = Cardinality(EndPlaces(simMailbox')) + 1 /\ Cardinality(EndPlaces(simMailbox')) \in Nat
    BY <1>0, <2>1, <2>2, ReceivedEnds, EndPlacesFinite
  <2> QED
    BY <1>0, <1>1, <1>2, <2>1, <2>3 DEF AccountInv
<1>6. ASSUME SendFinalize \/ WriteStatistics
      PROVE  AccountInv'
  BY <1>1, <1>6 DEF AccountInv, SendFinalize, WriteStatistics
<1> QED
  BY <1>3, <1>4, <1>5, <1>6 DEF EngineStep, EndMessages

LEMMA NextAccount == BaseInv /\ PlacesInv /\ AccountInv /\ [Next]_vars => AccountInv'
<1> SUFFICES ASSUME BaseInv, PlacesInv, AccountInv, [Next]_vars, Undisturbed' PROVE AccountInv'
  BY DEF AccountInv
<1>0. /\ TypeOK /\ Undisturbed /\ simMailbox \in Seq(SimMsg)
  BY UndisturbedBefore DEF BaseInv, TypeOK, SchedulerTypeOK
<1>1. ASSUME UNCHANGED <<simMailbox, engineVars>>, \A j \in Jobs : (state'[j] \in Final) <=> (state[j] \in Final)
      PROVE  AccountInv'
  <2>1. Unfinished' = Unfinished
    BY <1>1 DEF Unfinished
  <2> QED
    BY <1>0, <1>1, <2>1 DEF AccountInv, engineVars
<1>2. CASE StepOfNone
  <2>1. CASE fault = "none" /\ EngineStep
    BY <1>0, <2>1, EngineAccount
  <2>2. CASE ~EngineStep
    <3>1. UNCHANGED <<state, simMailbox, engineVars>>
      BY <1>2, <2>2 DEF StepOfNone, HandleInvoke, HandleFinalize, Invoke, EndResponse, EndSchedule, vars,
         InvokePeriodically, IntervalElapses, passive, jobVars
    <3> QED
      BY <1>1, <3>1
  <2>3. CASE UNCHANGED vars
    BY <1>1, <2>3 DEF vars, jobVars
  <2> QED
    BY <1>2, <2>1, <2>2, <2>3 DEF StepOfNone
<1>3. ASSUME NEW j \in Jobs, StepOf(j)
      PROVE  AccountInv'
  <2>1. CASE SchedulerStepOf(j) /\ UNCHANGED <<left, engineVars>>
    BY <1>0, <1>3, <2>1, SchedulerAccount DEF StepOf
  <2>2. CASE Application(j) \/ WalltimeExceeded(j) \/ ReceiveJobStep(j)
    <3>1. \A i \in Jobs : i # j => state'[i] = state[i]
      BY <1>0, <1>3, StepTouchesOne DEF Untouched, SameJob
    <3>2. (state'[j] \in Final) <=> (state[j] \in Final)
      BY <1>0, <2>2, ApplicationEndsNothing DEF PlacesInv
    <3>3. CASE Application(j) \/ WalltimeExceeded(j)
      BY <1>1, <3>1, <3>2, <3>3 DEF Application, WalltimeExceeded
    <3>4. CASE ReceiveJobStep(j)
      <4>1. /\ simMailbox # <<>> /\ Head(simMailbox).type = "SUBMIT_JOB" /\ simMailbox' = Tail(simMailbox)
            /\ engine = "running" /\ UNCHANGED <<engine, expectedJobs>>
        BY <3>4 DEF ReceiveJobStep, ReceiveJob, Looping, SimReceived, Message
      <4>2. Tail(simMailbox) \in Seq(SimMsg)
        BY <1>0, <4>1, HeadTailProperties
      <4>3. Cardinality(EndPlaces(simMailbox')) = Cardinality(EndPlaces(simMailbox))
        <5>1. Cardinality(EndPlaces(Tail(simMailbox))) \in Nat
          BY <4>2, EndPlacesFinite
        <5>2. Cardinality(EndPlaces(simMailbox)) = Cardinality(EndPlaces(Tail(simMailbox))) + 0
          BY <1>0, <4>1, ReceivedEnds DEF EndMessages
        <5> QED
          BY <4>1, <5>1, <5>2
      <4>4. Unfinished' = Unfinished
        BY <3>1, <3>2 DEF Unfinished
      <4> QED
        BY <1>0, <4>1, <4>3, <4>4 DEF AccountInv
    <3> QED
      BY <2>2, <3>3, <3>4
  <2> QED
    BY <1>3, <2>1, <2>2 DEF StepOf
<1> QED
  BY <1>0, <1>2, <1>3, StepCases

LEMMA AccountIsInvariant == Spec => []AccountInv
<1>1. Init => AccountInv
  <2> SUFFICES ASSUME Init PROVE AccountInv
    OBVIOUS
  <2>1. engine = "waiting" /\ registered = {} /\ simMailbox = <<>>
    BY DEF Init, SchedulerInit
  <2>2. EndPlaces(<<>>) = {}
    BY DEF EndPlaces
  <2> QED
    BY <2>1, <2>2, FS_EmptySet DEF AccountInv
<1> QED
  BY <1>1, NextAccount, BaseIsInvariant, PlacesAreInvariant, PTL DEF Spec

\* The engine's counter of unfinished jobs counts every end once, and hears of each: it is the
\* number of jobs that have not ended plus that of the ends it has yet to receive.
THEOREM EndsAreCounted == Spec => []Accounting
<1>1. TypeOK /\ AccountInv => Accounting
  BY DEF TypeOK, AccountInv, Accounting, EndPlaces, EndMessages, Unfinished
<1> QED
  BY <1>1, TypeCorrect, AccountIsInvariant, PTL

-----------------------------------------------------------------------------
(* Occupied: the jobs a node runs.                                         *)

\* The fields that the operations on nodes change, job by job.
LEMMA RunningFields ==
  ASSUME NEW nd \in NodeRecord, NEW j \in Jobs
  PROVE  /\ ExpectJob(nd, j).running = nd.running
         /\ RemoveExpectedJob(nd, j).running = nd.running
         /\ AllocateJob(nd, j).running = nd.running \cup {j}
         /\ CompleteJob(nd, j).running = nd.running \ {j}
BY DEF NodeRecord, ExpectJob, RemoveExpectedJob, AllocateJob, CompleteJob

LEMMA RunningMaps ==
  ASSUME NEW nds \in [Nodes -> NodeRecord], NEW j \in Jobs, NEW S, NEW n \in Nodes
  PROVE  /\ Expect(nds, S, j)[n].running = nds[n].running
         /\ RemoveExpected(nds, S, j)[n].running = nds[n].running
         /\ Allocate(nds, S, j)[n].running = nds[n].running \cup (IF n \in S THEN {j} ELSE {})
         /\ Complete(nds, S, j)[n].running = nds[n].running \ (IF n \in S THEN {j} ELSE {})
         /\ \A new : NodesAfterSetState(nds, j, new)[n].running = nds[n].running
<1>1. nds[n] \in NodeRecord
  OBVIOUS
<1> QED
  BY <1>1, RunningFields DEF Expect, RemoveExpected, Allocate, Complete, NodesAfterSetState

\* What a step of the scheduler about job j may do to the nodes.
NodesDecided(j) ==
  \/ node' = RemoveExpected(node, Assigned(j), j)
  \/ \E q \in Allocations : node' = Expect(RemoveExpected(node, Assigned(j), j), Range(q), j)
NodesLeft(j) ==
  \E new \in Final : node' = NodesAfterSetState(Complete(node, Executing(j), j), j, new)
NodesTaken(j) == node' = Allocate(node, Assigned(j), j)
NodesReconfigured(j) ==
  node' = Complete(Allocate(NodesAfterSetState(node, j, "IN_RECONFIGURATION"),
                            Assigned(j) \ Executing(j), j),
                   Executing(j) \ Assigned(j), j)

NodeSteps(j) ==
  node' = node \/ NodesDecided(j) \/ NodesLeft(j) \/ NodesTaken(j) \/ NodesReconfigured(j)

LEMMA StepNodes ==
  ASSUME NEW j \in Jobs, StepOf(j)
  PROVE  NodeSteps(j)
<1>1. ASSUME NEW x, NEW mb, ForwardJobKill(j, x, mb)
      PROVE  node' = node \/ NodesLeft(j)
  BY <1>1 DEF ForwardJobKill, nodeVars, NodesLeft, Final
<1>2. CASE HandleWalltimeExceeded(j) \/ (Answer /\ req = j) \/ (Forward /\ Head(scheduled) = j)
  BY <1>1, <1>2 DEF HandleWalltimeExceeded, Answer, Forward, HandleReconfiguration, Continue,
       ForwardJobAllocation, nodeVars, NodeSteps, NodesTaken, NodesReconfigured
<1>3. CASE HandleProcessedWorkload(j)
  BY <1>3 DEF HandleProcessedWorkload, NodeSteps, NodesLeft, Final
<1>4. CASE HandleJobSubmit(j) \/ HandleSchedulingPoint(j) \/ HandleEvolvingRequest(j)
  BY <1>4 DEF HandleJobSubmit, HandleSchedulingPoint, HandleEvolvingRequest, HandleReconfiguration,
     Continue, nodeVars, NodeSteps, NodesReconfigured
<1>5. CASE DecideKill(j) \/ \E q \in Allocations : DecideNodes(j, q)
  BY <1>5 DEF DecideKill, DecideNodes, Assign, nodeVars, NodeSteps, NodesDecided
<1>6. CASE Application(j) \/ WalltimeExceeded(j) \/ ReceiveJobStep(j)
  BY <1>6 DEF Application, AppStarts, AppIterates, AppCompletes, AppRequests, WalltimeExceeded,
     ReceiveJobStep, passive, nodeVars, NodeSteps
<1> QED
  BY <1>2, <1>3, <1>4, <1>5, <1>6 DEF StepOf, SchedulerStepOf

LEMMA NodesOfNone ==
  ASSUME StepOfNone
  PROVE  node' = node
BY DEF StepOfNone, HandleInvoke, HandleFinalize, Invoke, EndResponse, EndSchedule, vars,
       InvokePeriodically, IntervalElapses, EngineStep, passive, nodeVars

\* The nodes run and expect job i as before.
SameNodes(i) ==
  \A n \in Nodes : /\ (i \in node'[n].running) <=> (i \in node[n].running)
                   /\ (i \in node'[n].expected) <=> (i \in node[n].expected)

LEMMA MapsTouchOne ==
  ASSUME NEW nds \in [Nodes -> NodeRecord], NEW j \in Jobs, NEW S, NEW n \in Nodes, NEW i, i # j
  PROVE  /\ (i \in Expect(nds, S, j)[n].expected) <=> (i \in nds[n].expected)
         /\ (i \in RemoveExpected(nds, S, j)[n].expected) <=> (i \in nds[n].expected)
         /\ Allocate(nds, S, j)[n].expected = nds[n].expected
         /\ Complete(nds, S, j)[n].expected = nds[n].expected
         /\ \A new : (i \in NodesAfterSetState(nds, j, new)[n].expected) <=> (i \in nds[n].expected)
<1>1. nds[n] \in NodeRecord
  OBVIOUS
<1>2. \A T : (i \in RemoveExpected(nds, T, j)[n].expected) <=> (i \in nds[n].expected)
  BY <1>1, RemoveExpectedRemoves
<1> QED
  BY <1>1, <1>2, ExpectAdds, OthersKeepExpected DEF NodesAfterSetState

LEMMA NodeStepsTouchOne ==
  ASSUME TypeOK, NEW j \in Jobs, NodeSteps(j), NEW i \in Jobs, i # j
  PROVE  SameNodes(i)
<1> SUFFICES ASSUME NEW n \in Nodes
             PROVE  /\ (i \in node'[n].running) <=> (i \in node[n].running)
                    /\ (i \in node'[n].expected) <=> (i \in node[n].expected)
  BY DEF SameNodes
<1>0. node \in [Nodes -> NodeRecord]
  BY DEF TypeOK, JobNodeTypeOK
<1>1. CASE NodesDecided(j)
  <2>1. RemoveExpected(node, Assigned(j), j) \in [Nodes -> NodeRecord]
    BY <1>0, NodeMaps
  <2>2. ASSUME NEW q, node' = Expect(RemoveExpected(node, Assigned(j), j), Range(q), j)
        PROVE  /\ (i \in node'[n].running) <=> (i \in node[n].running)
               /\ (i \in node'[n].expected) <=> (i \in node[n].expected)
    BY <1>0, <2>1, <2>2, RunningMaps, MapsTouchOne
  <2> QED
    BY <1>0, <1>1, <2>2, RunningMaps, MapsTouchOne DEF NodesDecided
<1>2. CASE NodesLeft(j)
  <2> DEFINE freed == Complete(node, Executing(j), j)
  <2>1. freed \in [Nodes -> NodeRecord]
    BY <1>0, NodeMaps
  <2>2. /\ (i \in freed[n].running) <=> (i \in node[n].running)
        /\ (i \in freed[n].expected) <=> (i \in node[n].expected)
    BY <1>0, RunningMaps, MapsTouchOne
  <2>3. PICK new \in Final : node' = NodesAfterSetState(freed, j, new)
    BY <1>2 DEF NodesLeft
  <2> HIDE DEF freed
  <2> QED
    BY <2>1, <2>2, <2>3, RunningMaps, MapsTouchOne
<1>3. CASE NodesTaken(j)
  BY <1>0, <1>3, RunningMaps, MapsTouchOne DEF NodesTaken
<1>4. CASE NodesReconfigured(j)
  <2> DEFINE unreserved == NodesAfterSetState(node, j, "IN_RECONFIGURATION")
             taken == Allocate(unreserved, Assigned(j) \ Executing(j), j)
  <2>1. unreserved \in [Nodes -> NodeRecord]
    BY <1>0, NodeMaps DEF NodesAfterSetState
  <2>2. taken \in [Nodes -> NodeRecord]
    BY <2>1, NodeMaps
  <2>3. /\ (i \in unreserved[n].running) <=> (i \in node[n].running)
        /\ (i \in unreserved[n].expected) <=> (i \in node[n].expected)
    BY <1>0, RunningMaps, MapsTouchOne
  <2> HIDE DEF unreserved
  <2>4. /\ (i \in taken[n].running) <=> (i \in unreserved[n].running)
        /\ (i \in taken[n].expected) <=> (i \in unreserved[n].expected)
    BY <2>1, RunningMaps, MapsTouchOne
  <2> HIDE DEF taken
  <2>5. node' = Complete(taken, Executing(j) \ Assigned(j), j)
    BY <1>4 DEF NodesReconfigured, taken, unreserved
  <2> QED
    BY <2>2, <2>3, <2>4, <2>5, RunningMaps, MapsTouchOne
<1> QED
  BY <1>1, <1>2, <1>3, <1>4 DEF NodeSteps

\* A node is shown allocated exactly when it runs a job, and reserved only if it expects one.
Shown(nd) ==
  /\ nd.state = "ALLOCATED" <=> nd.running # {}
  /\ nd.state = "RESERVED" => nd.expected # {}

LEMMA MapsShow ==
  ASSUME NEW nds \in [Nodes -> NodeRecord], NEW j \in Jobs, NEW S, \A n \in Nodes : Shown(nds[n])
  PROVE  \A n \in Nodes : /\ Shown(Expect(nds, S, j)[n])
                          /\ Shown(RemoveExpected(nds, S, j)[n])
                          /\ Shown(Allocate(nds, S, j)[n])
                          /\ Shown(Complete(nds, S, j)[n])
                          /\ \A new : Shown(NodesAfterSetState(nds, j, new)[n])
<1>1. ASSUME NEW nd \in NodeRecord, Shown(nd)
      PROVE  /\ Shown(ExpectJob(nd, j)) /\ Shown(RemoveExpectedJob(nd, j))
             /\ Shown(AllocateJob(nd, j)) /\ Shown(CompleteJob(nd, j))
  BY <1>1 DEF Shown, NodeRecord, NodeStates, ExpectJob, RemoveExpectedJob, AllocateJob, CompleteJob
<1> QED
  BY <1>1 DEF Expect, RemoveExpected, Allocate, Complete, NodesAfterSetState

LEMMA NextShown ==
  ASSUME TypeOK, [Next]_vars, \A n \in Nodes : Shown(node[n])
  PROVE  \A n \in Nodes : Shown(node'[n])
<1>0. node \in [Nodes -> NodeRecord]
  BY DEF TypeOK, JobNodeTypeOK
<1>1. ASSUME NEW j \in Jobs, NodeSteps(j)
      PROVE  \A n \in Nodes : Shown(node'[n])
  <2>1. /\ RemoveExpected(node, Assigned(j), j) \in [Nodes -> NodeRecord]
        /\ Complete(node, Executing(j), j) \in [Nodes -> NodeRecord]
        /\ NodesAfterSetState(node, j, "IN_RECONFIGURATION") \in [Nodes -> NodeRecord]
    BY <1>0, NodeMaps DEF NodesAfterSetState
  <2>2. Allocate(NodesAfterSetState(node, j, "IN_RECONFIGURATION"), Assigned(j) \ Executing(j), j)
          \in [Nodes -> NodeRecord]
    BY <2>1, NodeMaps
  <2>3. CASE NodesDecided(j)
    BY <1>0, <2>1, <2>3, MapsShow DEF NodesDecided
  <2>4. CASE NodesLeft(j)
    BY <1>0, <2>1, <2>4, MapsShow DEF NodesLeft
  <2>5. CASE NodesTaken(j)
    BY <1>0, <2>5, MapsShow DEF NodesTaken
  <2>6. CASE NodesReconfigured(j)
    BY <1>0, <2>1, <2>2, <2>6, MapsShow DEF NodesReconfigured
  <2> QED
    BY <1>1, <2>3, <2>4, <2>5, <2>6 DEF NodeSteps
<1> QED
  BY <1>1, StepCases, StepNodes, NodesOfNone

\* The nodes that run a job are the executing nodes of the job, as long as it is started.
OnNodes(i) == \A n \in Nodes : (i \in node[n].running) <=> (Started(i) /\ n \in Executing(i))

LEMMA StepOnNodes ==
  ASSUME BaseInv, NEW j \in Jobs, Ended(j), OnNodes(j), SchedulerStepOf(j)
  PROVE  OnNodes(j)'
<1>0. /\ TypeOK /\ ThreadInv(j) /\ Submission(j) /\ JobNodeTypeOK /\ mailbox \in Seq(SchedMsg)
      /\ node \in [Nodes -> NodeRecord] /\ state \in [Jobs -> JobStates]
      /\ executing \in [Jobs -> Seq(Nodes)] /\ assigned \in [Jobs -> Seq(Nodes)]
  BY DEF BaseInv, ControlInv, TypeOK, SchedulerTypeOK, JobNodeTypeOK
<1>node. node \in [Nodes -> NodeRecord]
  BY <1>0
<1>1. ASSUME NEW new \in Final, SetState(j, new),
             node' = NodesAfterSetState(Complete(node, Executing(j), j), j, new)
      PROVE  OnNodes(j)'
  <2> DEFINE done1 == Complete(node, Executing(j), j)
  <2>0. done1 \in [Nodes -> NodeRecord]
    BY <1>node, NodeMaps
  <2>1. ASSUME NEW n \in Nodes PROVE j \notin done1[n].running
    <3>1. done1[n].running = node[n].running \ (IF n \in Executing(j) THEN {j} ELSE {})
      BY <1>node, RunningMaps
    <3> QED
      BY <3>1 DEF OnNodes
  <2>2. node' = NodesAfterSetState(done1, j, new)
    BY <1>1
  <2> HIDE DEF done1
  <2>3. \A n \in Nodes : j \notin node'[n].running
    BY <2>0, <2>1, <2>2, RunningMaps
  <2>4. state'[j] = new
    BY <1>0, <1>1, SetStateMoves
  <2> QED
    BY <1>1, <2>3, <2>4 DEF OnNodes, Started
<1>2. ASSUME UNCHANGED <<node, executing>>, (state'[j] \in Final) <=> (state[j] \in Final)
      PROVE  OnNodes(j)'
  BY <1>2 DEF OnNodes, Started, Executing
<1>3. ASSUME NEW x, NEW mb, ForwardJobKill(j, x, mb)
      PROVE  OnNodes(j)'
  BY <1>1, <1>2, <1>3 DEF ForwardJobKill, jobVars, nodeVars, Final
<1>4. ASSUME HandleReconfiguration(j), state[j] = "PENDING_RECONFIGURATION"
      PROVE  OnNodes(j)'
  <2> DEFINE unreserved == NodesAfterSetState(node, j, "IN_RECONFIGURATION")
             taken == Allocate(unreserved, Assigned(j) \ Executing(j), j)
  <2>1. node' = Complete(taken, Executing(j) \ Assigned(j), j)
    BY <1>4 DEF HandleReconfiguration
  <2>2. /\ unreserved \in [Nodes -> NodeRecord]
        /\ \A n \in Nodes : unreserved[n].running = node[n].running
    BY <1>0, NodeMaps, RunningMaps DEF NodesAfterSetState
  <2> HIDE DEF unreserved
  <2>3. /\ taken \in [Nodes -> NodeRecord]
        /\ \A n \in Nodes : (j \in taken[n].running)
                              <=> (j \in node[n].running \/ n \in Assigned(j) \ Executing(j))
    BY <2>2, NodeMaps, RunningMaps
  <2> HIDE DEF taken
  <2>4. \A n \in Nodes : (j \in node'[n].running)
                           <=> (j \in taken[n].running /\ n \notin Executing(j) \ Assigned(j))
    BY <2>1, <2>3, RunningMaps
  <2>5. Started(j) /\ assigned[j] # <<>>
    BY <1>0, <1>4 DEF ThreadInv, Lifecycle, Started, Final
  <2>6. state'[j] = "IN_RECONFIGURATION" /\ executing'[j] = assigned[j]
    BY <1>0, <1>4 DEF HandleReconfiguration, SetState, TakesOver
  <2>7. \A n \in Nodes : (j \in node'[n].running) <=> n \in Assigned(j)
    BY <2>3, <2>4, <2>5 DEF OnNodes
  <2>8. Started(j)' /\ Executing(j)' = Assigned(j)
    BY <2>5, <2>6 DEF Started, Final, Executing, Assigned
  <2> QED
    BY <2>7, <2>8 DEF OnNodes
<1>5. CASE HandleJobSubmit(j)
  <2>1. Carries(mailbox, {"JOB_SUBMIT"}, j)
    BY <1>0, <1>5, ReceivedCarries DEF HandleJobSubmit
  <2>2. state[j] = "PENDING_SUBMISSION"
    BY <2>1, <1>0 DEF Submission
  <2>3. UNCHANGED <<node, executing>> /\ state'[j] = "PENDING"
    BY <1>0, <1>5, <2>2 DEF HandleJobSubmit, SetState, TakesOver, nodeVars
  <2> QED
    BY <1>2, <2>2, <2>3 DEF Final
<1>6. CASE HandleSchedulingPoint(j) \/ HandleEvolvingRequest(j)
  BY <1>2, <1>4, <1>6 DEF HandleSchedulingPoint, HandleEvolvingRequest, Continue, jobVars, nodeVars
<1>7. CASE HandleWalltimeExceeded(j)
  BY <1>3, <1>7 DEF HandleWalltimeExceeded
<1>8. CASE HandleProcessedWorkload(j)
  BY <1>1, <1>8 DEF HandleProcessedWorkload, Final
<1>9. CASE DecideKill(j)
  <2>1. UNCHANGED <<node, executing>> /\ state'[j] = "PENDING_KILL" /\ state[j] \notin Final
    BY <1>0, <1>9, KnownEnds DEF DecideKill, SetState, TakesOver, nodeVars
  <2> QED
    BY <1>2, <2>1 DEF Final
<1>10. CASE \E q \in Allocations : DecideNodes(j, q)
  <2>1. PICK q \in Allocations : DecideNodes(j, q)
    BY <1>10
  <2>2. executing' = executing /\ ((state'[j] \in Final) <=> (state[j] \in Final))
    BY <1>0, <2>1, DecideNodesKeeps
  <2>3. node' = node \/ NodesDecided(j)
    BY <2>1 DEF DecideNodes, Assign, nodeVars, NodesDecided
  <2>4. RemoveExpected(node, Assigned(j), j) \in [Nodes -> NodeRecord]
    BY <1>0, NodeMaps
  <2>5. ASSUME NEW n \in Nodes PROVE node'[n].running = node[n].running
    <3>1. ASSUME NEW q1, node' = Expect(RemoveExpected(node, Assigned(j), j), Range(q1), j)
          PROVE  node'[n].running = node[n].running
      BY <1>node, <2>4, <3>1, RunningMaps
    <3> QED
      BY <1>node, <2>3, <3>1, RunningMaps DEF NodesDecided
  <2> QED
    BY <2>2, <2>5 DEF OnNodes, Started, Executing
<1>11. CASE Answer /\ req = j
  <2>1. CASE state[j] = "PENDING_KILL"
    BY <1>3, <1>11, <2>1 DEF Answer
  <2>2. CASE state[j] = "PENDING_RECONFIGURATION"
    BY <1>4, <1>11, <2>2 DEF Answer
  <2>3. CASE state[j] \notin {"PENDING_KILL", "PENDING_RECONFIGURATION"}
    BY <1>2, <1>11, <2>3 DEF Answer, Continue, jobVars, nodeVars
  <2> QED
    BY <2>1, <2>2, <2>3
<1>12. CASE Forward /\ Head(scheduled) = j
  <2>1. CASE state[j] = "PENDING_KILL"
    <3>1. ForwardJobKill(j, FALSE, mailbox)
      BY <1>12, <2>1 DEF Forward
    <3> QED
      BY <1>3, <3>1
  <2>2. CASE state[j] = "PENDING_ALLOCATION"
    <3>1. ForwardJobAllocation(j)
      BY <1>12, <2>2 DEF Forward
    <3>2. CASE UNCHANGED <<jobVars, nodeVars>>
      BY <1>2, <3>2 DEF jobVars, nodeVars
    <3>3. CASE ~UNCHANGED <<jobVars, nodeVars>>
      <4>1. /\ executing'[j] = assigned[j] /\ state'[j] = "RUNNING"
            /\ node' = Allocate(node, Assigned(j), j)
        BY <1>0, <2>2, <3>1, <3>3 DEF ForwardJobAllocation, SetState, TakesOver
      <4>2. executing[j] = <<>> /\ assigned[j] # <<>>
        BY <1>0, <2>2 DEF ThreadInv, Lifecycle
      <4>3. \A n \in Nodes : j \notin node[n].running
        BY <4>2 DEF OnNodes, Started
      <4>4. ASSUME NEW n \in Nodes PROVE (j \in node'[n].running) <=> n \in Assigned(j)
        <5>1. node'[n].running = node[n].running \cup (IF n \in Assigned(j) THEN {j} ELSE {})
          BY <1>node, <4>1, RunningMaps
        <5> QED
          BY <4>3, <5>1
      <4>5. Started(j)' /\ Executing(j)' = Assigned(j)
        BY <4>1, <4>2 DEF Started, Final, Executing, Assigned
      <4> QED
        BY <4>4, <4>5 DEF OnNodes
    <3> QED
      BY <3>2, <3>3
  <2>3. CASE state[j] \notin {"PENDING_KILL", "PENDING_ALLOCATION"}
    BY <1>2, <1>12, <2>3 DEF Forward, jobVars, nodeVars
  <2> QED
    BY <2>1, <2>2, <2>3
<1> QED
  BY <1>5, <1>6, <1>7, <1>8, <1>9, <1>10, <1>11, <1>12 DEF SchedulerStepOf

LEMMA NextOnNodes ==
  ASSUME BaseInv, PlacesInv, [Next]_vars, Undisturbed', \A i \in Jobs : OnNodes(i)
  PROVE  \A i \in Jobs : OnNodes(i)'
<1> SUFFICES ASSUME NEW i \in Jobs PROVE OnNodes(i)'
  OBVIOUS
<1>0. TypeOK /\ ThreadInv(i) /\ Ended(i) /\ JobNodeTypeOK
  BY UndisturbedBefore DEF BaseInv, ControlInv, PlacesInv, TypeOK
<1>1. ASSUME SameNodes(i), UNCHANGED <<state[i], executing[i]>>
      PROVE  OnNodes(i)'
  BY <1>1 DEF SameNodes, OnNodes, Started, Executing
<1>2. CASE StepOfNone
  BY <1>0, <1>1, <1>2, StepOfNoneTouches, NodesOfNone DEF Untouched, SameJob, SameNodes
<1>3. ASSUME NEW j \in Jobs, StepOf(j)
      PROVE  OnNodes(i)'
  <2>1. CASE i # j
    <3>1. SameNodes(i)
      BY <1>0, <1>3, <2>1, StepNodes, NodeStepsTouchOne
    <3>2. SameJob(i)
      BY <1>0, <1>3, <2>1, StepTouchesOne DEF Untouched
    <3> QED
      BY <1>1, <3>1, <3>2 DEF SameJob
  <2>2. CASE i = j /\ SchedulerStepOf(j)
    BY <1>0, <2>2, StepOnNodes
  <2>3. CASE i = j /\ AppStarts(j)
    <3>1. state[j] # "PENDING_ALLOCATION" /\ state[j] \notin Final
      BY <1>0, <2>3 DEF AppStarts, ThreadInv, Lifecycle, Ended
    <3>2. UNCHANGED <<node, executing>> /\ state'[j] = "RUNNING"
      BY <1>0, <2>3, <3>1 DEF AppStarts, SetState, TakesOver, nodeVars, JobNodeTypeOK
    <3> QED
      BY <2>3, <3>1, <3>2 DEF OnNodes, Started, Executing, Final
  <2>4. CASE i = j /\ ~SchedulerStepOf(j) /\ ~AppStarts(j)
    <3>1. UNCHANGED <<node, state, executing>>
      BY <1>3, <2>4 DEF StepOf, Application, AppIterates, AppCompletes, AppRequests, WalltimeExceeded,
         ReceiveJobStep, passive, jobVars, nodeVars
    <3> QED
      BY <3>1 DEF OnNodes, Started, Executing
  <2> QED
    BY <2>1, <2>2, <2>3, <2>4
<1> QED
  BY <1>0, <1>2, <1>3, StepCases

OccupiedInv == Undisturbed => \A i \in Jobs : OnNodes(i)

LEMMA OccupiedIsInvariant == Spec => []OccupiedInv
<1>1. Init => OccupiedInv
  BY DEF Init, JobInit, NodeInit, OccupiedInv, OnNodes, Started
<1>2. BaseInv /\ PlacesInv /\ OccupiedInv /\ [Next]_vars => OccupiedInv'
  BY NextOnNodes, UndisturbedBefore DEF BaseInv, OccupiedInv
<1> QED
  BY <1>1, <1>2, BaseIsInvariant, PlacesAreInvariant, PTL DEF Spec

\* A node runs exactly the active jobs that have it among their executing nodes: allocation,
\* expansion, release, completion and kill reach the node and the job alike.
THEOREM NodesAreOccupied == Spec => []Occupied
<1>1. BaseInv /\ OccupiedInv => Occupied
  <2> SUFFICES ASSUME BaseInv, Undisturbed, \A i \in Jobs : OnNodes(i), NEW n \in Nodes
               PROVE  node[n].running = {j \in Jobs : Active(j) /\ n \in Executing(j)}
    BY DEF Occupied, OccupiedInv
  <2>1. node[n].running \subseteq Jobs
    BY DEF BaseInv, TypeOK, JobNodeTypeOK, NodeRecord
  <2>2. \A j \in Jobs : Active(j) <=> Started(j)
    BY ActiveIff DEF BaseInv, ControlInv
  <2> QED
    BY <2>1, <2>2 DEF OnNodes
<1> QED
  BY <1>1, BaseIsInvariant, OccupiedIsInvariant, PTL

LEMMA NodesAreShown == Spec => []\A n \in Nodes : Shown(node[n])
<1>1. Init => \A n \in Nodes : Shown(node[n])
  BY DEF Init, JobInit, NodeInit, Shown
<1>2. TypeOK /\ (\A n \in Nodes : Shown(node[n])) /\ [Next]_vars => \A n \in Nodes : Shown(node'[n])
  BY NextShown
<1> DEFINE AllShown == \A n \in Nodes : Shown(node[n])
<1>3. Init => AllShown
  BY <1>1
<1>4. TypeOK /\ AllShown /\ [Next]_vars => AllShown'
  BY <1>2 DEF Shown
<1> HIDE DEF AllShown
<1>5. Spec => []AllShown
  BY <1>3, <1>4, TypeCorrect, PTL DEF Spec
<1> QED
  BY <1>5, PTL DEF AllShown

-----------------------------------------------------------------------------
(* When the simulation stands still: what each of its messages leads to.   *)

\* What a step about job j does to the messages about no job.
LEMMA StepKeepsMail ==
  ASSUME TypeOK, NEW j \in Jobs, StepOf(j)
  PROVE  SameMail(NoJob)
<1>0. /\ mailbox \in Seq(SchedMsg) /\ j # NoJob
      /\ Message("WALLTIME_EXCEEDED", j).job # NoJob
  BY SchedulerConfiguration DEF TypeOK, SchedulerTypeOK, Message
<1>1. ASSUME NEW type, Received(type, j)
      PROVE  mailbox # <<>> /\ Head(mailbox).job # NoJob
  BY <1>0, <1>1 DEF Received, Message
<1>2. ASSUME NEW x, NEW mb, ForwardJobKill(j, x, mb)
      PROVE  mailbox' = mb \/ mailbox' = Cancelled(mb, Message("WALLTIME_EXCEEDED", j))
  BY <1>2 DEF ForwardJobKill
<1>3. CASE HandleJobSubmit(j) \/ HandleSchedulingPoint(j) \/ HandleEvolvingRequest(j)
           \/ HandleWalltimeExceeded(j) \/ HandleProcessedWorkload(j)
  <2>1. mailbox # <<>> /\ Head(mailbox).job # NoJob
    BY <1>1, <1>3 DEF HandleJobSubmit, HandleSchedulingPoint, HandleEvolvingRequest, HandleWalltimeExceeded,
       HandleProcessedWorkload
  <2>2. \/ mailbox' = Tail(mailbox)
        \/ mailbox' = Cancelled(Tail(mailbox), Message("WALLTIME_EXCEEDED", j))
    BY <1>2, <1>3 DEF HandleJobSubmit, HandleSchedulingPoint, HandleEvolvingRequest, HandleWalltimeExceeded,
       HandleProcessedWorkload
  <2> QED
    BY <1>0, <2>1, <2>2, SameMailIf
<1>4. CASE DecideKill(j) \/ (\E q \in Allocations : DecideNodes(j, q)) \/ (Answer /\ req = j)
           \/ (Forward /\ Head(scheduled) = j)
  <2>1. mailbox' = mailbox \/ mailbox' = Cancelled(mailbox, Message("WALLTIME_EXCEEDED", j))
    BY <1>2, <1>4 DEF DecideKill, DecideNodes, Answer, Forward
  <2> QED
    BY <1>0, <2>1, SameMailIf
<1>5. CASE Application(j) \/ WalltimeExceeded(j) \/ ReceiveJobStep(j)
  <2>1. mailbox' = mailbox \/ \E m \in SchedMsg : m.job # NoJob /\ mailbox' = Append(mailbox, m)
    <3>1. \A type \in {"JOB_SUBMIT", "SCHEDULING_POINT", "EVOLVING_REQUEST", "WALLTIME_EXCEEDED",
                       "WORKLOAD_PROCESSED"} :
            Message(type, j) \in SchedMsg /\ Message(type, j).job # NoJob
      BY <1>0, MessageTypes DEF Message
    <3> QED
      BY <1>5, <3>1 DEF Application, AppStarts, AppIterates, AppCompletes, AppRequests,
           WalltimeExceeded, ReceiveJobStep, ReceiveJob
  <2> QED
    BY <1>0, <2>1, SameMailIf
<1> QED
  BY <1>3, <1>4, <1>5 DEF StepOf, SchedulerStepOf

\* Of a job's own messages, its submission and its end stay queued until they are handled.
LEMMA StepTakesMail ==
  ASSUME TypeOK, NEW j \in Jobs, StepOf(j), NEW type \in {"JOB_SUBMIT", "WORKLOAD_PROCESSED"},
         Carries(mailbox, {type}, j)
  PROVE  \/ Carries(mailbox', {type}, j)
         \/ type = "JOB_SUBMIT" /\ HandleJobSubmit(j)
         \/ type = "WORKLOAD_PROCESSED" /\ HandleProcessedWorkload(j)
<1> DEFINE T == {type}
           Keeps(mb) == Carries(mailbox, T, j) => Carries(mb, T, j)
<1>0. mailbox \in Seq(SchedMsg) /\ Carries(mailbox, T, j) /\ "WALLTIME_EXCEEDED" \notin T
  BY DEF TypeOK, SchedulerTypeOK
<1>1. ASSUME NEW other, other \notin T, Received(other, j)
      PROVE  Tail(mailbox) \in Seq(SchedMsg) /\ Carries(Tail(mailbox), T, j)
  <2> HIDE DEF T
  <2> QED
    BY <1>0, <1>1, ReceivedCarries
<1>2. ASSUME NEW mb \in Seq(SchedMsg), Carries(mb, T, j),
             mailbox' = mb \/ mailbox' = Cancelled(mb, Message("WALLTIME_EXCEEDED", j))
      PROVE  Carries(mailbox', T, j)
  <2> HIDE DEF T
  <2> QED
    BY <1>0, <1>2, MonitorCancelled
<1>3. ASSUME NEW x, NEW mb, ForwardJobKill(j, x, mb)
      PROVE  mailbox' = mb \/ mailbox' = Cancelled(mb, Message("WALLTIME_EXCEEDED", j))
  BY <1>3 DEF ForwardJobKill
<1>4. ASSUME NEW other, other \notin T, Received(other, j),
             mailbox' = Tail(mailbox) \/ mailbox' = Cancelled(Tail(mailbox), Message("WALLTIME_EXCEEDED", j))
      PROVE  Carries(mailbox', T, j)
  BY <1>1, <1>2, <1>4
<1>5. CASE HandleJobSubmit(j) /\ type # "JOB_SUBMIT"
  BY <1>4, <1>5 DEF HandleJobSubmit
<1>6. CASE HandleSchedulingPoint(j) \/ HandleEvolvingRequest(j)
  BY <1>4, <1>6 DEF HandleSchedulingPoint, HandleEvolvingRequest
<1>7. CASE HandleWalltimeExceeded(j)
  BY <1>3, <1>4, <1>7 DEF HandleWalltimeExceeded
<1>8. CASE HandleProcessedWorkload(j) /\ type # "WORKLOAD_PROCESSED"
  BY <1>4, <1>8 DEF HandleProcessedWorkload
<1>9. CASE DecideKill(j) \/ (\E q \in Allocations : DecideNodes(j, q)) \/ (Answer /\ req = j)
           \/ (Forward /\ Head(scheduled) = j)
  <2>1. mailbox' = mailbox \/ mailbox' = Cancelled(mailbox, Message("WALLTIME_EXCEEDED", j))
    BY <1>3, <1>9 DEF DecideKill, DecideNodes, Answer, Forward
  <2> QED
    BY <1>0, <1>2, <2>1
<1>10. CASE Application(j) \/ WalltimeExceeded(j) \/ ReceiveJobStep(j)
  <2>1. mailbox' = mailbox \/ \E m \in SchedMsg : mailbox' = Append(mailbox, m)
    BY <1>10, MessageTypes DEF Application, AppStarts, AppIterates, AppCompletes, AppRequests,
           WalltimeExceeded, ReceiveJobStep, ReceiveJob
  <2> HIDE DEF T
  <2> QED
    BY <1>0, <2>1, AppendCarries
<1> QED
  BY <1>5, <1>6, <1>7, <1>8, <1>9, <1>10 DEF StepOf, SchedulerStepOf

\* A job that was submitted and is still to be pending is on its way to the scheduler.
OnItsWay(j) ==
  j \in submitted /\ state[j] = "PENDING_SUBMISSION" =>
    Carries(simMailbox, {"SUBMIT_JOB"}, j) \/ Carries(mailbox, {"JOB_SUBMIT"}, j)

\* A job that has done its work has ended, or its end is on its way.
WorkCounts(j) == left[j] = 0 => Carries(mailbox, {"WORKLOAD_PROCESSED"}, j) \/ state[j] \in Final

MailedInv ==
  /\ \A j \in Jobs : OnItsWay(j)
  /\ Undisturbed => \A j \in Jobs : WorkCounts(j)

\* What the steps do to the messages of the engine.
LEMMA StepSimMail ==
  ASSUME TypeOK, [Next]_vars
  PROVE  \/ UNCHANGED <<simMailbox, submitted>>
         \/ /\ submitted' = submitted
            /\ \E j \in Jobs, type \in EndMessages : simMailbox' = Append(simMailbox, Message(type, j))
         \/ /\ submitted' = submitted
            /\ simMailbox # <<>> /\ simMailbox' = Tail(simMailbox)
            /\ \/ Head(simMailbox).type # "SUBMIT_JOB"
               \/ \E j \in Jobs : ReceiveJobStep(j) /\ Head(simMailbox).job = j
         \/ SendNumberOfJobs
         \/ \E j \in Jobs : SubmitJob(j)
<1>1. ASSUME NEW j \in Jobs, SchedulerStepOf(j), UNCHANGED <<left, engineVars>>
      PROVE  \/ UNCHANGED <<simMailbox, submitted>>
             \/ /\ submitted' = submitted
                /\ \E type \in EndMessages : simMailbox' = Append(simMailbox, Message(type, j))
  BY <1>1 DEF SchedulerStepOf, HandleJobSubmit, HandleSchedulingPoint, HandleEvolvingRequest,
       HandleWalltimeExceeded, HandleProcessedWorkload, DecideKill, DecideNodes, Answer, Forward,
       ForwardJobKill, engineVars, EndMessages
<1>2. ASSUME NEW j \in Jobs, Application(j) \/ WalltimeExceeded(j)
      PROVE  UNCHANGED <<simMailbox, submitted>>
  BY <1>2 DEF Application, WalltimeExceeded, engineVars
<1>3. ASSUME NEW j \in Jobs, ReceiveJobStep(j)
      PROVE  /\ submitted' = submitted
             /\ simMailbox # <<>> /\ simMailbox' = Tail(simMailbox) /\ Head(simMailbox).job = j
  BY <1>3 DEF ReceiveJobStep, ReceiveJob, SimReceived, Message
<1>4. CASE EngineStep
  BY <1>4 DEF EngineStep, JobSubmitter, ReceiveNumberOfJobs, SendFinalize, WriteStatistics, ReceiveEnd,
       SimReceived, Message
<1>5. CASE StepOfNone /\ ~EngineStep
  BY <1>5 DEF StepOfNone, HandleInvoke, HandleFinalize, Invoke, EndResponse, EndSchedule, vars,
       engineVars, InvokePeriodically, IntervalElapses
<1> QED
  BY <1>1, <1>2, <1>3, <1>4, <1>5, StepCases DEF StepOf

LEMMA NextOnItsWay ==
  ASSUME BaseInv, [Next]_vars, NEW i \in Jobs, OnItsWay(i)
  PROVE  OnItsWay(i)'
<1> DEFINE SJ == {"SUBMIT_JOB"}
           JS == {"JOB_SUBMIT"}
<1>0. /\ TypeOK /\ ThreadInv(i) /\ Submission(i) /\ JobNodeTypeOK
      /\ mailbox \in Seq(SchedMsg) /\ simMailbox \in Seq(SimMsg)
  BY DEF BaseInv, ControlInv, TypeOK, SchedulerTypeOK
<1>1. \/ i \in submitted' /\ i \notin submitted /\ Carries(simMailbox', SJ, i)
      \/ /\ i \in submitted' => i \in submitted
         /\ Carries(simMailbox, SJ, i) => Carries(simMailbox', SJ, i) \/ ReceiveJobStep(i)
  <2>1. CASE UNCHANGED <<simMailbox, submitted>>
    BY <2>1
  <2>2. ASSUME NEW j \in Jobs, NEW type \in EndMessages, simMailbox' = Append(simMailbox, Message(type, j)),
               submitted' = submitted
        PROVE  Carries(simMailbox, SJ, i) => Carries(simMailbox', SJ, i)
    <3>1. Message(type, j) \in SimMsg
      BY MessageTypes DEF EndMessages
    <3> HIDE DEF SJ
    <3> QED
      BY <1>0, <2>2, <3>1, AppendCarries
  <2>3. ASSUME simMailbox # <<>>, simMailbox' = Tail(simMailbox), submitted' = submitted,
               \/ Head(simMailbox).type \notin SJ
               \/ \E j \in Jobs : ReceiveJobStep(j) /\ Head(simMailbox).job = j
        PROVE  Carries(simMailbox, SJ, i) => Carries(simMailbox', SJ, i) \/ ReceiveJobStep(i)
    <3> HIDE DEF SJ
    <3> QED
      BY <1>0, <2>3, TailCarries
  <2>4. CASE SendNumberOfJobs
    <3>1. Message("NUMBER_OF_JOBS", NoJob) \in SimMsg
      BY MessageTypes
    <3> HIDE DEF SJ
    <3> QED
      BY <1>0, <2>4, <3>1, AppendCarries DEF SendNumberOfJobs, engineVars
  <2>5. ASSUME NEW j \in Jobs, SubmitJob(j)
        PROVE  \/ i \in submitted' /\ i \notin submitted /\ Carries(simMailbox', SJ, i)
               \/ /\ i \in submitted' => i \in submitted
                  /\ Carries(simMailbox, SJ, i) => Carries(simMailbox', SJ, i)
    <3>1. /\ Message("SUBMIT_JOB", j) \in SimMsg
          /\ Message("SUBMIT_JOB", j).type \in SJ /\ Message("SUBMIT_JOB", j).job = j
      BY MessageTypes DEF Message
    <3>2. /\ submitted' = submitted \cup {j} /\ j \notin submitted
          /\ simMailbox' = Append(simMailbox, Message("SUBMIT_JOB", j))
      BY <2>5 DEF SubmitJob
    <3> HIDE DEF SJ
    <3> QED
      BY <1>0, <3>1, <3>2, AppendCarries
  <2> QED
    BY <1>0, <2>1, <2>2, <2>3, <2>4, <2>5, StepSimMail
<1>2. /\ state'[i] = "PENDING_SUBMISSION" => state[i] = "PENDING_SUBMISSION"
      /\ Carries(mailbox, JS, i) => Carries(mailbox', JS, i) \/ state'[i] # "PENDING_SUBMISSION"
      /\ ReceiveJobStep(i) => Carries(mailbox', JS, i)
  <2>1. ReceiveJobStep(i) => Carries(mailbox', JS, i)
    <3>1. Message("JOB_SUBMIT", i) \in SchedMsg /\ Message("JOB_SUBMIT", i).type \in JS
          /\ Message("JOB_SUBMIT", i).job = i
      BY MessageTypes DEF Message
    <3> HIDE DEF JS
    <3> QED
      BY <1>0, <3>1, AppendCarries DEF ReceiveJobStep, ReceiveJob
  <2>2. ASSUME Untouched(i)
        PROVE  /\ state'[i] = state[i]
               /\ Carries(mailbox, JS, i) => Carries(mailbox', JS, i)
    BY <2>2 DEF Untouched, SameJob, SameMail
  <2>3. CASE StepOfNone
    BY <1>0, <2>1, <2>2, <2>3, StepOfNoneTouches
  <2>4. ASSUME NEW j \in Jobs, i # j, StepOf(j)
        PROVE  Untouched(i)
    BY <1>0, <2>4, StepTouchesOne
  <2>5. CASE StepOf(i) /\ HandleJobSubmit(i)
    <3>1. state'[i] = "PENDING"
      BY <1>0, <2>5, SetStateMoves DEF HandleJobSubmit
    <3> QED
      BY <2>1, <3>1
  <2>6. CASE StepOf(i) /\ ~HandleJobSubmit(i)
    BY <1>0, <2>1, <2>6, FirstStateStays, StepTakesMail
  <2> QED
    BY <1>0, <2>1, <2>2, <2>3, <2>4, <2>5, <2>6, StepCases
<1> QED
  BY <1>1, <1>2 DEF OnItsWay

LEMMA NextWorkCounts ==
  ASSUME BaseInv, PlacesInv, [Next]_vars, Undisturbed, NEW i \in Jobs, WorkCounts(i)
  PROVE  WorkCounts(i)'
<1> DEFINE WP == {"WORKLOAD_PROCESSED"}
<1>0. /\ TypeOK /\ ThreadInv(i) /\ Ended(i) /\ JobNodeTypeOK
      /\ mailbox \in Seq(SchedMsg) /\ left \in [Jobs -> Nat]
  BY DEF BaseInv, ControlInv, PlacesInv, TypeOK, SchedulerTypeOK
<1>1. ASSUME left'[i] = left[i], Untouched(i)
      PROVE  WorkCounts(i)'
  BY <1>1 DEF WorkCounts, Untouched, SameJob, SameMail
<1>2. CASE StepOfNone
  <2>1. left' = left
    BY <1>2 DEF StepOfNone, vars, InvokePeriodically, IntervalElapses, EngineStep
  <2> QED
    BY <1>0, <1>1, <1>2, <2>1, StepOfNoneTouches
<1>3. ASSUME NEW j \in Jobs, i # j, StepOf(j)
      PROVE  WorkCounts(i)'
  <2>1. left'[i] = left[i]
    BY <1>0, <1>3 DEF StepOf, Application, AppStarts, AppIterates, AppCompletes, AppRequests,
       WalltimeExceeded, ReceiveJobStep
  <2> QED
    BY <1>0, <1>1, <1>3, <2>1, StepTouchesOne
<1>4. CASE StepOf(i)
  <2>1. state[i] \in Final => state'[i] \in Final
    BY <1>0, <1>4, EndsOnce, ApplicationEndsNothing DEF StepOf
  <2>2. Carries(mailbox, WP, i) => Carries(mailbox', WP, i) \/ state'[i] \in Final
    <3>1. HandleProcessedWorkload(i) => state'[i] \in Final
      BY <1>0, SetStateMoves DEF HandleProcessedWorkload, Final
    <3> QED
      BY <1>0, <1>4, <3>1, StepTakesMail
  <2>3. left'[i] = 0 => left[i] = 0 \/ Carries(mailbox', WP, i)
    <3>1. CASE AppCompletes(i)
      <4>1. /\ Message("WORKLOAD_PROCESSED", i) \in SchedMsg
            /\ Message("WORKLOAD_PROCESSED", i).type \in WP /\ Message("WORKLOAD_PROCESSED", i).job = i
        BY MessageTypes DEF Message
      <4> HIDE DEF WP
      <4> QED
        BY <1>0, <3>1, <4>1, AppendCarries DEF AppCompletes
    <3>2. CASE AppIterates(i)
      <4>1. left'[i] = left[i] - 1 /\ left[i] > 1 /\ left[i] \in Nat
        BY <1>0, <3>2 DEF AppIterates
      <4> QED
        BY <4>1
    <3>3. CASE left' = left
      BY <3>3
    <3> QED
      BY <1>4, <3>1, <3>2, <3>3 DEF StepOf, Application, AppStarts, AppRequests, WalltimeExceeded,
         ReceiveJobStep
  <2> QED
    BY <2>1, <2>2, <2>3 DEF WorkCounts
<1> QED
  BY <1>0, <1>2, <1>3, <1>4, StepCases

\* A job that was submitted is on its way to the scheduler until that knows it; and as long
\* as no kill overtakes a message the work of a job is not done before its end is posted.
THEOREM NothingIsLost == Spec => []MailedInv
<1>1. Init => MailedInv
  <2> SUFFICES ASSUME Init, NEW j \in Jobs PROVE OnItsWay(j) /\ WorkCounts(j)
    BY DEF MailedInv
  <2>1. submitted = {} /\ left[j] \in Nat \ {0}
    BY SchedulerConfiguration DEF Init
  <2> QED
    BY <2>1 DEF OnItsWay, WorkCounts
<1>2. BaseInv /\ PlacesInv /\ MailedInv /\ [Next]_vars => MailedInv'
  BY NextOnItsWay, NextWorkCounts, UndisturbedBefore DEF MailedInv, BaseInv
<1> QED
  BY <1>1, <1>2, BaseIsInvariant, PlacesAreInvariant, PTL DEF Spec

\* The message that ends the scheduler is in its mailbox.
Finalizing == Carries(mailbox, {"SCHEDULER_FINALIZE"}, NoJob)

\* The engine waits for the number of jobs before it takes any, and ends the scheduler after
\* it has taken the end of the last one; both messages are sent once.
EngineInv ==
  /\ engine = "waiting" => submitted = {}
  /\ engine # "waiting" => ~Carries(simMailbox, {"NUMBER_OF_JOBS"}, NoJob)
  /\ Once(simMailbox, {"NUMBER_OF_JOBS"}, NoJob)
  /\ engine \in {"finalizing", "done"} <=> Finalizing \/ pc = "finished"
  /\ engine \in {"finalizing", "done"} => expectedJobs = 0
  /\ engine = "done" \/ pc = "finished" => pc = "finished" /\ ~Finalizing
  /\ Once(mailbox, {"SCHEDULER_FINALIZE"}, NoJob)

\* What the engine asks about its message is whether the message is there.
LEMMA FinalizeQueued ==
  ASSUME mailbox \in Seq(SchedMsg)
  PROVE  Finalizing <=> Queued(mailbox, Message("SCHEDULER_FINALIZE", NoJob))
<1>1. ASSUME NEW i \in DOMAIN mailbox
      PROVE  At(mailbox, i, {"SCHEDULER_FINALIZE"}, NoJob) <=> mailbox[i] = Message("SCHEDULER_FINALIZE", NoJob)
  <2>1. mailbox[i] \in SchedMsg
    BY ElementOfSeq, LenProperties
  <2> QED
    BY <2>1 DEF At, SchedMsg, Message
<1> QED
  BY <1>1 DEF Finalizing, Carries, Queued

\* Steps that leave the engine where it is.
LEMMA EngineAlone ==
  ASSUME EngineInv, Fewer(simMailbox, simMailbox', NoJob), Fewer(mailbox, mailbox', NoJob),
         Finalizing' <=> Finalizing, UNCHANGED <<engine, expectedJobs>>,
         submitted' = submitted \/ engine # "waiting", pc' = "finished" <=> pc = "finished"
  PROVE  EngineInv'
<1>1. /\ Carries(simMailbox', {"NUMBER_OF_JOBS"}, NoJob) => Carries(simMailbox, {"NUMBER_OF_JOBS"}, NoJob)
      /\ Once(simMailbox, {"NUMBER_OF_JOBS"}, NoJob) => Once(simMailbox', {"NUMBER_OF_JOBS"}, NoJob)
      /\ Once(mailbox, {"SCHEDULER_FINALIZE"}, NoJob) => Once(mailbox', {"SCHEDULER_FINALIZE"}, NoJob)
  BY DEF Fewer
<1> QED
  BY <1>1 DEF EngineInv

\* What a step about job j does to the messages about no job that the engine is sent.
LEMMA StepKeepsSimMail ==
  ASSUME TypeOK, NEW j \in Jobs, StepOf(j)
  PROVE  Fewer(simMailbox, simMailbox', NoJob)
<1>0. simMailbox \in Seq(SimMsg) /\ NoJob # j
  BY SchedulerConfiguration DEF TypeOK, SchedulerTypeOK
<1>1. ASSUME NEW m \in SimMsg, m.job # NoJob, simMailbox' = Append(simMailbox, m)
      PROVE  Fewer(simMailbox, simMailbox', NoJob)
  BY <1>0, <1>1, AppendCarries DEF Fewer
<1>2. \A type \in EndMessages : Message(type, j) \in SimMsg /\ Message(type, j).job # NoJob
  BY <1>0, MessageTypes DEF Message, EndMessages
<1>3. simMailbox # <<>> => Fewer(simMailbox, Tail(simMailbox), NoJob)
  BY <1>0, TailCarries
<1>4. Fewer(simMailbox, simMailbox, NoJob)
  BY DEF Fewer
<1>5. \/ simMailbox' = simMailbox
      \/ \E type \in EndMessages : simMailbox' = Append(simMailbox, Message(type, j))
      \/ simMailbox # <<>> /\ simMailbox' = Tail(simMailbox)
  BY DEF StepOf, SchedulerStepOf, HandleJobSubmit, HandleSchedulingPoint, HandleEvolvingRequest,
       HandleWalltimeExceeded, HandleProcessedWorkload, DecideKill, DecideNodes, Answer, Forward,
       ForwardJobKill, EndMessages, Application, WalltimeExceeded, ReceiveJobStep, ReceiveJob, SimReceived
<1> QED
  BY <1>1, <1>2, <1>3, <1>4, <1>5

LEMMA NextEngine ==
  ASSUME TypeOK, EngineInv, [Next]_vars
  PROVE  EngineInv'
<1> DEFINE F == {"SCHEDULER_FINALIZE"}
           N == {"NUMBER_OF_JOBS"}
<1>0. /\ mailbox \in Seq(SchedMsg) /\ simMailbox \in Seq(SimMsg)
      /\ Message("NUMBER_OF_JOBS", NoJob) \in SimMsg
      /\ Message("NUMBER_OF_JOBS", NoJob).type \in N /\ Message("NUMBER_OF_JOBS", NoJob).job = NoJob
      /\ Message("SCHEDULER_FINALIZE", NoJob) \in SchedMsg
      /\ Message("SCHEDULER_FINALIZE", NoJob).type \in F
      /\ Message("SCHEDULER_FINALIZE", NoJob).job = NoJob
      /\ Message("INVOKE_SCHEDULING", NoJob) \in SchedMsg
      /\ Message("INVOKE_SCHEDULING", NoJob).type \notin F
  BY DEF TypeOK, SchedulerTypeOK, Message, SchedMsg, SimMsg
<1>1. Fewer(mailbox, mailbox, NoJob) /\ Fewer(simMailbox, simMailbox, NoJob)
  BY DEF Fewer
<1>2. ASSUME UNCHANGED <<mailbox, simMailbox, engine, expectedJobs, submitted>>,
             pc' = "finished" <=> pc = "finished"
      PROVE  EngineInv'
  BY <1>1, <1>2, EngineAlone DEF Finalizing
<1>3. ASSUME NEW j \in Jobs, StepOf(j)
      PROVE  EngineInv'
  <2>1. /\ UNCHANGED <<engine, expectedJobs>> /\ submitted' = submitted
        /\ pc' = "finished" <=> pc = "finished"
    BY <1>3 DEF StepOf, engineVars, SchedulerStepOf, HandleJobSubmit, HandleSchedulingPoint,
       HandleEvolvingRequest, HandleWalltimeExceeded, HandleProcessedWorkload, Received, Schedule, Return,
       DecideKill, DecideNodes, Answer, Forward, Application, WalltimeExceeded, ReceiveJobStep, ReceiveJob,
       schedulerOnly, scheduleVars
  <2>2. Fewer(mailbox, mailbox', NoJob) /\ (Finalizing' <=> Finalizing)
    BY <1>3, StepKeepsMail DEF SameMail, Fewer, Finalizing
  <2> QED
    BY <1>3, <2>1, <2>2, StepKeepsSimMail, EngineAlone
<1>4. CASE HandleInvoke /\ UNCHANGED engineVars
  <2>1. /\ mailbox # <<>> /\ Head(mailbox).type \notin F /\ mailbox' = Tail(mailbox)
        /\ pc = "idle" /\ pc' # "finished" /\ UNCHANGED simMailbox
    BY <1>4 DEF HandleInvoke, Received, Message, Schedule, Return
  <2> HIDE DEF F
  <2>2. Fewer(mailbox, mailbox', NoJob) /\ (Carries(mailbox', F, NoJob) <=> Carries(mailbox, F, NoJob))
    BY <1>0, <2>1, TailCarries DEF Fewer
  <2> QED
    BY <1>1, <1>4, <2>1, <2>2, EngineAlone DEF Finalizing, F, engineVars
<1>5. CASE HandleFinalize /\ UNCHANGED engineVars
  <2>1. /\ mailbox # <<>> /\ Head(mailbox).type \in F /\ Head(mailbox).job = NoJob
        /\ mailbox' = Tail(mailbox) /\ pc = "idle" /\ pc' = "finished" /\ UNCHANGED simMailbox
    BY <1>5 DEF HandleFinalize, Received, Message
  <2> HIDE DEF F
  <2>2. /\ Carries(mailbox, F, NoJob)
        /\ Once(mailbox, F, NoJob) => ~Carries(mailbox', F, NoJob) /\ Once(mailbox', F, NoJob)
    BY <1>0, <2>1, TailCarries DEF Fewer
  <2> QED
    BY <1>5, <2>1, <2>2 DEF EngineInv, Finalizing, F, engineVars
<1>6. CASE (Invoke \/ EndResponse \/ EndSchedule) /\ UNCHANGED engineVars
  BY <1>2, <1>6 DEF Invoke, EndResponse, EndSchedule, engineVars
<1>7. CASE InvokePeriodically
  <2>1. /\ mailbox' = Append(mailbox, Message("INVOKE_SCHEDULING", NoJob))
        /\ UNCHANGED <<simMailbox, engine, expectedJobs, submitted, pc>>
    BY <1>7 DEF InvokePeriodically, engineVars, schedulerOnly, scheduleVars
  <2>2. /\ Carries(mailbox', F, NoJob) <=> Carries(mailbox, F, NoJob)
        /\ Once(mailbox, F, NoJob) => Once(mailbox', F, NoJob)
    <3> HIDE DEF F
    <3> QED
      BY <1>0, <2>1, AppendCarries
  <2> QED
    BY <2>1, <2>2 DEF EngineInv, Finalizing
<1>8. CASE SendNumberOfJobs /\ UNCHANGED pc
  <2>1. /\ engine = "waiting" /\ ~Submitting
        /\ simMailbox' = Append(simMailbox, Message("NUMBER_OF_JOBS", NoJob))
        /\ UNCHANGED <<mailbox, engine, expectedJobs, submitted, pc>>
    BY <1>8 DEF SendNumberOfJobs, engineVars
  <2>2. ~Carries(simMailbox, N, NoJob)
    BY <2>1 DEF Submitting, Carries, At
  <2>3. Once(simMailbox', N, NoJob)
    <3> HIDE DEF N
    <3> QED
      BY <1>0, <2>1, <2>2, AppendCarries DEF EngineInv, N
  <2> QED
    BY <2>1, <2>3 DEF EngineInv, Finalizing
<1>9. ASSUME NEW j \in Jobs, SubmitJob(j), UNCHANGED pc
      PROVE  EngineInv'
  <2>1. /\ engine # "waiting" /\ simMailbox' = Append(simMailbox, Message("SUBMIT_JOB", j))
        /\ UNCHANGED <<mailbox, engine, expectedJobs, pc>>
    BY <1>9 DEF SubmitJob
  <2>2. Message("SUBMIT_JOB", j) \in SimMsg /\ Message("SUBMIT_JOB", j).job # NoJob
    BY MessageTypes, SchedulerConfiguration DEF Message
  <2>3. Fewer(simMailbox, simMailbox', NoJob)
    BY <1>0, <2>1, <2>2, AppendCarries DEF Fewer
  <2> QED
    BY <1>1, <2>1, <2>3, EngineAlone DEF Finalizing
<1>10. CASE ReceiveNumberOfJobs /\ UNCHANGED pc
  <2>1. /\ engine = "waiting" /\ engine' = "running"
        /\ simMailbox # <<>> /\ Head(simMailbox).type \in N /\ Head(simMailbox).job = NoJob
        /\ simMailbox' = Tail(simMailbox) /\ UNCHANGED <<mailbox, pc>>
    BY <1>10 DEF ReceiveNumberOfJobs, SimReceived, Message
  <2>2. ~Carries(simMailbox', N, NoJob) /\ Once(simMailbox', N, NoJob)
    <3> HIDE DEF N
    <3> QED
      BY <1>0, <2>1, TailCarries DEF Fewer, EngineInv, N
  <2> QED
    BY <2>1, <2>2 DEF EngineInv, Finalizing
<1>11. ASSUME NEW j \in Jobs, NEW type \in EndMessages, ReceiveEnd(type, j), UNCHANGED pc
       PROVE  EngineInv'
  <2>1. /\ engine = "running" /\ UNCHANGED <<engine, mailbox, submitted, pc>>
        /\ simMailbox # <<>> /\ simMailbox' = Tail(simMailbox)
    BY <1>11 DEF ReceiveEnd, Looping, SimReceived
  <2>2. Fewer(simMailbox, simMailbox', NoJob)
    BY <1>0, <2>1, TailCarries
  <2>3. /\ Carries(simMailbox', N, NoJob) => Carries(simMailbox, N, NoJob)
        /\ Once(simMailbox, N, NoJob) => Once(simMailbox', N, NoJob)
    BY <2>2 DEF Fewer
  <2> QED
    BY <2>1, <2>3 DEF EngineInv, Finalizing
<1>12. CASE SendFinalize /\ UNCHANGED pc
  <2>1. /\ engine = "running" /\ expectedJobs = 0 /\ engine' = "finalizing"
        /\ mailbox' = Append(mailbox, Message("SCHEDULER_FINALIZE", NoJob))
        /\ UNCHANGED <<simMailbox, submitted, expectedJobs, pc>>
    BY <1>12 DEF SendFinalize
  <2>2. ~Carries(mailbox, F, NoJob)
    BY <2>1 DEF EngineInv, Finalizing
  <2>3. Carries(mailbox', F, NoJob) /\ Once(mailbox', F, NoJob)
    <3>1. Once(mailbox, F, NoJob)
      BY DEF EngineInv
    <3> HIDE DEF F
    <3> QED
      BY <1>0, <2>1, <2>2, <3>1, AppendCarries
  <2> QED
    BY <2>1, <2>3 DEF EngineInv, Finalizing
<1>13. CASE WriteStatistics /\ UNCHANGED pc
  <2>1. /\ engine = "finalizing" /\ engine' = "done"
        /\ ~Queued(mailbox, Message("SCHEDULER_FINALIZE", NoJob))
        /\ UNCHANGED <<mailbox, simMailbox, submitted, expectedJobs, pc>>
    BY <1>13 DEF WriteStatistics
  <2>2. ~Finalizing
    BY <1>0, <2>1, FinalizeQueued
  <2> QED
    BY <2>1, <2>2 DEF EngineInv, Finalizing
<1>14. CASE StepOfNone
  <2>1. EngineStep \/ IntervalElapses \/ UNCHANGED vars => UNCHANGED pc
    BY DEF EngineStep, IntervalElapses, schedulerOnly, scheduleVars, vars
  <2>2. IntervalElapses \/ UNCHANGED vars => EngineInv'
    BY <1>2, <2>1 DEF IntervalElapses, vars, engineVars
  <2> QED
    BY <1>4, <1>5, <1>6, <1>7, <1>8, <1>9, <1>10, <1>11, <1>12, <1>13, <1>14, <2>1, <2>2
       DEF StepOfNone, EngineStep, JobSubmitter, EndMessages, engineVars
<1> QED
  BY <1>3, <1>14, StepCases

\* The engine waits for the number of jobs first and ends the scheduler last, both once.
THEOREM EngineIsInvariant == Spec => []EngineInv
<1>1. Init => EngineInv
  <2>1. ASSUME Init PROVE EngineInv
    <3>1. mailbox = <<>> /\ simMailbox = <<>> /\ DOMAIN <<>> = {}
      BY <2>1 DEF Init, SchedulerInit
    <3>2. engine = "waiting" /\ submitted = {} /\ pc = "idle"
      BY <2>1 DEF Init, SchedulerInit
    <3> QED
      BY <3>1, <3>2 DEF EngineInv, Finalizing, Carries, Once
  <2> QED
    BY <2>1
<1> QED
  BY <1>1, NextEngine, TypeCorrect, PTL DEF Spec

-----------------------------------------------------------------------------
(* What may stand still.  An actor is ready when it can take a step.       *)

SchedulerReady ==
  \/ pc \in {"invoke", "respond", "answer", "forward"}
  \/ pc = "idle" /\ mailbox # <<>>

ApplicationReady(j) == app[j] = "starting" \/ (app[j] \in {"first", "later"} /\ left[j] > 0)

\* JobSubmitter or SimulationEngine.
SimulationReady ==
  \/ ~Submitting /\ (engine = "waiting" \/ submitted # Jobs)
  \/ engine = "waiting" /\ SimReceived("NUMBER_OF_JOBS", NoJob)
  \/ Looping /\ \E j \in Jobs, type \in EndMessages \cup {"SUBMIT_JOB"} : SimReceived(type, j)
  \/ engine = "running" /\ expectedJobs = 0
  \/ engine = "finalizing" /\ ~Queued(mailbox, Message("SCHEDULER_FINALIZE", NoJob))

AtRest ==
  /\ fault = "none"
  /\ ~SchedulerReady /\ ~SimulationReady
  /\ \A j \in Jobs : ~ApplicationReady(j)

\* The simulation stands still only when a job waits for the algorithm to schedule it, or for
\* an answer that min_scheduling_interval has dropped, or at its end.
RestsForAReason ==
  Undisturbed /\ AtRest =>
    /\ \A j \in Jobs : \/ state[j] \in Final \/ state[j] = "PENDING"
                       \/ Active(j) /\ ~Answered(j)
    /\ (\A j \in Jobs : state[j] \in Final) => engine = "done" /\ pc = "finished"

\* The engine at rest has taken all its messages.
LEMMA EngineAtRest ==
  ASSUME BaseInv, AccountInv, EngineInv, Undisturbed, AtRest
  PROVE  \/ /\ engine = "running" /\ expectedJobs # 0
            /\ simMailbox = <<>> /\ mailbox = <<>> /\ submitted = Jobs /\ pc = "idle"
         \/ engine = "done" /\ pc = "finished" /\ \A j \in Jobs : state[j] \in Final
<1> DEFINE c == Cardinality(EndPlaces(simMailbox))
<1>0. /\ TypeOK /\ mailbox \in Seq(SchedMsg) /\ simMailbox \in Seq(SimMsg)
      /\ pc \in {"idle", "invoke", "respond", "answer", "forward", "finished"}
      /\ engine \in {"waiting", "running", "finalizing", "done"} /\ expectedJobs \in Int
      /\ \A j \in Jobs : Engaged(j)
  BY DEF BaseInv, ControlInv, TypeOK, SchedulerTypeOK, ControlTypeOK
<1>1. /\ IsFiniteSet(EndPlaces(simMailbox)) /\ c \in Nat
      /\ IsFiniteSet(Unfinished) /\ Cardinality(Unfinished) \in Nat
  BY <1>0, EndPlacesFinite, ElastisimConfiguration, FS_Subset, FS_CardinalityType DEF Unfinished
<1>2. pc = "finished" \/ (pc = "idle" /\ mailbox = <<>>)
  BY <1>0 DEF AtRest, SchedulerReady
<1>3. simMailbox # <<>> =>
        /\ 1 \in DOMAIN simMailbox /\ Head(simMailbox) = simMailbox[1] /\ Head(simMailbox) \in SimMsg
  BY <1>0, HeadTailProperties, LenProperties, EmptySeq
<1>4. engine # "waiting"
  <2> SUFFICES ASSUME engine = "waiting" PROVE FALSE
    OBVIOUS
  <2>1. Submitting /\ ~SimReceived("NUMBER_OF_JOBS", NoJob)
    BY DEF AtRest, SimulationReady
  <2>2. simMailbox # <<>>
    BY <2>1 DEF Submitting
  <2>3. EndPlaces(simMailbox) = {}
    BY <1>1, FS_EmptySet DEF AccountInv
  <2>4. simMailbox[1].type \notin EndMessages
    BY <1>3, <2>2, <2>3 DEF EndPlaces
  <2>5. \A j \in Jobs : ~Carries(simMailbox, {"SUBMIT_JOB"}, j)
    BY <1>0 DEF Engaged, EngineInv
  <2>6. simMailbox[1].type # "SUBMIT_JOB"
    BY <1>3, <2>2, <2>5 DEF Carries, At, SimMsg
  <2> QED
    BY <1>3, <2>1, <2>2, <2>4, <2>6 DEF SimReceived, Message, SimMsg, EndMessages
<1>5. expectedJobs = Cardinality(Unfinished) + c
  BY <1>4 DEF AccountInv
<1>6. CASE engine = "running"
  <2>1. pc = "idle" /\ mailbox = <<>>
    BY <1>2, <1>6 DEF EngineInv
  <2>2. expectedJobs > 0
    BY <1>0, <1>1, <1>5, <1>6 DEF AtRest, SimulationReady
  <2>3. Looping
    BY <1>6, <2>1, <2>2 DEF Looping, Queued
  <2>4. simMailbox = <<>>
    <3> SUFFICES ASSUME simMailbox # <<>> PROVE FALSE
      OBVIOUS
    <3>1. simMailbox[1].type # "NUMBER_OF_JOBS"
      BY <1>3, <1>4 DEF EngineInv, Carries, At, SimMsg
    <3>2. \E j \in Jobs, type \in EndMessages \cup {"SUBMIT_JOB"} : Head(simMailbox) = Message(type, j)
      BY <1>3, <3>1 DEF Message, SimMsg, EndMessages
    <3> QED
      BY <2>3, <3>2 DEF AtRest, SimulationReady, SimReceived
  <2>5. ~Submitting
    BY <2>4 DEF Submitting
  <2> QED
    BY <1>6, <2>1, <2>2, <2>4, <2>5 DEF AtRest, SimulationReady
<1>7. CASE engine \in {"finalizing", "done"}
  <2>1. Unfinished = {}
    BY <1>1, <1>5, <1>7, FS_EmptySet DEF EngineInv
  <2>2. Finalizing => mailbox # <<>>
    BY DEF Finalizing, Carries
  <2>3. pc = "finished" /\ ~Finalizing
    BY <1>2, <1>7, <2>2 DEF EngineInv
  <2>4. engine # "finalizing"
    BY <1>0, <2>3, FinalizeQueued DEF AtRest, SimulationReady
  <2> QED
    BY <1>7, <2>1, <2>3, <2>4 DEF Unfinished
<1> QED
  BY <1>0, <1>4, <1>6, <1>7

\* The safety part of StartedJobsEnd and SimulationEnds: as long as no kill overtakes a
\* message, some actor is ready whenever a job is being submitted, started, reconfigured,
\* killed or run, and when the last one has ended until the simulation has.
THEOREM StandsStillToWait == Spec => []RestsForAReason
<1>1. BaseInv /\ PlacesInv /\ AccountInv /\ EngineInv /\ MailedInv /\ DecisionsForwarded => RestsForAReason
  <2> SUFFICES ASSUME BaseInv, PlacesInv, AccountInv, EngineInv, MailedInv, DecisionsForwarded,
                      Undisturbed, AtRest
               PROVE  /\ \A j \in Jobs : \/ state[j] \in Final \/ state[j] = "PENDING"
                                         \/ Active(j) /\ ~Answered(j)
                      /\ (\A j \in Jobs : state[j] \in Final) => engine = "done" /\ pc = "finished"
    BY DEF RestsForAReason
  <2>1. CASE engine = "done" /\ pc = "finished" /\ \A j \in Jobs : state[j] \in Final
    BY <2>1
  <2>2. CASE /\ engine = "running" /\ expectedJobs # 0
             /\ simMailbox = <<>> /\ mailbox = <<>> /\ submitted = Jobs /\ pc = "idle"
    <3>1. \A T : \A j : ~Carries(simMailbox, T, j) /\ ~Carries(mailbox, T, j)
      <4>1. DOMAIN <<>> = {}
        OBVIOUS
      <4> QED
        BY <2>2, <4>1 DEF Carries
    <3>2. ~ \A j \in Jobs : state[j] \in Final
      <4> SUFFICES ASSUME \A j \in Jobs : state[j] \in Final PROVE FALSE
        OBVIOUS
      <4>1. Unfinished = {} /\ EndPlaces(simMailbox) = {}
        <5>1. DOMAIN <<>> = {}
          OBVIOUS
        <5> QED
          BY <2>2, <5>1 DEF Unfinished, EndPlaces
      <4> QED
        BY <2>2, <4>1, FS_EmptySet DEF AccountInv
    <3>3. ASSUME NEW j \in Jobs, state[j] \notin Final, state[j] # "PENDING"
          PROVE  Active(j) /\ ~Answered(j)
      <4>0. /\ TypeOK /\ ThreadInv(j) /\ Goes(j) /\ OnItsWay(j) /\ WorkCounts(j)
            /\ app[j] \in {"none", "starting", "first", "later"}
            /\ left[j] \in Nat /\ state[j] \in JobStates
        BY DEF BaseInv, ControlInv, PlacesInv, MailedInv, TypeOK, JobNodeTypeOK, SchedulerTypeOK, ActorTypeOK
      <4>1. state[j] # "PENDING_SUBMISSION"
        BY <2>2, <3>1, <4>0 DEF OnItsWay
      <4>2. state[j] \notin {"PENDING_ALLOCATION", "PENDING_KILL"}
        BY <2>2 DEF DecisionsForwarded, AtRest
      <4>3. Active(j)
        BY <3>3, <4>0, <4>1, <4>2 DEF Active, JobStates, Final
      <4>4. Started(j)
        BY <4>0, <4>3, ActiveIff
      <4>5. ~Posted(j) /\ ~Asking(j)
        BY <2>2, <3>1 DEF Posted, Asking
      <4>6. left[j] > 0
        BY <3>1, <3>3, <4>0 DEF WorkCounts
      <4>7. app[j] = "none"
        BY <4>0, <4>6 DEF AtRest, ApplicationReady
      <4> QED
        BY <4>0, <4>3, <4>4, <4>5, <4>7 DEF Goes, AtRest
    <3> QED
      BY <3>2, <3>3
  <2> QED
    BY <2>1, <2>2, EngineAtRest
<1> QED
  BY <1>1, BaseIsInvariant, PlacesAreInvariant, AccountIsInvariant, EngineIsInvariant, NothingIsLost,
     NoDecisionIsLeft, PTL
-----------------------------------------------------------------------------
(* Each job is a thread of module JobThread.                               *)

\* The message of job j in a mailbox.
LetterIn(mb, j) ==
  CASE Carries(mb, {"SCHEDULING_POINT"}, j) -> "SCHEDULING_POINT"
    [] Carries(mb, {"EVOLVING_REQUEST"}, j) -> "EVOLVING_REQUEST"
    [] Carries(mb, {"WORKLOAD_PROCESSED"}, j) -> "WORKLOAD_PROCESSED"
    [] OTHER -> "none"

\* What job j has sent and has not been answered: its message, or the request that the scheduler
\* has taken.
Letter(j) ==
  IF ~Asking(j) THEN LetterIn(mailbox, j)
  ELSE IF inv = "INVOKE_SCHEDULING_POINT" THEN "SCHEDULING_POINT" ELSE "EVOLVING_REQUEST"

Thread(j) == INSTANCE JobThread WITH
  thread <- app[j], todo <- left[j], letter <- Letter(j), Works <- {Iterations[j]}

\* A job is started as a thread with its whole workload, goes on as one, and is completed only
\* after that has finished.
ThreadStep(j) ==
  /\ ~Active(j) /\ Active(j)' => Thread(j)!ThreadInit'
  /\ Active(j) /\ Active(j)' => [Thread(j)!ThreadNext]_(Thread(j)!threadVars)
  /\ state[j] # "COMPLETED" /\ state'[j] = "COMPLETED" =>
       Active(j) /\ Letter(j) = "WORKLOAD_PROCESSED" /\ left[j] = 0

AreThreads ==
  [][Undisturbed' /\ fault' = "none" => \A j \in Jobs : Answered(j) => ThreadStep(j)]_vars

LEMMA LetterIsMessage ==
  ASSUME NEW mb, NEW j
  PROVE  /\ ~Carries(mb, AppTypes, j) => LetterIn(mb, j) = "none"
         /\ \A type \in AppTypes :
              Carries(mb, {type}, j) /\ Once(mb, AppTypes, j) => LetterIn(mb, j) = type
<1>1. \A type \in AppTypes : Carries(mb, {type}, j) => Carries(mb, AppTypes, j)
  BY DEF Carries, At
<1>2. ASSUME Once(mb, AppTypes, j), NEW t1 \in AppTypes, NEW t2 \in AppTypes,
             Carries(mb, {t1}, j), Carries(mb, {t2}, j)
      PROVE  t1 = t2
  BY <1>2 DEF Once, Carries, At
<1> QED
  BY <1>1, <1>2 DEF LetterIn, AppTypes

LEMMA LetterStays ==
  ASSUME NEW mb, NEW rest, NEW j,
         \A type \in AppTypes : Carries(rest, {type}, j) <=> Carries(mb, {type}, j)
  PROVE  LetterIn(rest, j) = LetterIn(mb, j)
BY DEF LetterIn, AppTypes

\* The scheduler knows what it was asked until it has answered.
LEMMA InvocationStays ==
  ASSUME TypeOK, [Next]_vars, NEW j \in Jobs, Asking(j)
  PROVE  inv' = inv
<1>1. pc \in {"invoke", "respond", "answer"}
  BY DEF Asking
<1>2. CASE StepOfNone
  BY <1>1, <1>2 DEF StepOfNone, vars, scheduleVars, HandleInvoke, HandleFinalize, Invoke, EndResponse, EndSchedule,
     InvokePeriodically, IntervalElapses, EngineStep, schedulerOnly, Received
<1>3. ASSUME NEW i \in Jobs, StepOf(i)
      PROVE  inv' = inv
  BY <1>1, <1>3 DEF StepOf, SchedulerStepOf, HandleJobSubmit, HandleSchedulingPoint, HandleEvolvingRequest,
     HandleWalltimeExceeded, HandleProcessedWorkload, Received, DecideKill, DecideNodes, Answer, Forward,
     Application, WalltimeExceeded, ReceiveJobStep, schedulerOnly, scheduleVars
<1> QED
  BY <1>2, <1>3, StepCases

LEMMA UntouchedThreads ==
  ASSUME TypeOK, [Next]_vars, NEW i \in Jobs, Untouched(i), left'[i] = left[i]
  PROVE  ThreadStep(i)
<1>1. LetterIn(mailbox', i) = LetterIn(mailbox, i)
  BY LetterStays DEF Untouched, SameMail, Fewer
<1>2. Letter(i)' = Letter(i)
  BY <1>1, InvocationStays DEF Untouched, Letter
<1>3. (Active(i)' <=> Active(i)) /\ state'[i] = state[i] /\ app'[i] = app[i]
  BY DEF Untouched, SameJob, Active
<1> QED
  BY <1>2, <1>3 DEF ThreadStep, Thread!threadVars

\* A job that has not been started has its whole workload before it, and a job that reports
\* the end of its workload has nothing left of it.
Whole(j) == executing[j] = <<>> => left[j] = Iterations[j]
WorkDone(j) == Carries(mailbox, {"WORKLOAD_PROCESSED"}, j) => left[j] = 0
WorkInv == \A j \in Jobs : Whole(j) /\ WorkDone(j)

\* A job that has nodes has nodes ever after.
LEMMA StartedForGood ==
  ASSUME TypeOK, ControlInv, [Next]_vars, NEW i \in Jobs, executing'[i] = <<>>
  PROVE  executing[i] = <<>>
<1>0. /\ executing \in [Jobs -> Seq(Nodes)] /\ ThreadInv(i) /\ JobNodeTypeOK
  BY DEF TypeOK, JobNodeTypeOK, ControlInv
<1>1. CASE StepOfNone
  BY <1>0, <1>1, StepOfNoneTouches DEF Untouched, SameJob
<1>2. ASSUME NEW j \in Jobs, i # j, StepOf(j)
      PROVE  executing[i] = <<>>
  BY <1>2, StepTouchesOne DEF Untouched, SameJob
<1>3. CASE StepOf(i)
  <2>1. \/ executing' = executing
        \/ \E new : SetState(i, new)
    <3>1. ASSUME NEW x, NEW mb, ForwardJobKill(i, x, mb)
          PROVE  executing' = executing \/ \E new : SetState(i, new)
      BY <3>1 DEF ForwardJobKill, jobVars
    <3> QED
      BY <1>3, <3>1 DEF StepOf, SchedulerStepOf, HandleJobSubmit, HandleSchedulingPoint, HandleEvolvingRequest,
         HandleWalltimeExceeded, HandleProcessedWorkload, DecideKill, DecideNodes, Assign, Answer, Forward,
         ForwardJobAllocation, HandleReconfiguration, Continue, jobVars,
         Application, AppStarts, AppIterates, AppCompletes, AppRequests, WalltimeExceeded, ReceiveJobStep, passive
  <2>2. ASSUME NEW new, SetState(i, new)
        PROVE  executing[i] = <<>>
    <3>1. TakesOver(state[i], new) => assigned[i] # <<>>
      BY <1>0 DEF TakesOver, ThreadInv, Lifecycle
    <3> QED
      BY <1>0, <2>2, <3>1 DEF SetState
  <2> QED
    BY <2>1, <2>2
<1> QED
  BY <1>1, <1>2, <1>3, StepCases
LEMMA NextWork ==
  ASSUME TypeOK, ControlInv, [Next]_vars, NEW i \in Jobs, Whole(i), WorkDone(i)
  PROVE  Whole(i)' /\ WorkDone(i)'
<1> DEFINE WP == {"WORKLOAD_PROCESSED"}
<1>0. /\ mailbox \in Seq(SchedMsg) /\ left \in [Jobs -> Nat] /\ ThreadInv(i)
  BY DEF TypeOK, SchedulerTypeOK, ControlInv
<1>1. executing'[i] = <<>> => executing[i] = <<>> /\ app[i] = "none"
  BY <1>0, StartedForGood DEF ThreadInv, Lifecycle
<1>2. ASSUME left'[i] = left[i], Carries(mailbox', WP, i) => Carries(mailbox, WP, i)
      PROVE  Whole(i)' /\ WorkDone(i)'
  BY <1>1, <1>2 DEF Whole, WorkDone
<1>3. ASSUME NEW type \in AppTypes \cup {"WALLTIME_EXCEEDED", "JOB_SUBMIT"}, type # "WORKLOAD_PROCESSED",
             mailbox' = Append(mailbox, Message(type, i))
      PROVE  Carries(mailbox', WP, i) => Carries(mailbox, WP, i)
  <2>1. Message(type, i) \in SchedMsg /\ Message(type, i).type \notin WP
    BY <1>3, MessageTypes DEF Message, AppTypes
  <2> HIDE DEF WP
  <2> QED
    BY <1>0, <1>3, <2>1, AppendCarries
<1>4. CASE StepOfNone
  <2>1. left' = left
    BY <1>4 DEF StepOfNone, vars, InvokePeriodically, IntervalElapses, EngineStep
  <2> QED
    BY <1>2, <1>4, <2>1, StepOfNoneTouches DEF Untouched, SameMail, Fewer
<1>5. ASSUME NEW j \in Jobs, i # j, StepOf(j)
      PROVE  Whole(i)' /\ WorkDone(i)'
  <2>1. left'[i] = left[i]
    BY <1>0, <1>5 DEF StepOf, Application, AppStarts, AppIterates, AppCompletes, AppRequests,
       WalltimeExceeded, ReceiveJobStep
  <2> QED
    BY <1>2, <1>5, <2>1, StepTouchesOne DEF Untouched, SameMail, Fewer
<1>6. CASE SchedulerStepOf(i) /\ UNCHANGED left
  BY <1>2, <1>6, SchedulerStepTakes DEF Fewer
<1>7. CASE AppStarts(i)
  BY <1>2, <1>7 DEF AppStarts
<1>8. CASE AppIterates(i)
  <2>1. app[i] # "none" /\ mailbox' = mailbox /\ left[i] # 0
    BY <1>0, <1>8 DEF AppIterates
  <2> QED
    BY <1>1, <2>1 DEF Whole, WorkDone
<1>9. CASE AppCompletes(i)
  <2>1. app[i] # "none" /\ left'[i] = 0
    BY <1>0, <1>9 DEF AppCompletes
  <2> QED
    BY <1>1, <2>1 DEF Whole, WorkDone
<1>10. ASSUME NEW type \in {"SCHEDULING_POINT", "EVOLVING_REQUEST"}, AppRequests(i, type)
       PROVE  Whole(i)' /\ WorkDone(i)'
  BY <1>2, <1>3, <1>10 DEF AppRequests, AppTypes
<1>11. CASE WalltimeExceeded(i) \/ ReceiveJobStep(i)
  BY <1>2, <1>3, <1>11 DEF WalltimeExceeded, ReceiveJobStep, ReceiveJob
<1> QED
  BY <1>4, <1>5, <1>6, <1>7, <1>8, <1>9, <1>10, <1>11, StepCases DEF StepOf, Application

\* The work of a job is whole until it is started, and done when its end is posted.
LEMMA WorkIsInvariant == Spec => []WorkInv
<1>1. Init => WorkInv
  <2> SUFFICES ASSUME Init, NEW j \in Jobs PROVE Whole(j) /\ WorkDone(j)
    BY DEF WorkInv
  <2>1. mailbox = <<>> /\ DOMAIN <<>> = {} /\ left = Iterations
    BY DEF Init, SchedulerInit
  <2> QED
    BY <2>1 DEF Whole, WorkDone, Carries
<1>2. TypeOK /\ ControlInv /\ WorkInv /\ [Next]_vars => WorkInv'
  BY NextWork DEF WorkInv
<1> QED
  BY <1>1, <1>2, TypeCorrect, ControlIsInvariant, PTL DEF Spec

\* A job that asks is active, and what it asks is its letter.
LEMMA AskersAreActive ==
  ASSUME BaseInv, NEW j \in Jobs, Ended(j)
  PROVE  /\ app[j] # "none" \/ Posted(j) \/ Asking(j) => Active(j)
         /\ \A type \in AppTypes : Carries(mailbox, {type}, j) => Letter(j) = type
         /\ Asking(j) => Letter(j) \in {"SCHEDULING_POINT", "EVOLVING_REQUEST"}
         /\ ~Asking(j) /\ ~Posted(j) => Letter(j) = "none"
<1>0. TypeOK /\ ThreadInv(j)
  BY DEF BaseInv, ControlInv
<1>1. app[j] # "none" \/ Posted(j) \/ Asking(j) => Active(j)
  BY <1>0, ActiveIff DEF ThreadInv, Lifecycle, Started, Ended
<1>2. ASSUME NEW type \in AppTypes, Carries(mailbox, {type}, j)
      PROVE  Letter(j) = type
  <2>1. Posted(j)
    BY <1>2 DEF Posted, Carries, At
  <2> QED
    BY <1>0, <1>2, <2>1, LetterIsMessage DEF Letter, ThreadInv, Alone
<1> QED
  BY <1>1, <1>2, LetterIsMessage DEF Letter, Posted

\* The scheduler's answer to a job.
LEMMA AnswerResumes ==
  ASSUME TypeOK, NEW j \in Jobs, Continue(j) \/ HandleReconfiguration(j), executing[j] # <<>>,
         Letter(j) \in {"SCHEDULING_POINT", "EVOLVING_REQUEST"}, Active(j),
         ~Asking(j)', ~Carries(mailbox', AppTypes, j), left' = left, state[j] \notin Final
  PROVE  ThreadStep(j)
<1>1. app'[j] = "starting"
  BY DEF Continue, HandleReconfiguration, TypeOK, SchedulerTypeOK, ActorTypeOK
<1>2. Letter(j)' = "none"
  BY LetterIsMessage DEF Letter
<1>3. state'[j] # "COMPLETED"
  BY SetStateMoves DEF Continue, HandleReconfiguration, jobVars, Final, TypeOK
<1>4. Thread(j)!Resume
  BY <1>1, <1>2 DEF Thread!Resume
<1> QED
  BY <1>3, <1>4 DEF ThreadStep, Thread!ThreadNext

LEMMA KillIsNoStep ==
  ASSUME TypeOK, NEW j \in Jobs, NEW x, NEW mb, ForwardJobKill(j, x, mb), fault' = "none"
  PROVE  ThreadStep(j)
<1>1. state'[j] = "KILLED"
  BY DEF ForwardJobKill, SetState, TypeOK, JobNodeTypeOK
<1> QED
  BY <1>1 DEF ThreadStep, Active
LEMMA HandlerThreads ==
  ASSUME BaseInv, NEW j \in Jobs, Ended(j), Goes(j), WellTyped(j), Answered(j), WorkDone(j),
         fault' = "none", left' = left, BaseInv',
         \/ HandleJobSubmit(j) \/ HandleSchedulingPoint(j) \/ HandleEvolvingRequest(j)
         \/ HandleWalltimeExceeded(j) \/ HandleProcessedWorkload(j)
  PROVE  ThreadStep(j)
<1>0. /\ TypeOK /\ ThreadInv(j) /\ Submission(j) /\ JobNodeTypeOK
  BY DEF BaseInv, ControlInv, TypeOK
<1>1. CASE HandleJobSubmit(j)
  <2>1. state'[j] = "PENDING"
    BY <1>0, <1>1, SetStateMoves DEF HandleJobSubmit
  <2> QED
    BY <2>1 DEF ThreadStep, Active
<1>2. CASE HandleSchedulingPoint(j)
  <2>1. /\ Carries(mailbox, {"SCHEDULING_POINT"}, j) /\ Posted(j) /\ ~Asking(j)
        /\ ~Carries(Tail(mailbox), AppTypes, j) /\ mailbox' = Tail(mailbox)
    BY <1>0, <1>2, ReceivedCarries DEF HandleSchedulingPoint, Posted, AppTypes, ThreadInv, Alone
  <2>2. Active(j) /\ Letter(j) = "SCHEDULING_POINT"
    BY <2>1, AskersAreActive DEF AppTypes
  <2>3. CASE ScheduleOnSchedulingPoint
    <3>1. Schedule(TRUE, "INVOKE_SCHEDULING_POINT", j) /\ UNCHANGED <<state, app>>
      BY <1>2, <2>3 DEF HandleSchedulingPoint, jobVars, actorVars
    <3>2. Letter(j)' = "SCHEDULING_POINT"
      BY <2>3, <3>1 DEF Answered, Schedule, Throttled, Asking, Waiting, Letter
    <3> QED
      BY <2>2, <3>1, <3>2 DEF ThreadStep, Thread!threadVars
  <2>4. CASE ~ScheduleOnSchedulingPoint
    <3>1. Continue(j) \/ HandleReconfiguration(j)
      BY <1>2, <2>4 DEF HandleSchedulingPoint
    <3>2. ~Asking(j)'
      BY <1>2, <2>4 DEF HandleSchedulingPoint, Schedule, Return, Asking, Waiting
    <3>3. executing[j] # <<>> /\ state[j] \notin Final
      BY <1>0, <2>1 DEF ThreadInv, Lifecycle, Ended
    <3> QED
      BY <1>0, <2>1, <2>2, <3>1, <3>2, <3>3, AnswerResumes
  <2> QED
    BY <2>3, <2>4
<1>3. CASE HandleEvolvingRequest(j)
  <2>1. Carries(mailbox, {"EVOLVING_REQUEST"}, j) /\ Posted(j)
    BY <1>0, <1>3, ReceivedCarries DEF HandleEvolvingRequest, Posted, AppTypes
  <2>2. Active(j) /\ Letter(j) = "EVOLVING_REQUEST"
    BY <2>1, AskersAreActive DEF AppTypes
  <2>3. ~MinInterval
    BY <2>1 DEF Answered, WellTyped
  <2>4. Letter(j)' = "EVOLVING_REQUEST"
    BY <1>3, <2>3 DEF HandleEvolvingRequest, Schedule, Throttled, Asking, Waiting, Letter
  <2>5. UNCHANGED <<state, app>>
    BY <1>3 DEF HandleEvolvingRequest, jobVars, actorVars
  <2> QED
    BY <2>2, <2>4, <2>5 DEF ThreadStep, Thread!threadVars
<1>4. CASE HandleWalltimeExceeded(j)
  BY <1>0, <1>4, KillIsNoStep DEF HandleWalltimeExceeded
<1>5. CASE HandleProcessedWorkload(j)
  <2>1. state'[j] = "COMPLETED"
    BY <1>0, <1>5, SetStateMoves DEF HandleProcessedWorkload
  <2>2. Carries(mailbox, {"WORKLOAD_PROCESSED"}, j) /\ Posted(j)
    BY <1>0, <1>5, ReceivedCarries DEF HandleProcessedWorkload, Posted, AppTypes
  <2>3. Active(j) /\ Letter(j) = "WORKLOAD_PROCESSED" /\ left[j] = 0
    BY <2>2, AskersAreActive DEF AppTypes, WorkDone
  <2> QED
    BY <2>1, <2>3 DEF ThreadStep, Active
<1> QED
  BY <1>1, <1>2, <1>3, <1>4, <1>5

LEMMA ResponseThreads ==
  ASSUME BaseInv, NEW j \in Jobs, Ended(j), Whole(j), fault' = "none", left' = left, BaseInv',
         \/ DecideKill(j) \/ \E q \in Allocations : DecideNodes(j, q)
         \/ Answer /\ req = j
         \/ Forward /\ Head(scheduled) = j
  PROVE  ThreadStep(j)
<1>0. /\ TypeOK /\ ThreadInv(j) /\ JobNodeTypeOK /\ ActorTypeOK /\ TypeOK' /\ ThreadInv(j)'
  BY DEF BaseInv, ControlInv, TypeOK, SchedulerTypeOK
<1>1. CASE DecideKill(j)
  <2>1. state'[j] = "PENDING_KILL" /\ executing' = executing /\ state[j] \notin Final
    BY <1>0, <1>1, KnownEnds DEF DecideKill, SetState, TakesOver, JobNodeTypeOK
  <2>2. UNCHANGED <<app, mailbox, pc, inv, req>>
    BY <1>1 DEF DecideKill, actorVars
  <2>3. Letter(j)' = Letter(j)
    BY <2>2 DEF Letter, Asking
  <2>4. Active(j)' => Active(j)
    BY <1>0, <2>1, ActiveIff DEF Active, Started
  <2> QED
    BY <2>1, <2>2, <2>3, <2>4 DEF ThreadStep, Thread!threadVars
<1>2. ASSUME NEW q \in Allocations, DecideNodes(j, q)
      PROVE  ThreadStep(j)
  <2>1. /\ UNCHANGED <<executing, app, mailbox, pc, inv, req>>
        /\ (state'[j] \in Final) <=> (state[j] \in Final)
        /\ state[j] \in Final => state'[j] = state[j]
    BY <1>0, <1>2, DecideNodesKeeps
  <2>2. Letter(j)' = Letter(j)
    BY <2>1 DEF Letter, Asking
  <2>3. Active(j)' <=> Active(j)
    <3>1. Active(j) <=> Started(j)
      BY <1>0, ActiveIff
    <3>2. Active(j)' <=> Started(j)'
      BY <1>0 DEF TypeOK, JobNodeTypeOK, JobStates, ThreadInv, Lifecycle, Active, Started, Final
    <3> QED
      BY <2>1, <3>1, <3>2 DEF Started
  <2>4. state'[j] = "COMPLETED" => state[j] = "COMPLETED"
    BY <2>1 DEF Final
  <2> QED
    BY <2>1, <2>2, <2>3, <2>4 DEF ThreadStep, Thread!threadVars
<1>3. CASE Answer /\ req = j
  <2>1. Asking(j) /\ ~Asking(j)' /\ ~Posted(j)
    BY <1>0, <1>3 DEF Answer, Asking, TypeOK, SchedulerTypeOK, ControlTypeOK, ThreadInv, Alone
  <2>2. state[j] \notin Final /\ executing[j] # <<>>
    BY <1>0, <2>1 DEF Ended, ThreadInv, Lifecycle
  <2>3. Active(j) /\ Letter(j) \in {"SCHEDULING_POINT", "EVOLVING_REQUEST"}
    BY <2>1, AskersAreActive
  <2>4. CASE ForwardJobKill(j, FALSE, mailbox)
    BY <1>0, <2>4, KillIsNoStep
  <2>5. CASE (Continue(j) \/ HandleReconfiguration(j)) /\ mailbox' = mailbox
    BY <1>0, <2>1, <2>2, <2>3, <2>5, AnswerResumes DEF Posted
  <2> QED
    BY <1>3, <2>4, <2>5 DEF Answer
<1>4. CASE Forward /\ Head(scheduled) = j
  <2>1. ~Asking(j) /\ ~Asking(j)'
    BY <1>4 DEF Forward, Asking
  <2>2. CASE state[j] = "PENDING_ALLOCATION"
    <3>1. ForwardJobAllocation(j) /\ mailbox' = mailbox
      BY <1>4, <2>2 DEF Forward
    <3>2. state'[j] = "RUNNING" /\ app'[j] = "starting"
      BY <1>0, <3>1 DEF ForwardJobAllocation, SetState, JobNodeTypeOK, ActorTypeOK
    <3>3. ~Posted(j) /\ executing[j] = <<>>
      BY <1>0, <2>2 DEF ThreadInv, Lifecycle
    <3>4. Letter(j)' = "none"
      BY <2>1, <3>1, <3>3, LetterIsMessage DEF Letter, Posted
    <3>5. Thread(j)!ThreadInit'
      BY <3>2, <3>3, <3>4 DEF Thread!ThreadInit, Whole
    <3> QED
      BY <2>2, <3>2, <3>5 DEF ThreadStep, Active
  <2>3. CASE state[j] = "PENDING_KILL"
    BY <1>0, <1>4, <2>3, KillIsNoStep DEF Forward
  <2>4. CASE state[j] \notin {"PENDING_ALLOCATION", "PENDING_KILL"}
    <3>1. UNCHANGED <<jobVars, actorVars, mailbox>>
      BY <1>4, <2>4 DEF Forward
    <3>2. Letter(j)' = Letter(j)
      BY <2>1, <3>1 DEF Letter
    <3> QED
      BY <3>1, <3>2 DEF ThreadStep, Active, Thread!threadVars, jobVars, actorVars
  <2> QED
    BY <2>2, <2>3, <2>4
<1> QED
  BY <1>1, <1>2, <1>3, <1>4

LEMMA ActorThreads ==
  ASSUME BaseInv, NEW j \in Jobs, Ended(j), Application(j) \/ WalltimeExceeded(j) \/ ReceiveJobStep(j)
  PROVE  ThreadStep(j)
<1>0. /\ TypeOK /\ ThreadInv(j) /\ JobNodeTypeOK /\ ActorTypeOK /\ mailbox \in Seq(SchedMsg)
      /\ left \in [Jobs -> Nat]
  BY DEF BaseInv, ControlInv, TypeOK, SchedulerTypeOK
<1>1. (Asking(j)' <=> Asking(j)) /\ inv' = inv
  BY DEF Application, WalltimeExceeded, ReceiveJobStep, schedulerOnly, scheduleVars, Asking
<1>2. app[j] # "none" => /\ Active(j) /\ ~Asking(j) /\ ~Posted(j) /\ Letter(j) = "none"
  BY <1>0, AskersAreActive DEF ThreadInv, Alone
<1>3. ASSUME app[j] # "none", NEW type \in AppTypes, mailbox' = Append(mailbox, Message(type, j))
      PROVE  Letter(j)' = type
  <2>1. /\ Message(type, j) \in SchedMsg /\ Message(type, j).type \in AppTypes
        /\ Message(type, j).type \in {type} /\ Message(type, j).job = j
    BY MessageTypes DEF Message, AppTypes
  <2>2. Carries(mailbox', {type}, j)
    BY <1>0, <1>3, <2>1, AppendCarries
  <2>3. Once(mailbox', AppTypes, j)
    BY <1>0, <1>2, <1>3, <2>1, AppendCarries DEF ThreadInv, Alone, Posted
  <2> QED
    BY <1>1, <1>2, <1>3, <2>2, <2>3, LetterIsMessage DEF Letter
<1>4. CASE AppStarts(j)
  <2>1. app[j] # "none" /\ app'[j] = "first" /\ state'[j] = "RUNNING" /\ mailbox' = mailbox /\ left' = left
    BY <1>0, <1>4, SetStateMoves DEF AppStarts, ActorTypeOK
  <2>2. Letter(j)' = Letter(j)
    BY <1>1, <2>1 DEF Letter
  <2>3. Thread(j)!Begin
    BY <1>4, <2>1, <2>2 DEF AppStarts, Thread!Begin
  <2> QED
    BY <1>2, <2>1, <2>3 DEF ThreadStep, Thread!ThreadNext
<1>5. ASSUME UNCHANGED passive, app[j] # "none", Thread(j)!ThreadNext
      PROVE  ThreadStep(j)
  BY <1>2, <1>5 DEF ThreadStep, passive, jobVars
<1>6. CASE AppIterates(j)
  <2>1. Letter(j)' = Letter(j)
    BY <1>1, <1>6 DEF AppIterates, Letter
  <2>2. Thread(j)!Iterate
    BY <1>0, <1>6, <2>1 DEF AppIterates, ActorTypeOK, Thread!Iterate
  <2> QED
    BY <1>5, <1>6, <2>2 DEF AppIterates, Thread!ThreadNext
<1>7. CASE AppCompletes(j)
  <2>1. app[j] # "none" /\ UNCHANGED passive
    BY <1>7 DEF AppCompletes
  <2>2. Letter(j)' = "WORKLOAD_PROCESSED"
    BY <1>3, <1>7, <2>1 DEF AppCompletes, AppTypes
  <2>3. Thread(j)!Finish
    BY <1>0, <1>7, <2>2 DEF AppCompletes, ActorTypeOK, Thread!Finish
  <2> QED
    BY <1>5, <2>1, <2>3 DEF Thread!ThreadNext
<1>8. ASSUME NEW type \in {"SCHEDULING_POINT", "EVOLVING_REQUEST"}, AppRequests(j, type)
      PROVE  ThreadStep(j)
  <2>1. app[j] # "none" /\ UNCHANGED passive
    BY <1>8 DEF AppRequests
  <2>2. Letter(j)' = type
    BY <1>3, <1>8, <2>1 DEF AppRequests, AppTypes
  <2>3. Thread(j)!Ask
    BY <1>0, <1>8, <2>2 DEF AppRequests, ActorTypeOK, Thread!Ask
  <2> QED
    BY <1>5, <2>1, <2>3 DEF Thread!ThreadNext
<1>9. CASE WalltimeExceeded(j) \/ ReceiveJobStep(j)
  <2>1. PICK type \in {"WALLTIME_EXCEEDED", "JOB_SUBMIT"} : mailbox' = Append(mailbox, Message(type, j))
    BY <1>9 DEF WalltimeExceeded, ReceiveJobStep, ReceiveJob
  <2>2. UNCHANGED <<state, executing, app, left>>
    BY <1>9 DEF WalltimeExceeded, ReceiveJobStep, passive, jobVars, actorVars
  <2>3. Message(type, j) \in SchedMsg /\ \A t \in AppTypes : Message(type, j).type \notin {t}
    BY MessageTypes DEF Message, AppTypes
  <2>4. \A t \in AppTypes : Carries(mailbox', {t}, j) <=> Carries(mailbox, {t}, j)
    BY <1>0, <2>1, <2>3, AppendCarries
  <2>5. Letter(j)' = Letter(j)
    BY <1>1, <2>4, LetterStays DEF Letter
  <2> QED
    BY <2>2, <2>5 DEF ThreadStep, Active, Thread!threadVars
<1> QED
  BY <1>4, <1>6, <1>7, <1>8, <1>9 DEF Application

\* What the system does with a job that is not killed over its message is what module JobThread
\* says of one, which the ranks of the job implement: the two levels of the model fit. A job
\* is started with its whole workload and completed with nothing left of it. (Where the
\* minimum interval may drop its request, a job may get no answer.)
THEOREM JobsAreThreads == Spec => AreThreads
<1>1. ASSUME BaseInv, BaseInv', TypesInv, PlacesInv, WorkInv, [Next]_vars, Undisturbed', fault' = "none",
             NEW i \in Jobs, Answered(i)
      PROVE  ThreadStep(i)
  <2>1. /\ TypeOK /\ Ended(i) /\ Goes(i) /\ WellTyped(i) /\ Whole(i) /\ WorkDone(i)
        /\ left \in [Jobs -> Nat]
    BY <1>1, UndisturbedBefore DEF BaseInv, PlacesInv, TypesInv, WorkInv, TypeOK
  <2>2. CASE StepOfNone
    <3>1. left' = left
      BY <2>2 DEF StepOfNone, vars, InvokePeriodically, IntervalElapses, EngineStep
    <3> QED
      BY <1>1, <2>1, <2>2, <3>1, StepOfNoneTouches, UntouchedThreads
  <2>3. ASSUME NEW j \in Jobs, i # j, StepOf(j)
        PROVE  ThreadStep(i)
    <3>1. left'[i] = left[i]
      BY <2>1, <2>3 DEF StepOf, Application, AppStarts, AppIterates, AppCompletes, AppRequests,
         WalltimeExceeded, ReceiveJobStep
    <3> QED
      BY <1>1, <2>1, <2>3, <3>1, StepTouchesOne, UntouchedThreads
  <2>4. CASE StepOf(i)
    BY <1>1, <2>1, <2>4, HandlerThreads, ResponseThreads, ActorThreads DEF StepOf, SchedulerStepOf
  <2> QED
    BY <2>1, <2>2, <2>3, <2>4, <1>1, StepCases
<1>2. /\ BaseInv /\ BaseInv' /\ TypesInv /\ PlacesInv /\ WorkInv /\ [Next]_vars =>
           [Undisturbed' /\ fault' = "none" => \A j \in Jobs : Answered(j) => ThreadStep(j)]_vars
  BY <1>1
<1> QED
  BY <1>2, BaseIsInvariant, PlacesAreInvariant, WorkIsInvariant, PTL DEF Spec, AreThreads
=============================================================================
