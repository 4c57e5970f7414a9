--------------------------- MODULE ElastisimProofs ---------------------------
(***************************************************************************)
(* Theorems of Spec, for all jobs, nodes and configurations the            *)
(* assumptions of JobNode, Scheduler and Elastisim allow.                  *)
(***************************************************************************)
EXTENDS Elastisim, SequenceTheorems, FiniteSetTheorems, TLAPS

-----------------------------------------------------------------------------
(* The operators of JobNode.                                               *)

\* Each operation on one node yields a node.
LEMMA NodeRecords ==
  ASSUME NEW nd \in NodeRecord, NEW j \in Jobs
  PROVE  /\ ExpectJob(nd, j) \in NodeRecord
         /\ RemoveExpectedJob(nd, j) \in NodeRecord
         /\ AllocateJob(nd, j) \in NodeRecord
         /\ CompleteJob(nd, j) \in NodeRecord
BY DEF NodeRecord, NodeStates, ExpectJob, RemoveExpectedJob, AllocateJob, CompleteJob

\* ... and so do the operations on a set of nodes.
LEMMA NodeMaps ==
  ASSUME NEW nds \in [Nodes -> NodeRecord], NEW j \in Jobs, NEW S
  PROVE  /\ Expect(nds, S, j) \in [Nodes -> NodeRecord]
         /\ RemoveExpected(nds, S, j) \in [Nodes -> NodeRecord]
         /\ Allocate(nds, S, j) \in [Nodes -> NodeRecord]
         /\ Complete(nds, S, j) \in [Nodes -> NodeRecord]
BY NodeRecords DEF Expect, RemoveExpected, Allocate, Complete

\* Job::setState is type-correct, on the job and on the nodes.
LEMMA SetStateType ==
  ASSUME JobNodeTypeOK, NEW j \in Jobs, NEW new \in JobStates,
         NEW nds \in [Nodes -> NodeRecord]
  PROVE  /\ NodesAfterSetState(nds, j, new) \in [Nodes -> NodeRecord]
         /\ NodesTouchedBySetState(j, new) \subseteq Nodes
         /\ SetState(j, new) => /\ state' \in [Jobs -> JobStates]
                                /\ executing' \in [Jobs -> Seq(Nodes)]
                                /\ modifiedJobs' \subseteq Jobs
<1>1. Assigned(j) \subseteq Nodes
  BY RangeOfSeq DEF Assigned, JobNodeTypeOK
<1>2. NodesAfterSetState(nds, j, new) \in [Nodes -> NodeRecord]
  BY NodeMaps DEF NodesAfterSetState
<1>3. NodesTouchedBySetState(j, new) \subseteq Nodes
  BY <1>1 DEF NodesTouchedBySetState
<1>4. ASSUME SetState(j, new)
      PROVE  /\ state' \in [Jobs -> JobStates]
             /\ executing' \in [Jobs -> Seq(Nodes)]
             /\ modifiedJobs' \subseteq Jobs
  BY <1>4 DEF SetState, AddModifiedJob, JobNodeTypeOK
<1> QED
  BY <1>2, <1>3, <1>4

\* Applying one decision of the algorithm is type-correct.
LEMMA AssignType ==
  ASSUME JobNodeTypeOK, NEW j \in Jobs, NEW q \in Seq(Nodes), Assign(j, q)
  PROVE  JobNodeTypeOK'
<1>1. Assigned(j) \subseteq Nodes /\ Range(q) \subseteq Nodes
  BY RangeOfSeq DEF Assigned, JobNodeTypeOK
<1>2. UpdatedState(state[j], q, executing[j]) \in JobStates
  BY DEF UpdatedState, JobNodeTypeOK, JobStates
<1>3. /\ assigned' \in [Jobs -> Seq(Nodes)]
      /\ state' \in [Jobs -> JobStates]
      /\ executing' \in [Jobs -> Seq(Nodes)]
      /\ modifiedJobs' \subseteq Jobs
  BY <1>2 DEF Assign, JobNodeTypeOK
<1>4. RemoveExpected(node, Assigned(j), j) \in [Nodes -> NodeRecord]
  BY NodeMaps DEF JobNodeTypeOK
<1>5. node' \in [Nodes -> NodeRecord]
  BY <1>4, NodeMaps DEF Assign
<1>6. modifiedNodes' \subseteq Nodes
  BY <1>1 DEF Assign, JobNodeTypeOK
<1> QED
  BY <1>3, <1>5, <1>6 DEF JobNodeTypeOK

-----------------------------------------------------------------------------
(* The operators of Scheduler.                                             *)

LEMMA MessageTypes ==
  ASSUME NEW j \in Jobs
  PROVE  /\ \A type \in {"JOB_SUBMIT", "SCHEDULING_POINT", "EVOLVING_REQUEST",
                       "WALLTIME_EXCEEDED", "WORKLOAD_PROCESSED"} : Message(type, j) \in SchedMsg
         /\ \A type \in {"INVOKE_SCHEDULING", "SCHEDULER_FINALIZE"} :
              Message(type, NoJob) \in SchedMsg
         /\ \A type \in {"SUBMIT_JOB", "JOB_COMPLETED", "JOB_KILLED"} : Message(type, j) \in SimMsg
         /\ Message("NUMBER_OF_JOBS", NoJob) \in SimMsg
BY DEF Message, SchedMsg, SimMsg

\* Taking a message out of a mailbox leaves a mailbox.
LEMMA CancelledType ==
  ASSUME NEW S, NEW mb \in Seq(S), NEW m
  PROVE  Cancelled(mb, m) \in Seq(S)
<1>1. CASE ~Queued(mb, m)
  BY <1>1 DEF Cancelled
<1>2. CASE Queued(mb, m)
  <2> DEFINE i == CHOOSE i \in DOMAIN mb : mb[i] = m
  <2>1. i \in DOMAIN mb
    BY <1>2 DEF Queued
  <2>2. DOMAIN mb = 1 .. Len(mb) /\ Len(mb) \in Nat
    BY LenProperties
  <2> HIDE DEF i
  <2>3. SubSeq(mb, 1, i - 1) \in Seq(S)
    BY <2>1, <2>2, SubSeqProperties, ElementOfSeq
  <2>4. SubSeq(mb, i + 1, Len(mb)) \in Seq(S)
    BY <2>1, <2>2, SubSeqProperties, ElementOfSeq
  <2>5. SubSeq(mb, 1, i - 1) \o SubSeq(mb, i + 1, Len(mb)) \in Seq(S)
    BY <2>3, <2>4, ConcatProperties
  <2> QED
    BY <1>2, <2>5 DEF Cancelled, i
<1> QED
  BY <1>1, <1>2

\* Scheduler::schedule up to the invocation.
LEMMA ScheduleType ==
  ASSUME ControlTypeOK, NEW wanted, NEW type \in InvocationTypes, NEW j \in Jobs \cup {NoJob},
         type \in Waiting => j \in Jobs, Schedule(wanted, type, j)
  PROVE  ControlTypeOK'
BY DEF ControlTypeOK, Schedule, Return, InvocationTypes, Waiting

LEMMA ReturnType ==
  ASSUME ControlTypeOK, Return
  PROVE  ControlTypeOK'
BY DEF ControlTypeOK, Return, InvocationTypes, Waiting

LEMMA ForwardJobKillType ==
  ASSUME JobNodeTypeOK, SchedulerTypeOK, NEW j \in Jobs, NEW exceeded, NEW mb \in Seq(SchedMsg),
         ForwardJobKill(j, exceeded, mb)
  PROVE  /\ JobNodeTypeOK' /\ ActorTypeOK'
         /\ mailbox' \in Seq(SchedMsg) /\ simMailbox' \in Seq(SimMsg)
         /\ fault' \in Faults /\ overtaken' \subseteq Jobs
<1>1. CASE NoActor(j, exceeded)
  BY <1>1 DEF ForwardJobKill, JobNodeTypeOK, SchedulerTypeOK, ActorTypeOK, Faults,
              jobVars, nodeVars, actorVars
<1>2. CASE ~NoActor(j, exceeded)
  <2> USE <1>2
  <2>1. "KILLED" \in JobStates
    BY DEF JobStates
  <2>2. Complete(node, Executing(j), j) \in [Nodes -> NodeRecord]
    BY NodeMaps DEF JobNodeTypeOK
  <2>3. node' \in [Nodes -> NodeRecord]
    BY <2>1, <2>2, SetStateType DEF ForwardJobKill
  <2>4. Executing(j) \subseteq Nodes
    BY RangeOfSeq DEF Executing, JobNodeTypeOK
  <2>5. modifiedNodes' \subseteq Nodes
    BY <2>1, <2>2, <2>4, SetStateType DEF ForwardJobKill, JobNodeTypeOK
  <2>6. /\ state' \in [Jobs -> JobStates]
        /\ executing' \in [Jobs -> Seq(Nodes)]
        /\ modifiedJobs' \subseteq Jobs
    BY <2>1, <2>2, SetStateType DEF ForwardJobKill
  <2>7. JobNodeTypeOK'
    BY <2>3, <2>5, <2>6 DEF ForwardJobKill, JobNodeTypeOK
  <2>8. ActorTypeOK'
    <3>1. app' \in [Jobs -> {"none", "starting", "first", "later"}]
      BY DEF ForwardJobKill, SchedulerTypeOK, ActorTypeOK
    <3>2. monitor' = monitor \/ monitor' = [monitor EXCEPT ![j] = "ended"]
      BY DEF ForwardJobKill
    <3>3. monitor' \in [Jobs -> {"none", "armed", "ended"}]
      BY <3>2 DEF SchedulerTypeOK, ActorTypeOK
    <3>4. UNCHANGED done
      BY DEF ForwardJobKill
    <3> QED
      BY <3>1, <3>3, <3>4 DEF SchedulerTypeOK, ActorTypeOK
  <2>9. mailbox' \in Seq(SchedMsg)
    BY CancelledType DEF ForwardJobKill
  <2>10. simMailbox' \in Seq(SimMsg)
    <3>1. Message("JOB_KILLED", j) \in SimMsg
      BY MessageTypes
    <3>2. simMailbox' = Append(simMailbox, Message("JOB_KILLED", j))
      BY DEF ForwardJobKill
    <3> QED
      BY <3>1, <3>2, AppendProperties DEF SchedulerTypeOK
  <2>11. fault' \in Faults /\ overtaken' \subseteq Jobs
    BY DEF ForwardJobKill, SchedulerTypeOK
  <2> QED
    BY <2>7, <2>8, <2>9, <2>10, <2>11
<1> QED
  BY <1>1, <1>2

LEMMA ForwardJobAllocationType ==
  ASSUME JobNodeTypeOK, SchedulerTypeOK, NEW j \in Jobs, ForwardJobAllocation(j)
  PROVE  JobNodeTypeOK' /\ ActorTypeOK' /\ fault' \in Faults
<1>1. CASE MayAllocateAll(node, assigned[j])
  <2> USE <1>1
  <2>1. "RUNNING" \in JobStates
    BY DEF JobStates
  <2>2. /\ state' \in [Jobs -> JobStates]
        /\ executing' \in [Jobs -> Seq(Nodes)]
        /\ modifiedJobs' \subseteq Jobs
    BY <2>1, SetStateType DEF ForwardJobAllocation, JobNodeTypeOK
  <2>3. node' \in [Nodes -> NodeRecord]
    <3>1. Allocate(node, Assigned(j), j) \in [Nodes -> NodeRecord]
      BY NodeMaps DEF JobNodeTypeOK
    <3> QED
      BY <3>1 DEF ForwardJobAllocation
  <2>4. modifiedNodes' \subseteq Nodes
    BY RangeOfSeq DEF ForwardJobAllocation, Assigned, JobNodeTypeOK
  <2>5. JobNodeTypeOK'
    BY <2>2, <2>3, <2>4 DEF ForwardJobAllocation, JobNodeTypeOK
  <2>6. ActorTypeOK' /\ fault' \in Faults
    BY DEF ForwardJobAllocation, SchedulerTypeOK, ActorTypeOK
  <2> QED
    BY <2>5, <2>6
<1>2. CASE ~MayAllocateAll(node, assigned[j])
  BY <1>2 DEF ForwardJobAllocation, JobNodeTypeOK, SchedulerTypeOK, ActorTypeOK, Faults,
              jobVars, nodeVars, actorVars
<1> QED
  BY <1>1, <1>2

LEMMA HandleReconfigurationType ==
  ASSUME JobNodeTypeOK, SchedulerTypeOK, NEW j \in Jobs, HandleReconfiguration(j)
  PROVE  JobNodeTypeOK' /\ ActorTypeOK'
<1> DEFINE unreserved == NodesAfterSetState(node, j, "IN_RECONFIGURATION")
<1>1. "IN_RECONFIGURATION" \in JobStates
  BY DEF JobStates
<1>2. /\ state' \in [Jobs -> JobStates]
      /\ executing' \in [Jobs -> Seq(Nodes)]
      /\ modifiedJobs' \subseteq Jobs
  BY <1>1, SetStateType DEF HandleReconfiguration, JobNodeTypeOK
<1>3. unreserved \in [Nodes -> NodeRecord]
  BY <1>1, SetStateType DEF JobNodeTypeOK
<1>4. Allocate(unreserved, Assigned(j) \ Executing(j), j) \in [Nodes -> NodeRecord]
  BY <1>3, NodeMaps
<1>5. node' \in [Nodes -> NodeRecord]
  BY <1>4, NodeMaps DEF HandleReconfiguration
<1>6. Assigned(j) \subseteq Nodes /\ Executing(j) \subseteq Nodes
  BY RangeOfSeq DEF Assigned, Executing, JobNodeTypeOK
<1>7. modifiedNodes' \subseteq Nodes
  BY <1>6 DEF HandleReconfiguration, JobNodeTypeOK
<1>8. JobNodeTypeOK'
  BY <1>2, <1>5, <1>7 DEF HandleReconfiguration, JobNodeTypeOK
<1>9. ActorTypeOK'
  BY DEF HandleReconfiguration, SchedulerTypeOK, ActorTypeOK
<1> QED
  BY <1>8, <1>9

LEMMA ContinueType ==
  ASSUME JobNodeTypeOK, SchedulerTypeOK, NEW j \in Jobs, Continue(j)
  PROVE  JobNodeTypeOK' /\ ActorTypeOK'
BY DEF Continue, JobNodeTypeOK, SchedulerTypeOK, ActorTypeOK, jobVars, nodeVars

-----------------------------------------------------------------------------
(* Type correctness, one lemma per actor.                                  *)

LEMMA InitType == Init => TypeOK
<1> SUFFICES ASSUME Init PROVE TypeOK
  OBVIOUS
<1>1. JobNodeTypeOK
  BY DEF Init, JobInit, NodeInit, JobNodeTypeOK, JobStates, NodeRecord, NodeStates
<1>2. ControlTypeOK /\ ActorTypeOK
  BY DEF Init, SchedulerInit, ControlTypeOK, ActorTypeOK, InvocationTypes, Waiting
<1>3. SchedulerTypeOK
  BY <1>2, SchedulerConfiguration DEF Init, SchedulerInit, SchedulerTypeOK, JobStates, NodeView,
                                      NodeStates, Faults
<1> QED
  BY <1>1, <1>3, SchedulerConfiguration DEF Init, TypeOK

\* The responses of the scheduler: SchedulingInterface::schedule.
LEMMA RespondType ==
  ASSUME TypeOK, Invoke \/ Respond
  PROVE  JobNodeTypeOK' /\ SchedulerTypeOK'
<1> USE DEF TypeOK
<1>1. CASE Invoke
  <2>1. JobNodeTypeOK'
    BY <1>1 DEF Invoke, JobNodeTypeOK
  <2>2. ControlTypeOK' /\ ActorTypeOK'
    BY <1>1 DEF Invoke, SchedulerTypeOK, ControlTypeOK, ActorTypeOK, actorVars
  <2>3. seen' \in [Jobs -> JobStates] /\ seenNode' \in [Nodes -> NodeView]
    BY <1>1 DEF Invoke, JobNodeTypeOK, SchedulerTypeOK, NodeRecord, NodeView
  <2>4. seenDone' \in [Jobs -> Int]
    BY <1>1 DEF Invoke, SchedulerTypeOK, ActorTypeOK
  <2> QED
    BY <1>1, <2>1, <2>2, <2>3, <2>4 DEF Invoke, SchedulerTypeOK
<1>2. ASSUME NEW j \in Jobs, NEW q \in Allocations, DecideNodes(j, q)
      PROVE  JobNodeTypeOK' /\ SchedulerTypeOK'
  <2>1. q \in Seq(Nodes)
    BY SchedulerConfiguration
  <2>2. CASE MayAssign(j, q)
    <3>1. Assign(j, q) /\ Named(j) /\ UNCHANGED fault
      BY <1>2, <2>2 DEF DecideNodes
    <3>2. JobNodeTypeOK'
      BY <2>1, <3>1, AssignType
    <3>3. scheduled' \in Seq(Jobs) /\ decided' \subseteq Jobs
      BY <3>1, AppendProperties DEF Named, SchedulerTypeOK, ControlTypeOK
    <3>4. ControlTypeOK' /\ ActorTypeOK'
      BY <1>2, <3>3 DEF DecideNodes, SchedulerTypeOK, ControlTypeOK, ActorTypeOK, actorVars
    <3> QED
      BY <1>2, <3>1, <3>2, <3>4 DEF DecideNodes, SchedulerTypeOK, viewVars
  <2>3. CASE ~MayAssign(j, q)
    <3>1. fault' = "reservation" /\ UNCHANGED <<jobVars, nodeVars, scheduled, decided>>
      BY <1>2, <2>3 DEF DecideNodes
    <3>2. JobNodeTypeOK'
      BY <3>1 DEF JobNodeTypeOK, jobVars, nodeVars
    <3>3. ControlTypeOK' /\ ActorTypeOK'
      BY <1>2, <3>1 DEF DecideNodes, SchedulerTypeOK, ControlTypeOK, ActorTypeOK, actorVars
    <3> QED
      BY <1>2, <3>1, <3>2, <3>3 DEF DecideNodes, SchedulerTypeOK, viewVars, Faults
  <2> QED
    BY <2>2, <2>3
<1>3. ASSUME NEW j \in Jobs, DecideKill(j)
      PROVE  JobNodeTypeOK' /\ SchedulerTypeOK'
  <2>1. "PENDING_KILL" \in JobStates
    BY DEF JobStates
  <2>2. JobNodeTypeOK'
    BY <1>3, <2>1, SetStateType DEF DecideKill, JobNodeTypeOK, nodeVars
  <2>3. scheduled' \in Seq(Jobs) /\ decided' \subseteq Jobs
    BY <1>3, AppendProperties DEF DecideKill, Named, SchedulerTypeOK, ControlTypeOK
  <2>4. ControlTypeOK' /\ ActorTypeOK'
    BY <1>3, <2>3 DEF DecideKill, SchedulerTypeOK, ControlTypeOK, ActorTypeOK, actorVars
  <2> QED
    BY <1>3, <2>2, <2>4 DEF DecideKill, SchedulerTypeOK, viewVars
<1>4. CASE EndResponse
  <2>1. JobNodeTypeOK'
    BY <1>4 DEF EndResponse, JobNodeTypeOK, jobVars, nodeVars
  <2>2. ControlTypeOK' /\ ActorTypeOK'
    BY <1>4 DEF EndResponse, SchedulerTypeOK, ControlTypeOK, ActorTypeOK, actorVars
  <2> QED
    BY <1>4, <2>1, <2>2 DEF EndResponse, SchedulerTypeOK, viewVars
<1> QED
  BY <1>1, <1>2, <1>3, <1>4 DEF Respond

\* The answer to the waiting job and the loop over the decided jobs.
LEMMA ForwardType ==
  ASSUME TypeOK, Answer \/ Forward \/ EndSchedule
  PROVE  JobNodeTypeOK' /\ SchedulerTypeOK'
<1> USE DEF TypeOK
<1>1. CASE Answer
  <2>1. req \in Jobs /\ mailbox \in Seq(SchedMsg)
    BY <1>1 DEF Answer, SchedulerTypeOK, ControlTypeOK
  <2>2. ControlTypeOK'
    BY <1>1 DEF Answer, SchedulerTypeOK, ControlTypeOK
  <2>3. UNCHANGED <<seen, seenDone, seenNode, recent>>
    BY <1>1 DEF Answer, viewVars
  <2>4. CASE state[req] = "PENDING_KILL"
    <3>1. ForwardJobKill(req, FALSE, mailbox)
      BY <1>1, <2>4 DEF Answer
    <3> QED
      BY <2>1, <2>2, <2>3, <3>1, ForwardJobKillType DEF SchedulerTypeOK
  <2>5. CASE state[req] = "PENDING_RECONFIGURATION"
    <3>1. HandleReconfiguration(req) /\ UNCHANGED <<mailbox, simMailbox, fault, overtaken>>
      BY <1>1, <2>5 DEF Answer
    <3> QED
      BY <2>1, <2>2, <2>3, <3>1, HandleReconfigurationType DEF SchedulerTypeOK
  <2>6. CASE state[req] \notin {"PENDING_KILL", "PENDING_RECONFIGURATION"}
    <3>1. Continue(req) /\ UNCHANGED <<mailbox, simMailbox, fault, overtaken>>
      BY <1>1, <2>6 DEF Answer
    <3> QED
      BY <2>1, <2>2, <2>3, <3>1, ContinueType DEF SchedulerTypeOK
  <2> QED
    BY <2>4, <2>5, <2>6
<1>2. CASE Forward
  <2> DEFINE j == Head(scheduled)
  <2>1. j \in Jobs /\ Tail(scheduled) \in Seq(Jobs) /\ mailbox \in Seq(SchedMsg)
    BY <1>2, HeadTailProperties DEF Forward, SchedulerTypeOK, ControlTypeOK
  <2>2. ControlTypeOK'
    BY <1>2, <2>1 DEF Forward, SchedulerTypeOK, ControlTypeOK
  <2>3. UNCHANGED <<seen, seenDone, seenNode, recent>>
    BY <1>2 DEF Forward, viewVars
  <2>4. CASE state[j] = "PENDING_ALLOCATION"
    <3>1. ForwardJobAllocation(j) /\ UNCHANGED <<mailbox, simMailbox, overtaken>>
      BY <1>2, <2>4 DEF Forward
    <3> QED
      BY <2>1, <2>2, <2>3, <3>1, ForwardJobAllocationType DEF SchedulerTypeOK
  <2>5. CASE state[j] = "PENDING_KILL"
    <3>1. ForwardJobKill(j, FALSE, mailbox)
      BY <1>2, <2>5 DEF Forward
    <3> HIDE DEF j
    <3> QED
      BY <2>1, <2>2, <2>3, <3>1, ForwardJobKillType DEF SchedulerTypeOK
  <2>6. CASE state[j] \notin {"PENDING_ALLOCATION", "PENDING_KILL"}
    <3>1. UNCHANGED <<jobVars, nodeVars, mailbox, simMailbox, actorVars, fault, overtaken>>
      BY <1>2, <2>6 DEF Forward
    <3>2. JobNodeTypeOK' /\ ActorTypeOK'
      BY <3>1 DEF JobNodeTypeOK, SchedulerTypeOK, ActorTypeOK, jobVars, nodeVars, actorVars
    <3> QED
      BY <2>2, <2>3, <3>1, <3>2 DEF SchedulerTypeOK
  <2> QED
    BY <2>4, <2>5, <2>6
<1>3. CASE EndSchedule
  <2>1. JobNodeTypeOK' /\ ActorTypeOK'
    BY <1>3 DEF EndSchedule, JobNodeTypeOK, SchedulerTypeOK, ActorTypeOK, jobVars, nodeVars, actorVars
  <2>2. ControlTypeOK'
    BY <1>3 DEF EndSchedule, SchedulerTypeOK, ControlTypeOK
  <2> QED
    BY <1>3, <2>1, <2>2, SchedulerConfiguration DEF EndSchedule, SchedulerTypeOK, viewVars
<1> QED
  BY <1>1, <1>2, <1>3

\* The handlers of the messages.
LEMMA HandleMessageType ==
  ASSUME TypeOK, HandleMessage
  PROVE  JobNodeTypeOK' /\ SchedulerTypeOK'
<1> USE DEF TypeOK
<1>1. mailbox # <<>> /\ Tail(mailbox) \in Seq(SchedMsg)
  <2>1. mailbox # <<>>
    BY DEF HandleMessage, HandleInvoke, HandleJobSubmit, HandleSchedulingPoint,
           HandleEvolvingRequest, HandleWalltimeExceeded, HandleProcessedWorkload,
           HandleFinalize, Received
  <2> QED
    BY <2>1, HeadTailProperties DEF SchedulerTypeOK
<1>2. CASE HandleInvoke
  <2>1. JobNodeTypeOK' /\ ActorTypeOK'
    BY <1>2 DEF HandleInvoke, JobNodeTypeOK, SchedulerTypeOK, ActorTypeOK, jobVars, nodeVars, actorVars
  <2>2. ControlTypeOK'
    BY <1>2, ScheduleType DEF HandleInvoke, SchedulerTypeOK, InvocationTypes, Waiting
  <2> QED
    BY <1>1, <1>2, <2>1, <2>2 DEF HandleInvoke, SchedulerTypeOK, viewVars
<1>3. ASSUME NEW j \in Jobs, HandleJobSubmit(j)
      PROVE  JobNodeTypeOK' /\ SchedulerTypeOK'
  <2>1. "PENDING" \in JobStates
    BY DEF JobStates
  <2>2. JobNodeTypeOK' /\ ActorTypeOK'
    BY <1>3, <2>1, SetStateType DEF HandleJobSubmit, JobNodeTypeOK, SchedulerTypeOK, ActorTypeOK,
                                    nodeVars, actorVars
  <2>3. ControlTypeOK'
    BY <1>3, ScheduleType DEF HandleJobSubmit, SchedulerTypeOK, InvocationTypes, Waiting
  <2> QED
    BY <1>1, <1>3, <2>2, <2>3 DEF HandleJobSubmit, SchedulerTypeOK, viewVars
<1>4. ASSUME NEW j \in Jobs, HandleSchedulingPoint(j)
      PROVE  JobNodeTypeOK' /\ SchedulerTypeOK'
  <2>1. CASE ScheduleOnSchedulingPoint
    <3>1. /\ Schedule(TRUE, "INVOKE_SCHEDULING_POINT", j)
          /\ UNCHANGED <<jobVars, nodeVars, actorVars>>
      BY <1>4, <2>1 DEF HandleSchedulingPoint
    <3>2. JobNodeTypeOK' /\ ActorTypeOK'
      BY <3>1 DEF JobNodeTypeOK, SchedulerTypeOK, ActorTypeOK, jobVars, nodeVars, actorVars
    <3>3. ControlTypeOK'
      BY <3>1, ScheduleType DEF SchedulerTypeOK, InvocationTypes
    <3> QED
      BY <1>1, <1>4, <3>2, <3>3 DEF HandleSchedulingPoint, SchedulerTypeOK, viewVars
  <2>2. CASE ~ScheduleOnSchedulingPoint /\ state[j] = "PENDING_RECONFIGURATION"
    <3>1. /\ HandleReconfiguration(j)
          /\ Schedule(ScheduleOnReconfiguration, "INVOKE_RECONFIGURATION", j)
      BY <1>4, <2>2 DEF HandleSchedulingPoint
    <3>2. JobNodeTypeOK' /\ ActorTypeOK'
      BY <3>1, HandleReconfigurationType
    <3>3. ControlTypeOK'
      BY <3>1, ScheduleType DEF SchedulerTypeOK, InvocationTypes
    <3> QED
      BY <1>1, <1>4, <3>2, <3>3 DEF HandleSchedulingPoint, SchedulerTypeOK, viewVars
  <2>3. CASE ~ScheduleOnSchedulingPoint /\ state[j] # "PENDING_RECONFIGURATION"
    <3>1. Continue(j) /\ Return
      BY <1>4, <2>3 DEF HandleSchedulingPoint
    <3>2. JobNodeTypeOK' /\ ActorTypeOK'
      BY <3>1, ContinueType
    <3>3. ControlTypeOK'
      BY <3>1, ReturnType DEF SchedulerTypeOK
    <3> QED
      BY <1>1, <1>4, <3>2, <3>3 DEF HandleSchedulingPoint, SchedulerTypeOK, viewVars
  <2> QED
    BY <2>1, <2>2, <2>3
<1>5. ASSUME NEW j \in Jobs, HandleEvolvingRequest(j)
      PROVE  JobNodeTypeOK' /\ SchedulerTypeOK'
  <2>1. JobNodeTypeOK' /\ ActorTypeOK'
    BY <1>5 DEF HandleEvolvingRequest, JobNodeTypeOK, SchedulerTypeOK, ActorTypeOK, jobVars, nodeVars,
                actorVars
  <2>2. ControlTypeOK'
    BY <1>5, ScheduleType DEF HandleEvolvingRequest, SchedulerTypeOK, InvocationTypes
  <2> QED
    BY <1>1, <1>5, <2>1, <2>2 DEF HandleEvolvingRequest, SchedulerTypeOK, viewVars
<1>6. ASSUME NEW j \in Jobs, HandleWalltimeExceeded(j)
      PROVE  JobNodeTypeOK' /\ SchedulerTypeOK'
  <2>1. /\ JobNodeTypeOK' /\ ActorTypeOK'
        /\ mailbox' \in Seq(SchedMsg) /\ simMailbox' \in Seq(SimMsg)
        /\ fault' \in Faults /\ overtaken' \subseteq Jobs
    BY <1>1, <1>6, ForwardJobKillType DEF HandleWalltimeExceeded
  <2>2. ControlTypeOK'
    BY <1>6, ScheduleType DEF HandleWalltimeExceeded, SchedulerTypeOK, InvocationTypes, Waiting
  <2> QED
    BY <1>6, <2>1, <2>2 DEF HandleWalltimeExceeded, SchedulerTypeOK, viewVars
<1>7. ASSUME NEW j \in Jobs, HandleProcessedWorkload(j)
      PROVE  JobNodeTypeOK' /\ SchedulerTypeOK'
  <2>1. "COMPLETED" \in JobStates /\ Message("JOB_COMPLETED", j) \in SimMsg
    BY MessageTypes DEF JobStates
  <2>2. Complete(node, Executing(j), j) \in [Nodes -> NodeRecord]
    BY NodeMaps DEF JobNodeTypeOK
  <2>3. node' \in [Nodes -> NodeRecord]
    BY <1>7, <2>1, <2>2, SetStateType DEF HandleProcessedWorkload
  <2>4. Executing(j) \subseteq Nodes
    BY RangeOfSeq DEF Executing, JobNodeTypeOK
  <2>5. modifiedNodes' \subseteq Nodes
    BY <1>7, <2>1, <2>2, <2>4, SetStateType DEF HandleProcessedWorkload, JobNodeTypeOK
  <2>6. /\ state' \in [Jobs -> JobStates]
        /\ executing' \in [Jobs -> Seq(Nodes)]
        /\ modifiedJobs' \subseteq Jobs
    BY <1>7, <2>1, <2>2, SetStateType DEF HandleProcessedWorkload
  <2>7. JobNodeTypeOK'
    BY <1>7, <2>3, <2>5, <2>6 DEF HandleProcessedWorkload, JobNodeTypeOK
  <2>8. ActorTypeOK'
    <3>1. UNCHANGED app /\ monitor' \in [Jobs -> {"none", "armed", "ended"}]
      BY <1>7 DEF HandleProcessedWorkload, SchedulerTypeOK, ActorTypeOK
    <3>2. Iterations[j] \in Int /\ done \in [Jobs -> Int]
      BY SchedulerConfiguration DEF SchedulerTypeOK, ActorTypeOK
    <3>3. done' \in [Jobs -> Int]
      BY <1>7, <3>2 DEF HandleProcessedWorkload
    <3> QED
      BY <3>1, <3>3 DEF SchedulerTypeOK, ActorTypeOK
  <2>9. ControlTypeOK'
    BY <1>7, ScheduleType DEF HandleProcessedWorkload, SchedulerTypeOK, InvocationTypes, Waiting
  <2>10. mailbox' \in Seq(SchedMsg)
    BY <1>1, <1>7, CancelledType DEF HandleProcessedWorkload
  <2>11. simMailbox' \in Seq(SimMsg)
    BY <1>7, <2>1, AppendProperties DEF HandleProcessedWorkload, SchedulerTypeOK
  <2> QED
    BY <1>7, <2>7, <2>8, <2>9, <2>10, <2>11 DEF HandleProcessedWorkload, SchedulerTypeOK, viewVars
<1>8. CASE HandleFinalize
  <2>1. JobNodeTypeOK' /\ ActorTypeOK'
    BY <1>8 DEF HandleFinalize, JobNodeTypeOK, SchedulerTypeOK, ActorTypeOK, jobVars, nodeVars, actorVars
  <2>2. ControlTypeOK'
    BY <1>8 DEF HandleFinalize, SchedulerTypeOK, ControlTypeOK
  <2> QED
    BY <1>1, <1>8, <2>1, <2>2 DEF HandleFinalize, SchedulerTypeOK, viewVars
<1> QED
  BY <1>2, <1>3, <1>4, <1>5, <1>6, <1>7, <1>8 DEF HandleMessage

\* The application actors, the monitors, the invoker and the clock.
LEMMA ActorsType ==
  ASSUME TypeOK,
         \/ \E j \in Jobs : Application(j) \/ WalltimeExceeded(j)
         \/ InvokePeriodically \/ IntervalElapses
  PROVE  TypeOK'
<1> USE DEF TypeOK
<1>1. ASSUME NEW j \in Jobs, Application(j)
      PROVE  TypeOK'
  <2>1. /\ JobNodeTypeOK' /\ ActorTypeOK'
        /\ mailbox' \in Seq(SchedMsg) /\ left' \in [Jobs -> Nat]
    <3>1. CASE AppStarts(j)
      <4>1. "RUNNING" \in JobStates
        BY DEF JobStates
      <4> QED
        BY <3>1, <4>1, SetStateType DEF AppStarts, JobNodeTypeOK, SchedulerTypeOK, ActorTypeOK,
                                        nodeVars
    <3>2. CASE AppIterates(j)
      BY <3>2 DEF AppIterates, JobNodeTypeOK, SchedulerTypeOK, ActorTypeOK, passive, jobVars, nodeVars
    <3>3. CASE AppCompletes(j)
      <4>1. Message("WORKLOAD_PROCESSED", j) \in SchedMsg
        BY MessageTypes
      <4>2. mailbox' \in Seq(SchedMsg)
        BY <3>3, <4>1, AppendProperties DEF AppCompletes, SchedulerTypeOK
      <4> QED
        BY <3>3, <4>2 DEF AppCompletes, JobNodeTypeOK, SchedulerTypeOK, ActorTypeOK, passive, jobVars,
                          nodeVars
    <3>4. ASSUME NEW type \in {"SCHEDULING_POINT", "EVOLVING_REQUEST"}, AppRequests(j, type)
          PROVE  /\ JobNodeTypeOK' /\ ActorTypeOK'
                 /\ mailbox' \in Seq(SchedMsg) /\ left' \in [Jobs -> Nat]
      <4>1. Message(type, j) \in SchedMsg
        BY MessageTypes
      <4>2. mailbox' \in Seq(SchedMsg)
        BY <3>4, <4>1, AppendProperties DEF AppRequests, SchedulerTypeOK
      <4>3. Iterations[j] - left[j] \in Int /\ done \in [Jobs -> Int]
        BY SchedulerConfiguration DEF SchedulerTypeOK, ActorTypeOK
      <4>4. done' \in [Jobs -> Int]
        BY <3>4, <4>3 DEF AppRequests
      <4> QED
        BY <3>4, <4>2, <4>4 DEF AppRequests, JobNodeTypeOK, SchedulerTypeOK, ActorTypeOK, passive,
                                jobVars, nodeVars
    <3> QED
      BY <1>1, <3>1, <3>2, <3>3, <3>4 DEF Application
  <2>2. ControlTypeOK'
    BY <1>1 DEF Application, schedulerOnly, scheduleVars, SchedulerTypeOK, ControlTypeOK
  <2>3. UNCHANGED <<viewVars, recent, overtaken, simMailbox, fault, engineVars>>
    BY <1>1 DEF Application, schedulerOnly
  <2> QED
    BY <2>1, <2>2, <2>3 DEF SchedulerTypeOK, viewVars, engineVars
<1>2. ASSUME NEW j \in Jobs, WalltimeExceeded(j)
      PROVE  TypeOK'
  <2>1. Message("WALLTIME_EXCEEDED", j) \in SchedMsg
    BY MessageTypes
  <2>2. mailbox' \in Seq(SchedMsg)
    BY <1>2, <2>1, AppendProperties DEF WalltimeExceeded, SchedulerTypeOK
  <2>3. JobNodeTypeOK' /\ ActorTypeOK'
    BY <1>2 DEF WalltimeExceeded, JobNodeTypeOK, SchedulerTypeOK, ActorTypeOK, passive, jobVars, nodeVars
  <2>4. ControlTypeOK'
    BY <1>2 DEF WalltimeExceeded, schedulerOnly, scheduleVars, SchedulerTypeOK, ControlTypeOK
  <2> QED
    BY <1>2, <2>2, <2>3, <2>4 DEF WalltimeExceeded, schedulerOnly, SchedulerTypeOK, viewVars, engineVars
<1>3. CASE InvokePeriodically
  <2>1. Message("INVOKE_SCHEDULING", NoJob) \in SchedMsg
    BY DEF Message, SchedMsg
  <2>2. mailbox' \in Seq(SchedMsg)
    BY <1>3, <2>1, AppendProperties DEF InvokePeriodically, SchedulerTypeOK
  <2>3. JobNodeTypeOK' /\ ActorTypeOK'
    BY <1>3 DEF InvokePeriodically, JobNodeTypeOK, SchedulerTypeOK, ActorTypeOK, passive, jobVars,
                nodeVars, actorVars
  <2>4. ControlTypeOK'
    BY <1>3 DEF InvokePeriodically, schedulerOnly, scheduleVars, SchedulerTypeOK, ControlTypeOK
  <2> QED
    BY <1>3, <2>2, <2>3, <2>4 DEF InvokePeriodically, schedulerOnly, SchedulerTypeOK, viewVars, engineVars
<1>4. CASE IntervalElapses
  <2>1. JobNodeTypeOK' /\ ActorTypeOK'
    BY <1>4 DEF IntervalElapses, JobNodeTypeOK, SchedulerTypeOK, ActorTypeOK, passive, jobVars,
                nodeVars, actorVars
  <2>2. ControlTypeOK'
    BY <1>4 DEF IntervalElapses, scheduleVars, SchedulerTypeOK, ControlTypeOK
  <2> QED
    BY <1>4, <2>1, <2>2 DEF IntervalElapses, SchedulerTypeOK, viewVars, engineVars
<1> QED
  BY <1>1, <1>2, <1>3, <1>4

\* JobSubmitter and SimulationEngine.
LEMMA SimulationType ==
  ASSUME TypeOK, Simulation
  PROVE  TypeOK'
<1> USE DEF TypeOK
<1>1. JobNodeTypeOK' /\ ActorTypeOK' /\ ControlTypeOK'
  BY DEF Simulation, JobNodeTypeOK, SchedulerTypeOK, ActorTypeOK, ControlTypeOK, passive, jobVars,
         nodeVars, actorVars, schedulerOnly, scheduleVars
<1>2. UNCHANGED <<seen, seenDone, seenNode, recent, overtaken, left>>
  BY DEF Simulation, schedulerOnly, viewVars
<1>3. fault' \in Faults
  BY DEF Simulation, WriteStatistics, SchedulerTypeOK, Faults
<1>4. simMailbox # <<>> => Tail(simMailbox) \in Seq(SimMsg)
  BY HeadTailProperties DEF SchedulerTypeOK
<1> DEFINE EngineTypeOK ==
      /\ mailbox \in Seq(SchedMsg) /\ simMailbox \in Seq(SimMsg)
      /\ submitted \subseteq Jobs /\ registered \subseteq Jobs
      /\ engine \in {"waiting", "running", "finalizing", "done"}
      /\ expectedJobs \in Int
<1>5. EngineTypeOK'
  <2>1. CASE SendNumberOfJobs
    <3>1. Message("NUMBER_OF_JOBS", NoJob) \in SimMsg
      BY DEF Message, SimMsg
    <3> QED
      BY <2>1, <3>1, AppendProperties DEF SendNumberOfJobs, SchedulerTypeOK, engineVars
  <2>2. ASSUME NEW j \in Jobs, SubmitJob(j)
        PROVE  EngineTypeOK'
    <3>1. Message("SUBMIT_JOB", j) \in SimMsg
      BY MessageTypes
    <3> QED
      BY <2>2, <3>1, AppendProperties DEF SubmitJob, SchedulerTypeOK
  <2>3. CASE ReceiveNumberOfJobs
    <3>1. Cardinality(Jobs) \in Int
      BY ElastisimConfiguration, FS_CardinalityType
    <3> QED
      BY <1>4, <2>3, <3>1 DEF ReceiveNumberOfJobs, SimReceived, SchedulerTypeOK
  <2>4. ASSUME NEW j \in Jobs, ReceiveJob(j)
        PROVE  EngineTypeOK'
    <3>1. Message("JOB_SUBMIT", j) \in SchedMsg
      BY MessageTypes
    <3> QED
      BY <1>4, <2>4, <3>1, AppendProperties DEF ReceiveJob, SimReceived, SchedulerTypeOK
  <2>5. ASSUME NEW j \in Jobs, NEW type \in {"JOB_COMPLETED", "JOB_KILLED"}, ReceiveEnd(type, j)
        PROVE  EngineTypeOK'
    BY <1>4, <2>5 DEF ReceiveEnd, SimReceived, SchedulerTypeOK
  <2>6. CASE SendFinalize
    <3>1. Message("SCHEDULER_FINALIZE", NoJob) \in SchedMsg
      BY DEF Message, SchedMsg
    <3> QED
      BY <2>6, <3>1, AppendProperties DEF SendFinalize, SchedulerTypeOK
  <2>7. CASE WriteStatistics
    BY <2>7 DEF WriteStatistics, SchedulerTypeOK
  <2> QED
    BY <2>1, <2>2, <2>3, <2>4, <2>5, <2>6, <2>7 DEF Simulation, JobSubmitter, SimulationEngine
<1> QED
  BY <1>1, <1>2, <1>3, <1>5 DEF SchedulerTypeOK

LEMMA NextType == TypeOK /\ [Next]_vars => TypeOK'
<1> SUFFICES ASSUME TypeOK, [Next]_vars PROVE TypeOK'
  OBVIOUS
<1>1. CASE Scheduling
  <2>1. JobNodeTypeOK' /\ SchedulerTypeOK'
    BY <1>1, RespondType, ForwardType, HandleMessageType DEF Scheduling, SchedulerNext
  <2> QED
    BY <1>1, <2>1 DEF Scheduling, TypeOK, engineVars
<1>2. CASE Simulation
  BY <1>2, SimulationType
<1>3. CASE \/ \E j \in Jobs : Application(j) \/ WalltimeExceeded(j)
           \/ InvokePeriodically \/ IntervalElapses
  BY <1>3, ActorsType
<1>4. CASE UNCHANGED vars
  BY <1>4 DEF vars, jobVars, nodeVars, scheduleVars, viewVars, actorVars, engineVars, TypeOK,
              JobNodeTypeOK, SchedulerTypeOK, ControlTypeOK, ActorTypeOK
<1> QED
  BY <1>1, <1>2, <1>3, <1>4 DEF Next

\* Every reachable state has its type: in particular the scheduler always knows which job
\* it is to answer, mailboxes hold only well-formed messages and node lists only nodes.
THEOREM TypeCorrect == Spec => []TypeOK
BY InitType, NextType, PTL DEF Spec

-----------------------------------------------------------------------------
(* StatesCurrent: every change of a job or a node is entered in a list.      *)

\* A step that changes no job and no node without entering it in its list.
JobsReported ==
  /\ modifiedJobs \subseteq modifiedJobs'
  /\ \A j \in Jobs : j \in modifiedJobs' \/ state'[j] = state[j]

NodesReported ==
  /\ modifiedNodes \subseteq modifiedNodes'
  /\ \A n \in Nodes : n \in modifiedNodes' \/ node'[n] = node[n]

\* Such a step keeps the view current, if it does not change the view.
LEMMA ReportedStep ==
  ASSUME StatesCurrent, JobsReported, NodesReported, UNCHANGED viewVars
  PROVE  StatesCurrent'
BY DEF StatesCurrent, JobsReported, NodesReported, viewVars

\* The operations on nodes change no other nodes than those they are called for.
LEMMA NodesOutside ==
  ASSUME NEW nds, NEW j \in Jobs, NEW S, NEW n \in Nodes \ S
  PROVE  /\ Expect(nds, S, j)[n] = nds[n]
         /\ RemoveExpected(nds, S, j)[n] = nds[n]
         /\ Allocate(nds, S, j)[n] = nds[n]
         /\ Complete(nds, S, j)[n] = nds[n]
BY DEF Expect, RemoveExpected, Allocate, Complete

LEMMA SetStateReports ==
  ASSUME JobNodeTypeOK, NEW j \in Jobs, NEW new, SetState(j, new)
  PROVE  JobsReported
BY DEF SetState, AddModifiedJob, JobsReported, JobNodeTypeOK

LEMMA SetStateReportsNodes ==
  ASSUME NEW nds, NEW j \in Jobs, NEW new, NEW n \in Nodes \ NodesTouchedBySetState(j, new)
  PROVE  NodesAfterSetState(nds, j, new)[n] = nds[n]
BY NodesOutside DEF NodesAfterSetState, NodesTouchedBySetState

LEMMA AssignReports ==
  ASSUME JobNodeTypeOK, NEW j \in Jobs, NEW q, Assign(j, q)
  PROVE  JobsReported /\ NodesReported
<1>1. JobsReported
  BY DEF Assign, JobsReported, JobNodeTypeOK
<1>2. NodesReported
  <2>1. CASE state[j] = "PENDING"
    BY <2>1, NodesOutside DEF Assign, NodesReported
  <2>2. CASE state[j] # "PENDING"
    <3>1. /\ node' = Expect(RemoveExpected(node, Assigned(j), j), Range(q), j)
          /\ modifiedNodes' = modifiedNodes \cup Assigned(j) \cup Range(q)
      BY <2>2 DEF Assign
    <3>2. ASSUME NEW n \in Nodes \ modifiedNodes'
          PROVE  node'[n] = node[n]
      BY <3>1, <3>2, NodesOutside
    <3> QED
      BY <3>1, <3>2 DEF NodesReported
  <2> QED
    BY <2>1, <2>2
<1> QED
  BY <1>1, <1>2

LEMMA ForwardJobKillReports ==
  ASSUME JobNodeTypeOK, NEW j \in Jobs, NEW exceeded, NEW mb, ForwardJobKill(j, exceeded, mb)
  PROVE  JobsReported /\ NodesReported
<1>1. CASE NoActor(j, exceeded)
  BY <1>1 DEF ForwardJobKill, jobVars, nodeVars, JobsReported, NodesReported
<1>2. CASE ~NoActor(j, exceeded)
  <2>1. /\ node' = NodesAfterSetState(Complete(node, Executing(j), j), j, "KILLED")
        /\ modifiedNodes' = modifiedNodes \cup Executing(j)
                              \cup NodesTouchedBySetState(j, "KILLED")
        /\ SetState(j, "KILLED")
    BY <1>2 DEF ForwardJobKill
  <2>2. ASSUME NEW n \in Nodes \ modifiedNodes'
        PROVE  node'[n] = node[n]
    <3>1. n \notin Executing(j) /\ n \notin NodesTouchedBySetState(j, "KILLED")
      BY <2>1, <2>2
    <3>2. Complete(node, Executing(j), j)[n] = node[n]
      BY <3>1, NodesOutside
    <3>3. node'[n] = Complete(node, Executing(j), j)[n]
      BY <2>1, <3>1, SetStateReportsNodes
    <3> QED
      BY <3>2, <3>3
  <2> QED
    BY <2>1, <2>2, SetStateReports DEF NodesReported
<1> QED
  BY <1>1, <1>2

LEMMA ForwardJobAllocationReports ==
  ASSUME JobNodeTypeOK, NEW j \in Jobs, ForwardJobAllocation(j)
  PROVE  JobsReported /\ NodesReported
<1>1. CASE MayAllocateAll(node, assigned[j])
  BY <1>1, SetStateReports, NodesOutside DEF ForwardJobAllocation, NodesReported
<1>2. CASE ~MayAllocateAll(node, assigned[j])
  BY <1>2 DEF ForwardJobAllocation, jobVars, nodeVars, JobsReported, NodesReported
<1> QED
  BY <1>1, <1>2

LEMMA HandleReconfigurationReports ==
  ASSUME JobNodeTypeOK, NEW j \in Jobs, HandleReconfiguration(j)
  PROVE  JobsReported /\ NodesReported
<1> DEFINE unreserved == NodesAfterSetState(node, j, "IN_RECONFIGURATION")
           gained == Assigned(j) \ Executing(j)
           left1 == Executing(j) \ Assigned(j)
<1>1. /\ node' = Complete(Allocate(unreserved, gained, j), left1, j)
      /\ modifiedNodes' = modifiedNodes \cup Assigned(j) \cup left1
      /\ SetState(j, "IN_RECONFIGURATION")
  BY DEF HandleReconfiguration
<1>2. ASSUME NEW n \in Nodes \ modifiedNodes'
      PROVE  node'[n] = node[n]
  <2>1. n \notin left1 /\ n \notin gained
    BY <1>1, <1>2
  <2>2. node'[n] = unreserved[n]
    <3> HIDE DEF unreserved, gained, left1
    <3>1. Complete(Allocate(unreserved, gained, j), left1, j)[n] = Allocate(unreserved, gained, j)[n]
      BY <2>1, NodesOutside
    <3>2. Allocate(unreserved, gained, j)[n] = unreserved[n]
      BY <2>1, NodesOutside
    <3> QED
      BY <1>1, <3>1, <3>2
  <2>3. n \notin NodesTouchedBySetState(j, "IN_RECONFIGURATION")
    BY <1>1, <1>2 DEF NodesTouchedBySetState
  <2> QED
    BY <2>2, <2>3, SetStateReportsNodes
<1> QED
  BY <1>1, <1>2, SetStateReports DEF NodesReported

\* A step of any actor that leaves the two lists and what they are about alone.
LEMMA NothingReported ==
  ASSUME UNCHANGED <<state, node, modifiedJobs, modifiedNodes>>
  PROVE  JobsReported /\ NodesReported
BY DEF JobsReported, NodesReported

\* Only the invocation of the algorithm empties the lists, and it sends what is in them.
LEMMA InvokeIsCurrent ==
  ASSUME TypeOK, StatesCurrent, Invoke
  PROVE  StatesCurrent'
BY DEF TypeOK, JobNodeTypeOK, SchedulerTypeOK, StatesCurrent, Invoke

LEMMA RespondReports ==
  ASSUME TypeOK, Respond
  PROVE  JobsReported /\ NodesReported /\ UNCHANGED viewVars
<1>1. ASSUME NEW j \in Jobs, DecideKill(j)
      PROVE  JobsReported /\ NodesReported /\ UNCHANGED viewVars
  <2>1. SetState(j, "PENDING_KILL") /\ UNCHANGED <<nodeVars, viewVars>>
    BY <1>1 DEF DecideKill
  <2> QED
    BY <2>1, SetStateReports DEF TypeOK, NodesReported, nodeVars
<1>2. ASSUME NEW j \in Jobs, NEW q \in Allocations, DecideNodes(j, q)
      PROVE  JobsReported /\ NodesReported /\ UNCHANGED viewVars
  <2>1. UNCHANGED viewVars
    BY <1>2 DEF DecideNodes
  <2>2. CASE MayAssign(j, q)
    BY <1>2, <2>1, <2>2, AssignReports DEF DecideNodes, TypeOK
  <2>3. CASE ~MayAssign(j, q)
    BY <1>2, <2>1, <2>3, NothingReported DEF DecideNodes, jobVars, nodeVars
  <2> QED
    BY <2>2, <2>3
<1>3. CASE EndResponse
  BY <1>3, NothingReported DEF EndResponse, jobVars, nodeVars
<1> QED
  BY <1>1, <1>2, <1>3 DEF Respond

LEMMA ForwardReports ==
  ASSUME TypeOK, Answer \/ Forward \/ EndSchedule
  PROVE  JobsReported /\ NodesReported /\ UNCHANGED viewVars
<1> USE DEF TypeOK
<1>1. CASE Answer
  <2>1. req \in Jobs /\ UNCHANGED viewVars
    BY <1>1 DEF Answer, SchedulerTypeOK, ControlTypeOK
  <2>2. CASE state[req] = "PENDING_KILL"
    BY <1>1, <2>1, <2>2, ForwardJobKillReports DEF Answer
  <2>3. CASE state[req] = "PENDING_RECONFIGURATION"
    BY <1>1, <2>1, <2>3, HandleReconfigurationReports DEF Answer
  <2>4. CASE state[req] \notin {"PENDING_KILL", "PENDING_RECONFIGURATION"}
    BY <1>1, <2>1, <2>4, NothingReported DEF Answer, Continue, jobVars, nodeVars
  <2> QED
    BY <2>2, <2>3, <2>4
<1>2. CASE Forward
  <2> DEFINE j == Head(scheduled)
  <2>1. j \in Jobs /\ UNCHANGED viewVars
    BY <1>2, HeadTailProperties DEF Forward, SchedulerTypeOK, ControlTypeOK
  <2>2. CASE state[j] = "PENDING_ALLOCATION"
    <3>1. ForwardJobAllocation(j)
      BY <1>2, <2>2 DEF Forward
    <3> HIDE DEF j
    <3> QED
      BY <2>1, <3>1, ForwardJobAllocationReports
  <2>3. CASE state[j] = "PENDING_KILL"
    <3>1. ForwardJobKill(j, FALSE, mailbox)
      BY <1>2, <2>3 DEF Forward
    <3> HIDE DEF j
    <3> QED
      BY <2>1, <3>1, ForwardJobKillReports
  <2>4. CASE state[j] \notin {"PENDING_ALLOCATION", "PENDING_KILL"}
    BY <1>2, <2>1, <2>4, NothingReported DEF Forward, jobVars, nodeVars
  <2> QED
    BY <2>2, <2>3, <2>4
<1>3. CASE EndSchedule
  BY <1>3, NothingReported DEF EndSchedule, jobVars, nodeVars
<1> QED
  BY <1>1, <1>2, <1>3

LEMMA HandleMessageReports ==
  ASSUME TypeOK, HandleMessage
  PROVE  JobsReported /\ NodesReported /\ UNCHANGED viewVars
<1> USE DEF TypeOK
<1>1. CASE HandleInvoke
  BY <1>1, NothingReported DEF HandleInvoke, jobVars, nodeVars
<1>2. ASSUME NEW j \in Jobs, HandleJobSubmit(j)
      PROVE  JobsReported /\ NodesReported /\ UNCHANGED viewVars
  <2>1. SetState(j, "PENDING") /\ UNCHANGED <<nodeVars, viewVars>>
    BY <1>2 DEF HandleJobSubmit
  <2> QED
    BY <2>1, SetStateReports DEF NodesReported, nodeVars
<1>3. ASSUME NEW j \in Jobs, HandleSchedulingPoint(j)
      PROVE  JobsReported /\ NodesReported /\ UNCHANGED viewVars
  <2>1. UNCHANGED viewVars
    BY <1>3 DEF HandleSchedulingPoint
  <2>2. HandleReconfiguration(j) \/ UNCHANGED <<jobVars, nodeVars>>
    BY <1>3 DEF HandleSchedulingPoint, Continue
  <2> QED
    BY <2>1, <2>2, NothingReported, HandleReconfigurationReports DEF jobVars, nodeVars
<1>4. ASSUME NEW j \in Jobs, HandleEvolvingRequest(j)
      PROVE  JobsReported /\ NodesReported /\ UNCHANGED viewVars
  BY <1>4, NothingReported DEF HandleEvolvingRequest, jobVars, nodeVars
<1>5. ASSUME NEW j \in Jobs, HandleWalltimeExceeded(j)
      PROVE  JobsReported /\ NodesReported /\ UNCHANGED viewVars
  BY <1>5, ForwardJobKillReports DEF HandleWalltimeExceeded
<1>6. ASSUME NEW j \in Jobs, HandleProcessedWorkload(j)
      PROVE  JobsReported /\ NodesReported /\ UNCHANGED viewVars
  <2>1. /\ node' = NodesAfterSetState(Complete(node, Executing(j), j), j, "COMPLETED")
        /\ modifiedNodes' = modifiedNodes \cup Executing(j)
                              \cup NodesTouchedBySetState(j, "COMPLETED")
        /\ SetState(j, "COMPLETED")
        /\ UNCHANGED viewVars
    BY <1>6 DEF HandleProcessedWorkload
  <2>2. ASSUME NEW n \in Nodes \ modifiedNodes'
        PROVE  node'[n] = node[n]
    <3>1. n \notin Executing(j) /\ n \notin NodesTouchedBySetState(j, "COMPLETED")
      BY <2>1, <2>2
    <3>2. Complete(node, Executing(j), j)[n] = node[n]
      BY <3>1, NodesOutside
    <3>3. node'[n] = Complete(node, Executing(j), j)[n]
      BY <2>1, <3>1, SetStateReportsNodes
    <3> QED
      BY <3>2, <3>3
  <2> QED
    BY <2>1, <2>2, SetStateReports DEF NodesReported
<1>7. CASE HandleFinalize
  BY <1>7, NothingReported DEF HandleFinalize, jobVars, nodeVars
<1> QED
  BY <1>1, <1>2, <1>3, <1>4, <1>5, <1>6, <1>7 DEF HandleMessage

LEMMA ActorsReport ==
  ASSUME TypeOK,
         \/ \E j \in Jobs : Application(j) \/ WalltimeExceeded(j)
         \/ InvokePeriodically \/ IntervalElapses \/ Simulation
  PROVE  JobsReported /\ NodesReported /\ UNCHANGED viewVars
<1>1. ASSUME NEW j \in Jobs, Application(j)
      PROVE  JobsReported /\ NodesReported /\ UNCHANGED viewVars
  <2>1. UNCHANGED viewVars
    BY <1>1 DEF Application, schedulerOnly
  <2>2. CASE AppStarts(j)
    BY <2>1, <2>2, SetStateReports DEF AppStarts, TypeOK, NodesReported, nodeVars
  <2>3. CASE ~AppStarts(j)
    <3>1. UNCHANGED passive
      BY <1>1, <2>3 DEF Application, AppIterates, AppCompletes, AppRequests
    <3> QED
      BY <2>1, <3>1, NothingReported DEF passive, jobVars, nodeVars
  <2> QED
    BY <2>2, <2>3
<1>2. ASSUME NEW j \in Jobs, WalltimeExceeded(j)
      PROVE  JobsReported /\ NodesReported /\ UNCHANGED viewVars
  BY <1>2, NothingReported DEF WalltimeExceeded, passive, schedulerOnly, jobVars, nodeVars
<1>3. CASE InvokePeriodically \/ IntervalElapses \/ Simulation
  BY <1>3, NothingReported DEF InvokePeriodically, IntervalElapses, Simulation, passive, schedulerOnly,
                               jobVars, nodeVars
<1> QED
  BY <1>1, <1>2, <1>3

LEMMA InitView == Init => StatesCurrent
BY DEF Init, JobInit, NodeInit, SchedulerInit, StatesCurrent

LEMMA NextView == TypeOK /\ StatesCurrent /\ [Next]_vars => StatesCurrent'
<1> SUFFICES ASSUME TypeOK, StatesCurrent, [Next]_vars PROVE StatesCurrent'
  OBVIOUS
<1>1. CASE Invoke
  BY <1>1, InvokeIsCurrent
<1>2. CASE Respond \/ Answer \/ Forward \/ EndSchedule \/ HandleMessage
  BY <1>2, RespondReports, ForwardReports, HandleMessageReports, ReportedStep
<1>3. CASE \/ \E j \in Jobs : Application(j) \/ WalltimeExceeded(j)
           \/ InvokePeriodically \/ IntervalElapses \/ Simulation
  BY <1>3, ActorsReport, ReportedStep
<1>4. CASE UNCHANGED vars
  BY <1>4, NothingReported, ReportedStep DEF vars, jobVars, nodeVars
<1> QED
  BY <1>1, <1>2, <1>3, <1>4 DEF Next, Scheduling, SchedulerNext

\* The scheduling algorithm decides on a picture that differs from the simulator only in
\* what it will be told next: no handler, no decision and no actor changes a job or a node
\* without entering it in PlatformManager's lists.
THEOREM StatesAreCurrent == Spec => []StatesCurrent
BY TypeCorrect, InitView, NextView, PTL DEF Spec

-----------------------------------------------------------------------------
(* Reservations is an invariant, for whatever the algorithm decides and    *)
(* whatever kill overtakes what.  It is not inductive by itself: a         *)
(* decision for a job that has ended would reserve nodes that are never    *)
(* given back.  What excludes it is that the algorithm answers on a        *)
(* current view (StatesCurrent) and that no job ends before it has answered  *)
(* (EndedAreKnown).                                                        *)

\* While the algorithm answers, it knows of every job that has ended.
EndedAreKnown ==
  pc = "respond" => \A j \in Jobs : state[j] \in Final => seen[j] = state[j]

ReservationInv == TypeOK /\ StatesCurrent /\ EndedAreKnown /\ Reservations

-----------------------------------------------------------------------------
(* What the operations do to the jobs a node expects.                      *)

LEMMA ExpectedFields ==
  ASSUME NEW nd \in NodeRecord, NEW j \in Jobs
  PROVE  /\ ExpectJob(nd, j).expected = nd.expected \cup {j}
         /\ RemoveExpectedJob(nd, j).expected = nd.expected \ {j}
         /\ AllocateJob(nd, j).expected = nd.expected
         /\ CompleteJob(nd, j).expected = nd.expected
BY DEF NodeRecord, ExpectJob, RemoveExpectedJob, AllocateJob, CompleteJob

LEMMA ExpectAdds ==
  ASSUME NEW nds, NEW j \in Jobs, NEW S, NEW n \in Nodes, nds[n] \in NodeRecord
  PROVE  /\ n \in S => Expect(nds, S, j)[n].expected = nds[n].expected \cup {j}
         /\ n \notin S => Expect(nds, S, j)[n].expected = nds[n].expected
BY ExpectedFields DEF Expect

LEMMA RemoveExpectedRemoves ==
  ASSUME NEW nds, NEW j \in Jobs, NEW S, NEW n \in Nodes, nds[n] \in NodeRecord
  PROVE  /\ n \in S => RemoveExpected(nds, S, j)[n].expected = nds[n].expected \ {j}
         /\ n \notin S => RemoveExpected(nds, S, j)[n].expected = nds[n].expected
BY ExpectedFields DEF RemoveExpected

LEMMA OthersKeepExpected ==
  ASSUME NEW nds, NEW j \in Jobs, NEW S, NEW n \in Nodes, nds[n] \in NodeRecord
  PROVE  /\ Allocate(nds, S, j)[n].expected = nds[n].expected
         /\ Complete(nds, S, j)[n].expected = nds[n].expected
BY ExpectedFields DEF Allocate, Complete

\* A step that changes no state, no assigned nodes and no reservation.
LEMMA ReservationsUntouched ==
  ASSUME Reservations, UNCHANGED <<state, assigned>>,
         \A n \in Nodes : node'[n].expected = node[n].expected
  PROVE  Reservations'
BY DEF Reservations, Assigned

\* A job changes its state by Job::setState, on nodes whose reservations are as they were:
\* where the job ends or takes its nodes over, its reservations go.
LEMMA SetStateReservations ==
  ASSUME JobNodeTypeOK, Reservations, NEW j \in Jobs,
         NEW new \in JobStates \ {"PENDING_RECONFIGURATION"},
         NEW nds \in [Nodes -> NodeRecord],
         \A n \in Nodes : nds[n].expected = node[n].expected,
         SetState(j, new), UNCHANGED assigned,
         \A n \in Nodes : node'[n].expected = NodesAfterSetState(nds, j, new)[n].expected
  PROVE  Reservations'
<1>1. /\ state'[j] = new
      /\ \A i \in Jobs \ {j} : state'[i] = state[i]
  BY DEF SetState, JobNodeTypeOK
<1>2. ASSUME NEW n \in Nodes
      PROVE  node'[n].expected = IF Unreserves(state[j], new) /\ n \in Assigned(j)
                                 THEN node[n].expected \ {j} ELSE node[n].expected
  <2>1. /\ n \in Assigned(j) => RemoveExpected(nds, Assigned(j), j)[n].expected = nds[n].expected \ {j}
        /\ n \notin Assigned(j) => RemoveExpected(nds, Assigned(j), j)[n].expected = nds[n].expected
    <3>1. nds[n] \in NodeRecord
      OBVIOUS
    <3> QED
      BY <3>1, RemoveExpectedRemoves
  <2>2. CASE Unreserves(state[j], new)
    BY <2>1, <2>2 DEF NodesAfterSetState
  <2>3. CASE ~Unreserves(state[j], new)
    BY <2>3 DEF NodesAfterSetState
  <2> QED
    BY <2>2, <2>3
<1>3. ASSUME NEW i \in Jobs, NEW n \in Nodes
      PROVE  /\ i \in node'[n].expected => n \in Assigned(i)' /\ state'[i] \notin Final
             /\ state'[i] = "PENDING_RECONFIGURATION" /\ n \in Assigned(i)' => i \in node'[n].expected
  <2>1. Assigned(i)' = Assigned(i)
    BY DEF Assigned
  <2>2. /\ i \in node[n].expected => n \in Assigned(i) /\ state[i] \notin Final
        /\ state[i] = "PENDING_RECONFIGURATION" /\ n \in Assigned(i) => i \in node[n].expected
    BY DEF Reservations
  <2>3. CASE i # j
    BY <1>1, <1>2, <2>1, <2>2, <2>3
  <2>4. CASE i = j
    <3>1. i \in node'[n].expected => n \in Assigned(i) /\ i \in node[n].expected
      BY <1>2, <2>2
    <3>2. new \in Final => i \notin node'[n].expected
      BY <1>2, <2>2, <2>4 DEF Unreserves
    <3> QED
      BY <1>1, <2>1, <2>4, <3>1, <3>2
  <2> QED
    BY <2>3, <2>4
<1> QED
  BY <1>3 DEF Reservations

\* Most transitions concern no reservation.
LEMMA SetStateKeepsReservations ==
  ASSUME JobNodeTypeOK, Reservations, NEW j \in Jobs,
         NEW new \in {"PENDING", "RUNNING", "PENDING_KILL"},
         SetState(j, new), UNCHANGED assigned,
         \A n \in Nodes : node'[n].expected = node[n].expected
  PROVE  Reservations'
<1>1. new \in JobStates \ {"PENDING_RECONFIGURATION"}
  BY DEF JobStates
<1>2. NodesAfterSetState(node, j, new) = node
  BY DEF NodesAfterSetState, Unreserves, Final
<1>3. node \in [Nodes -> NodeRecord]
  BY DEF JobNodeTypeOK
<1> QED
  BY <1>1, <1>2, <1>3, SetStateReservations

\* New nodes: the job gives its reservations back and, unless it is still to start, makes
\* new ones.
LEMMA AssignReservations ==
  ASSUME JobNodeTypeOK, Reservations, NEW j \in Jobs, NEW q \in Seq(Nodes),
         state[j] \notin Final, Assign(j, q)
  PROVE  Reservations'
<1> DEFINE cleared == RemoveExpected(node, Assigned(j), j)
           new == UpdatedState(state[j], q, executing[j])
<1>1. /\ state'[j] = new /\ Assigned(j)' = Range(q)
      /\ \A i \in Jobs \ {j} : state'[i] = state[i] /\ Assigned(i)' = Assigned(i)
  BY DEF Assign, Assigned, JobNodeTypeOK
<1>2. new \notin Final
  BY DEF UpdatedState, Final
<1>3. state[j] = "PENDING" => new # "PENDING_RECONFIGURATION"
  BY DEF UpdatedState
<1>4. cleared \in [Nodes -> NodeRecord]
  BY NodeMaps DEF JobNodeTypeOK
<1>5. ASSUME NEW n \in Nodes
      PROVE  cleared[n].expected = node[n].expected \ {j}
  <2>1. /\ n \in Assigned(j) => cleared[n].expected = node[n].expected \ {j}
        /\ n \notin Assigned(j) => cleared[n].expected = node[n].expected
    <3>1. node[n] \in NodeRecord
      BY DEF JobNodeTypeOK
    <3> QED
      BY <3>1, RemoveExpectedRemoves
  <2>2. n \notin Assigned(j) => j \notin node[n].expected
    BY DEF Reservations
  <2> QED
    BY <2>1, <2>2
<1>6. ASSUME NEW n \in Nodes
      PROVE  node'[n].expected = IF state[j] # "PENDING" /\ n \in Range(q)
                                 THEN (node[n].expected \ {j}) \cup {j}
                                 ELSE node[n].expected \ {j}
  <2>1. CASE state[j] = "PENDING"
    BY <1>5, <2>1 DEF Assign
  <2>2. CASE state[j] # "PENDING"
    <3>1. node' = Expect(cleared, Range(q), j)
      BY <2>2 DEF Assign
    <3> HIDE DEF cleared
    <3>2. /\ n \in Range(q) => Expect(cleared, Range(q), j)[n].expected = cleared[n].expected \cup {j}
          /\ n \notin Range(q) => Expect(cleared, Range(q), j)[n].expected = cleared[n].expected
      <4>1. cleared[n] \in NodeRecord
        BY <1>4
      <4> QED
        BY <4>1, ExpectAdds
    <3> QED
      BY <1>5, <2>2, <3>1, <3>2
  <2> QED
    BY <2>1, <2>2
<1> HIDE DEF cleared, new
<1>7. ASSUME NEW i \in Jobs, NEW n \in Nodes
      PROVE  /\ i \in node'[n].expected => n \in Assigned(i)' /\ state'[i] \notin Final
             /\ state'[i] = "PENDING_RECONFIGURATION" /\ n \in Assigned(i)' => i \in node'[n].expected
  <2>1. CASE i = j
    BY <1>1, <1>2, <1>3, <1>6, <2>1
  <2>2. CASE i # j
    BY ZenonT(60), <1>1, <1>6, <2>2 DEF Reservations
  <2> QED
    BY <2>1, <2>2
<1> QED
  BY <1>7 DEF Reservations

-----------------------------------------------------------------------------
(* The handlers.                                                           *)

\* A job ends, by completion or by a kill, on its executing nodes.
LEMMA EndReservations ==
  ASSUME JobNodeTypeOK, Reservations, NEW j \in Jobs, NEW new \in Final,
         SetState(j, new), UNCHANGED assigned,
         node' = NodesAfterSetState(Complete(node, Executing(j), j), j, new)
  PROVE  Reservations'
<1> DEFINE released == Complete(node, Executing(j), j)
<1>1. new \in JobStates \ {"PENDING_RECONFIGURATION"}
  BY DEF Final, JobStates
<1>2. released \in [Nodes -> NodeRecord]
  BY NodeMaps DEF JobNodeTypeOK
<1>3. ASSUME NEW n \in Nodes
      PROVE  released[n].expected = node[n].expected
  <2>1. node[n] \in NodeRecord
    BY DEF JobNodeTypeOK
  <2> QED
    BY <2>1, OthersKeepExpected
<1> HIDE DEF released
<1> QED
  BY <1>1, <1>2, <1>3, SetStateReservations DEF released

LEMMA ForwardJobKillReservations ==
  ASSUME JobNodeTypeOK, Reservations, NEW j \in Jobs, NEW exceeded, NEW mb,
         ForwardJobKill(j, exceeded, mb)
  PROVE  Reservations'
<1>1. CASE NoActor(j, exceeded)
  BY <1>1, ReservationsUntouched DEF ForwardJobKill, jobVars, nodeVars
<1>2. CASE ~NoActor(j, exceeded)
  <2>1. /\ node' = NodesAfterSetState(Complete(node, Executing(j), j), j, "KILLED")
        /\ SetState(j, "KILLED")
        /\ UNCHANGED assigned
    BY <1>2 DEF ForwardJobKill
  <2> QED
    BY <2>1, EndReservations DEF Final
<1> QED
  BY <1>1, <1>2

LEMMA ForwardJobAllocationReservations ==
  ASSUME JobNodeTypeOK, Reservations, NEW j \in Jobs, ForwardJobAllocation(j)
  PROVE  Reservations'
<1>1. CASE MayAllocateAll(node, assigned[j])
  <2>1. /\ SetState(j, "RUNNING") /\ UNCHANGED assigned
        /\ node' = Allocate(node, Assigned(j), j)
    BY <1>1 DEF ForwardJobAllocation
  <2>2. ASSUME NEW n \in Nodes
        PROVE  node'[n].expected = node[n].expected
    <3>1. node[n] \in NodeRecord
      BY DEF JobNodeTypeOK
    <3> QED
      BY <2>1, <3>1, OthersKeepExpected
  <2> QED
    BY <2>1, <2>2, SetStateKeepsReservations
<1>2. CASE ~MayAllocateAll(node, assigned[j])
  BY <1>2, ReservationsUntouched DEF ForwardJobAllocation, jobVars, nodeVars
<1> QED
  BY <1>1, <1>2

LEMMA HandleReconfigurationReservations ==
  ASSUME JobNodeTypeOK, Reservations, NEW j \in Jobs, HandleReconfiguration(j)
  PROVE  Reservations'
<1> DEFINE unreserved == NodesAfterSetState(node, j, "IN_RECONFIGURATION")
           gained == Assigned(j) \ Executing(j)
           left1 == Executing(j) \ Assigned(j)
           grown == Allocate(unreserved, gained, j)
<1>1. /\ node' = Complete(grown, left1, j)
      /\ SetState(j, "IN_RECONFIGURATION")
      /\ UNCHANGED assigned
  BY DEF HandleReconfiguration
<1>2. "IN_RECONFIGURATION" \in JobStates \ {"PENDING_RECONFIGURATION"}
  BY DEF JobStates
<1>3. node \in [Nodes -> NodeRecord]
  BY DEF JobNodeTypeOK
<1>4. unreserved \in [Nodes -> NodeRecord]
  BY <1>2, <1>3, SetStateType
<1> HIDE DEF unreserved, gained, left1
<1>5. grown \in [Nodes -> NodeRecord]
  BY <1>4, NodeMaps
<1>6. ASSUME NEW n \in Nodes
      PROVE  node'[n].expected = unreserved[n].expected
  <2>1. unreserved[n] \in NodeRecord /\ grown[n] \in NodeRecord
    BY <1>4, <1>5
  <2>2. grown[n].expected = unreserved[n].expected
    BY <2>1, OthersKeepExpected
  <2> HIDE DEF grown
  <2>3. Complete(grown, left1, j)[n].expected = grown[n].expected
    BY <2>1, OthersKeepExpected
  <2> QED
    BY <1>1, <2>2, <2>3
<1> QED
  BY <1>1, <1>2, <1>3, <1>6, SetStateReservations DEF unreserved

\* A decision never concerns a job that has ended: the algorithm knows of its end.
LEMMA RespondReservations ==
  ASSUME ReservationInv, Respond
  PROVE  Reservations'
<1> USE DEF ReservationInv, TypeOK
<1>1. ASSUME NEW j \in Jobs, DecideKill(j)
      PROVE  Reservations'
  <2>1. SetState(j, "PENDING_KILL") /\ UNCHANGED <<assigned, node>>
    BY <1>1 DEF DecideKill, nodeVars
  <2> QED
    BY <2>1, SetStateKeepsReservations
<1>2. ASSUME NEW j \in Jobs, NEW q \in Allocations, DecideNodes(j, q)
      PROVE  Reservations'
  <2>1. CASE MayAssign(j, q)
    <3>1. Assign(j, q) /\ q \in Seq(Nodes)
      BY <1>2, <2>1, SchedulerConfiguration DEF DecideNodes
    <3>2. seen[j] \notin Final /\ pc = "respond"
      BY <1>2 DEF DecideNodes, MaySend, Final
    <3>3. state[j] \notin Final
      BY <3>2 DEF EndedAreKnown
    <3> QED
      BY <3>1, <3>3, AssignReservations
  <2>2. CASE ~MayAssign(j, q)
    BY <1>2, <2>2, ReservationsUntouched DEF DecideNodes, jobVars, nodeVars
  <2> QED
    BY <2>1, <2>2
<1>3. CASE EndResponse
  BY <1>3, ReservationsUntouched DEF EndResponse, jobVars, nodeVars
<1> QED
  BY <1>1, <1>2, <1>3 DEF Respond

LEMMA ForwardReservations ==
  ASSUME TypeOK, Reservations, Answer \/ Forward \/ EndSchedule
  PROVE  Reservations'
<1> USE DEF TypeOK
<1>1. CASE Answer
  <2>1. req \in Jobs
    BY <1>1 DEF Answer, SchedulerTypeOK, ControlTypeOK
  <2>2. CASE state[req] = "PENDING_KILL"
    BY <1>1, <2>1, <2>2, ForwardJobKillReservations DEF Answer
  <2>3. CASE state[req] = "PENDING_RECONFIGURATION"
    BY <1>1, <2>1, <2>3, HandleReconfigurationReservations DEF Answer
  <2>4. CASE state[req] \notin {"PENDING_KILL", "PENDING_RECONFIGURATION"}
    BY <1>1, <2>1, <2>4, ReservationsUntouched DEF Answer, Continue, jobVars, nodeVars
  <2> QED
    BY <2>2, <2>3, <2>4
<1>2. CASE Forward
  <2> DEFINE j == Head(scheduled)
  <2>1. j \in Jobs
    BY <1>2, HeadTailProperties DEF Forward, SchedulerTypeOK, ControlTypeOK
  <2>2. \/ ForwardJobAllocation(j)
        \/ ForwardJobKill(j, FALSE, mailbox)
        \/ UNCHANGED <<jobVars, nodeVars>>
    BY <1>2 DEF Forward
  <2> HIDE DEF j
  <2> QED
    BY <2>1, <2>2, ForwardJobAllocationReservations, ForwardJobKillReservations,
       ReservationsUntouched DEF jobVars, nodeVars
<1>3. CASE EndSchedule
  BY <1>3, ReservationsUntouched DEF EndSchedule, jobVars, nodeVars
<1> QED
  BY <1>1, <1>2, <1>3

LEMMA HandleMessageReservations ==
  ASSUME TypeOK, Reservations, HandleMessage
  PROVE  Reservations'
<1> USE DEF TypeOK
<1>1. CASE HandleInvoke \/ HandleFinalize
  BY <1>1, ReservationsUntouched DEF HandleInvoke, HandleFinalize, jobVars, nodeVars
<1>2. ASSUME NEW j \in Jobs, HandleJobSubmit(j)
      PROVE  Reservations'
  <2>1. SetState(j, "PENDING") /\ UNCHANGED <<assigned, node>>
    BY <1>2 DEF HandleJobSubmit, nodeVars
  <2> QED
    BY <2>1, SetStateKeepsReservations
<1>3. ASSUME NEW j \in Jobs, HandleSchedulingPoint(j)
      PROVE  Reservations'
  <2>1. HandleReconfiguration(j) \/ UNCHANGED <<jobVars, nodeVars>>
    BY <1>3 DEF HandleSchedulingPoint, Continue
  <2> QED
    BY <2>1, ReservationsUntouched, HandleReconfigurationReservations DEF jobVars, nodeVars
<1>4. ASSUME NEW j \in Jobs, HandleEvolvingRequest(j)
      PROVE  Reservations'
  BY <1>4, ReservationsUntouched DEF HandleEvolvingRequest, jobVars, nodeVars
<1>5. ASSUME NEW j \in Jobs, HandleWalltimeExceeded(j)
      PROVE  Reservations'
  BY <1>5, ForwardJobKillReservations DEF HandleWalltimeExceeded
<1>6. ASSUME NEW j \in Jobs, HandleProcessedWorkload(j)
      PROVE  Reservations'
  <2>1. /\ node' = NodesAfterSetState(Complete(node, Executing(j), j), j, "COMPLETED")
        /\ SetState(j, "COMPLETED")
        /\ UNCHANGED assigned
    BY <1>6 DEF HandleProcessedWorkload
  <2> QED
    BY <2>1, EndReservations DEF Final
<1> QED
  BY <1>1, <1>2, <1>3, <1>4, <1>5, <1>6 DEF HandleMessage

LEMMA ActorsReservations ==
  ASSUME TypeOK, Reservations,
         \/ \E j \in Jobs : Application(j) \/ WalltimeExceeded(j)
         \/ InvokePeriodically \/ IntervalElapses \/ Simulation
  PROVE  Reservations'
<1>1. ASSUME NEW j \in Jobs, AppStarts(j)
      PROVE  Reservations'
  <2>1. SetState(j, "RUNNING") /\ UNCHANGED <<assigned, node>>
    BY <1>1 DEF AppStarts, nodeVars
  <2> QED
    BY <2>1, SetStateKeepsReservations DEF TypeOK
<1>2. CASE UNCHANGED passive
  BY <1>2, ReservationsUntouched DEF passive, jobVars, nodeVars
<1> QED
  BY <1>1, <1>2 DEF Application, AppIterates, AppCompletes, AppRequests, WalltimeExceeded,
                    InvokePeriodically, IntervalElapses, Simulation

-----------------------------------------------------------------------------
(* The algorithm knows of every end.                                       *)

\* Within a response, no job ends.
LEMMA NoEndInResponse ==
  ASSUME EndedAreKnown, UNCHANGED <<pc, seen>>,
         \A j \in Jobs : state'[j] \in Final => state'[j] = state[j]
  PROVE  EndedAreKnown'
BY DEF EndedAreKnown

LEMMA InvokeTellsEnds ==
  ASSUME TypeOK, StatesCurrent, Invoke
  PROVE  EndedAreKnown'
BY DEF TypeOK, JobNodeTypeOK, SchedulerTypeOK, StatesCurrent, EndedAreKnown, Invoke

LEMMA RespondEndsNothing ==
  ASSUME TypeOK, EndedAreKnown, Respond
  PROVE  EndedAreKnown'
<1> USE DEF TypeOK
<1>1. ASSUME NEW j \in Jobs, DecideKill(j)
      PROVE  EndedAreKnown'
  BY <1>1, NoEndInResponse DEF DecideKill, SetState, viewVars, JobNodeTypeOK, Final
<1>2. ASSUME NEW j \in Jobs, NEW q \in Allocations, DecideNodes(j, q)
      PROVE  EndedAreKnown'
  <2>1. UNCHANGED <<pc, seen>>
    BY <1>2 DEF DecideNodes, viewVars
  <2>2. CASE MayAssign(j, q)
    <3>1. state' = [state EXCEPT ![j] = UpdatedState(state[j], q, executing[j])]
      BY <1>2, <2>2 DEF DecideNodes, Assign
    <3>2. UpdatedState(state[j], q, executing[j]) \in Final =>
            UpdatedState(state[j], q, executing[j]) = state[j]
      BY DEF UpdatedState, Final
    <3> QED
      BY <2>1, <3>1, <3>2, NoEndInResponse DEF JobNodeTypeOK
  <2>3. CASE ~MayAssign(j, q)
    BY <1>2, <2>1, <2>3, NoEndInResponse DEF DecideNodes, jobVars
  <2> QED
    BY <2>2, <2>3
<1>3. CASE EndResponse
  BY <1>3 DEF EndResponse, EndedAreKnown
<1> QED
  BY <1>1, <1>2, <1>3 DEF Respond

\* The other steps of the scheduler are not part of a response and do not begin one.
LEMMA OutsideResponse ==
  ASSUME HandleMessage \/ Answer \/ Forward \/ EndSchedule
  PROVE  EndedAreKnown'
<1>1. CASE Answer \/ Forward \/ EndSchedule
  BY <1>1 DEF Answer, Forward, EndSchedule, EndedAreKnown
<1>2. CASE HandleMessage
  BY <1>2 DEF HandleMessage, HandleInvoke, HandleJobSubmit, HandleSchedulingPoint,
              HandleEvolvingRequest, HandleWalltimeExceeded, HandleProcessedWorkload,
              HandleFinalize, Schedule, Return, EndedAreKnown
<1> QED
  BY <1>1, <1>2

LEMMA ActorsEndNothing ==
  ASSUME TypeOK, EndedAreKnown,
         \/ \E j \in Jobs : Application(j) \/ WalltimeExceeded(j)
         \/ InvokePeriodically \/ IntervalElapses \/ Simulation
  PROVE  EndedAreKnown'
<1>1. UNCHANGED <<pc, seen>>
  BY DEF Application, WalltimeExceeded, InvokePeriodically, IntervalElapses, Simulation,
         schedulerOnly, scheduleVars, viewVars
<1>2. ASSUME NEW j \in Jobs, AppStarts(j)
      PROVE  \A i \in Jobs : state'[i] \in Final => state'[i] = state[i]
  BY <1>2 DEF AppStarts, SetState, TypeOK, JobNodeTypeOK, Final
<1>3. CASE UNCHANGED passive
  BY <1>1, <1>3, NoEndInResponse DEF passive, jobVars
<1> QED
  BY <1>1, <1>2, <1>3, NoEndInResponse
     DEF Application, AppIterates, AppCompletes, AppRequests, WalltimeExceeded,
         InvokePeriodically, IntervalElapses, Simulation

-----------------------------------------------------------------------------
LEMMA InitReservations == Init => EndedAreKnown /\ Reservations
BY DEF Init, JobInit, NodeInit, SchedulerInit, EndedAreKnown, Reservations, Assigned

LEMMA NextReservations == ReservationInv /\ [Next]_vars => EndedAreKnown' /\ Reservations'
<1> SUFFICES ASSUME ReservationInv, [Next]_vars PROVE EndedAreKnown' /\ Reservations'
  OBVIOUS
<1> USE DEF ReservationInv
<1>1. CASE Invoke
  BY <1>1, InvokeTellsEnds, ReservationsUntouched DEF Invoke
<1>2. CASE Respond
  BY <1>2, RespondEndsNothing, RespondReservations
<1>3. CASE HandleMessage \/ Answer \/ Forward \/ EndSchedule
  BY <1>3, OutsideResponse, ForwardReservations, HandleMessageReservations
<1>4. CASE \/ \E j \in Jobs : Application(j) \/ WalltimeExceeded(j)
           \/ InvokePeriodically \/ IntervalElapses \/ Simulation
  BY <1>4, ActorsEndNothing, ActorsReservations
<1>5. CASE UNCHANGED vars
  BY <1>5, NoEndInResponse, ReservationsUntouched
     DEF vars, jobVars, nodeVars, scheduleVars, viewVars
<1> QED
  BY <1>1, <1>2, <1>3, <1>4, <1>5 DEF Next, Scheduling, SchedulerNext

\* No reservation leaks and none is missing, with any algorithm and although a kill may
\* overtake messages: a node expects a job only if the job is to have it and has not ended,
\* and a job whose reconfiguration is pending is expected on all its nodes.
THEOREM ReservationsMatch == Spec => []Reservations
<1>1. ReservationInv /\ [Next]_vars /\ TypeOK' /\ StatesCurrent' => ReservationInv'
  BY NextReservations DEF ReservationInv
<1>2. Init /\ TypeOK /\ StatesCurrent => ReservationInv
  BY InitReservations DEF ReservationInv
<1>3. ReservationInv => Reservations
  BY DEF ReservationInv
<1> QED
  BY <1>1, <1>2, <1>3, TypeCorrect, StatesAreCurrent, PTL DEF Spec

-----------------------------------------------------------------------------
(* Where the thread of control of a job may be, which messages of it may   *)
(* be queued and which monitor it has: facts that hold whatever the        *)
(* algorithm decides and whatever kill overtakes what.                     *)

-----------------------------------------------------------------------------
(* Mailboxes.                                                              *)

\* The place i of mailbox mb holds a message of job j whose type is in T.
At(mb, i, T, j) == mb[i].type \in T /\ mb[i].job = j

Carries(mb, T, j) == \E i \in DOMAIN mb : At(mb, i, T, j)

\* mb holds at most one such message.
Once(mb, T, j) == \A i, k \in DOMAIN mb : At(mb, i, T, j) /\ At(mb, k, T, j) => i = k

\* Whatever rest holds of job j, mb holds, too, and as often.
Fewer(mb, rest, j) ==
  \A T : /\ Carries(rest, T, j) => Carries(mb, T, j)
         /\ Once(mb, T, j) => Once(rest, T, j)

LEMMA FewerTransitive ==
  ASSUME NEW mb, NEW mid, NEW rest, NEW j, Fewer(mb, mid, j), Fewer(mid, rest, j)
  PROVE  Fewer(mb, rest, j)
BY DEF Fewer

\* A mailbox whose places are, one by one, places of another.
LEMMA FewerIfMapped ==
  ASSUME NEW mb, NEW rest, NEW j, NEW f,
         \A i \in DOMAIN rest : f[i] \in DOMAIN mb /\ mb[f[i]] = rest[i],
         \A i, k \in DOMAIN rest : f[i] = f[k] => i = k
  PROVE  Fewer(mb, rest, j)
BY DEF Fewer, Carries, Once, At

LEMMA TailCarries ==
  ASSUME NEW M, NEW mb \in Seq(M), mb # <<>>, NEW j
  PROVE  /\ Fewer(mb, Tail(mb), j)
         /\ \A T : Head(mb).type \in T /\ Head(mb).job = j =>
                     Carries(mb, T, j) /\ (Once(mb, T, j) => ~Carries(Tail(mb), T, j))
         /\ \A T : ~(Head(mb).type \in T /\ Head(mb).job = j) =>
                     (Carries(mb, T, j) => Carries(Tail(mb), T, j))
<1> DEFINE rest == Tail(mb)
<1>1. /\ Len(mb) \in Nat \ {0} /\ DOMAIN mb = 1 .. Len(mb)
      /\ rest \in Seq(M) /\ DOMAIN rest = 1 .. Len(mb) - 1
      /\ \A i \in DOMAIN rest : rest[i] = mb[i + 1]
      /\ Head(mb) = mb[1]
  BY HeadTailProperties, LenProperties, EmptySeq
<1> HIDE DEF rest
<1>2. Fewer(mb, rest, j)
  <2> DEFINE f == [i \in DOMAIN rest |-> i + 1]
  <2>1. \A i \in DOMAIN rest : f[i] \in DOMAIN mb /\ mb[f[i]] = rest[i]
    BY <1>1
  <2>2. \A i, k \in DOMAIN rest : f[i] = f[k] => i = k
    BY <1>1
  <2> HIDE DEF f
  <2> QED
    BY <2>1, <2>2, FewerIfMapped
<1>3. ASSUME NEW T, Head(mb).type \in T /\ Head(mb).job = j
      PROVE  Carries(mb, T, j) /\ (Once(mb, T, j) => ~Carries(rest, T, j))
  <2>1. 1 \in DOMAIN mb /\ At(mb, 1, T, j)
    BY <1>1, <1>3 DEF At
  <2>2. ASSUME NEW i \in DOMAIN rest, At(rest, i, T, j)
        PROVE  i + 1 \in DOMAIN mb /\ At(mb, i + 1, T, j) /\ i + 1 # 1
    BY <1>1, <2>2 DEF At
  <2> QED
    BY <2>1, <2>2 DEF Carries, Once
<1>4. ASSUME NEW T, ~(Head(mb).type \in T /\ Head(mb).job = j), Carries(mb, T, j)
      PROVE  Carries(rest, T, j)
  <2>1. PICK i \in DOMAIN mb : At(mb, i, T, j)
    BY <1>4 DEF Carries
  <2>2. i # 1
    BY <1>1, <1>4, <2>1 DEF At
  <2>3. i - 1 \in DOMAIN rest /\ rest[i - 1] = mb[i]
    BY <1>1, <2>1, <2>2
  <2> QED
    BY <2>1, <2>3 DEF Carries, At
<1> QED
  BY <1>2, <1>3, <1>4 DEF rest

LEMMA AppendCarries ==
  ASSUME NEW M, NEW mb \in Seq(M), NEW m \in M, NEW j
  PROVE  /\ \A T : Carries(Append(mb, m), T, j) <=> Carries(mb, T, j) \/ (m.type \in T /\ m.job = j)
         /\ \A T : Once(mb, T, j) /\ ~Carries(mb, T, j) => Once(Append(mb, m), T, j)
         /\ \A T : Once(mb, T, j) /\ ~(m.type \in T /\ m.job = j) => Once(Append(mb, m), T, j)
<1> DEFINE more == Append(mb, m)
           l == Len(mb)
<1>1. /\ l \in Nat /\ DOMAIN mb = 1 .. l /\ DOMAIN more = 1 .. l + 1
      /\ \A i \in 1 .. l : more[i] = mb[i]
      /\ more[l + 1] = m
  BY AppendProperties, LenProperties
<1> HIDE DEF more, l
<1>2. ASSUME NEW T
      PROVE  Carries(more, T, j) <=> Carries(mb, T, j) \/ (m.type \in T /\ m.job = j)
  <2>1. DOMAIN more = DOMAIN mb \cup {l + 1}
    BY <1>1
  <2> QED
    BY <1>1, <2>1 DEF Carries, At
<1>3. ASSUME NEW T, Once(mb, T, j), ~Carries(mb, T, j) \/ ~(m.type \in T /\ m.job = j)
      PROVE  Once(more, T, j)
  <2>1. SUFFICES ASSUME NEW i \in DOMAIN more, NEW k \in DOMAIN more,
                        At(more, i, T, j), At(more, k, T, j)
                 PROVE  i = k
    BY DEF Once
  <2>2. CASE i = l + 1 \/ k = l + 1
    BY <1>1, <1>3, <2>1, <2>2 DEF Carries, At
  <2>3. CASE i # l + 1 /\ k # l + 1
    <3>1. i \in DOMAIN mb /\ k \in DOMAIN mb /\ At(mb, i, T, j) /\ At(mb, k, T, j)
      BY <1>1, <2>1, <2>3 DEF At
    <3> QED
      BY <1>3, <3>1 DEF Once
  <2> QED
    BY <2>2, <2>3
<1> QED
  BY <1>2, <1>3 DEF more

\* Killing the sender of m takes away m, and nothing else.
LEMMA CancelledCarries ==
  ASSUME NEW M, NEW mb \in Seq(M), NEW m, NEW j
  PROVE  /\ Fewer(mb, Cancelled(mb, m), j)
         /\ \A T : ~(m.type \in T /\ m.job = j) => (Carries(mb, T, j) => Carries(Cancelled(mb, m), T, j))
         /\ \A T : /\ Once(mb, T, j)
                   /\ \A i \in DOMAIN mb : At(mb, i, T, j) => mb[i] = m
                   => ~Carries(Cancelled(mb, m), T, j)
<1>1. CASE ~Queued(mb, m)
  BY <1>1 DEF Cancelled, Queued, Fewer, Carries
<1>2. CASE Queued(mb, m)
  <2> DEFINE c == CHOOSE i \in DOMAIN mb : mb[i] = m
             s1 == SubSeq(mb, 1, c - 1)
             s2 == SubSeq(mb, c + 1, Len(mb))
             rest == s1 \o s2
  <2>1. c \in DOMAIN mb /\ mb[c] = m
    BY <1>2 DEF Queued
  <2>2. DOMAIN mb = 1 .. Len(mb) /\ Len(mb) \in Nat
    BY LenProperties
  <2> HIDE DEF c
  <2>3. /\ s1 \in Seq(M) /\ Len(s1) = c - 1
        /\ \A i \in 1 .. c - 1 : s1[i] = mb[i]
    BY <2>1, <2>2, SubSeqProperties, ElementOfSeq
  <2>4. /\ s2 \in Seq(M) /\ Len(s2) = Len(mb) - c
        /\ \A i \in 1 .. Len(mb) - c : s2[i] = mb[i + c]
    BY <2>1, <2>2, SubSeqProperties, ElementOfSeq
  <2> HIDE DEF s1, s2
  <2>5. /\ rest \in Seq(M) /\ DOMAIN rest = 1 .. Len(mb) - 1
        /\ \A i \in DOMAIN rest : rest[i] = IF i < c THEN mb[i] ELSE mb[i + 1]
    <3>1. rest \in Seq(M) /\ Len(rest) = Len(mb) - 1
      <4>1. rest \in Seq(M) /\ Len(rest) = Len(s1) + Len(s2)
        BY <2>3, <2>4, ConcatProperties
      <4>2. c \in Int /\ Len(mb) \in Int
        BY <2>1, <2>2
      <4> QED
        BY <2>3, <2>4, <4>1, <4>2
    <3>2. DOMAIN rest = 1 .. Len(mb) - 1
      BY <3>1, LenProperties
    <3>3. ASSUME NEW i \in 1 .. Len(mb) - 1
          PROVE  rest[i] = IF i < c THEN mb[i] ELSE mb[i + 1]
      <4>1. rest[i] = IF i <= c - 1 THEN s1[i] ELSE s2[i - (c - 1)]
        BY <2>1, <2>2, <2>3, <2>4, ConcatProperties
      <4>2. CASE i < c
        BY <2>1, <2>2, <2>3, <4>1, <4>2
      <4>3. CASE i >= c
        <5>1. i - (c - 1) \in 1 .. Len(mb) - c /\ i - (c - 1) + c = i + 1
          BY <2>1, <2>2, <4>3
        <5> QED
          BY SMTT(30), <2>1, <2>2, <2>4, <4>1, <4>3, <5>1
      <4>4. i \in Int /\ c \in Int
        BY <2>1, <2>2
      <4>5. i < c \/ i >= c
        BY <4>4
      <4> QED
        BY <4>2, <4>3, <4>5
    <3> QED
      BY <3>1, <3>2, <3>3
  <2>6. Cancelled(mb, m) = rest
    BY <1>2 DEF Cancelled, c, s1, s2
  <2> HIDE DEF rest
  <2>7. Fewer(mb, rest, j)
    <3> DEFINE f == [i \in DOMAIN rest |-> IF i < c THEN i ELSE i + 1]
    <3>1. \A i \in DOMAIN rest : f[i] \in DOMAIN mb /\ mb[f[i]] = rest[i]
      BY <2>1, <2>2, <2>5
    <3>2. \A i, k \in DOMAIN rest : f[i] = f[k] => i = k
      BY <2>1, <2>2, <2>5
    <3> HIDE DEF f
    <3> QED
      BY <3>1, <3>2, FewerIfMapped
  <2>8. ASSUME NEW T, ~(m.type \in T /\ m.job = j), Carries(mb, T, j)
        PROVE  Carries(rest, T, j)
    <3>1. PICK i \in DOMAIN mb : At(mb, i, T, j)
      BY <2>8 DEF Carries
    <3>2. i # c
      BY <2>1, <2>8, <3>1 DEF At
    <3>3. \E k \in DOMAIN rest : rest[k] = mb[i]
      <4>1. CASE i < c
        BY <2>1, <2>2, <2>5, <3>1, <4>1
      <4>2. CASE i > c
        <5>1. i - 1 \in DOMAIN rest /\ ~(i - 1 < c)
          BY <2>1, <2>2, <2>5, <3>1, <4>2
        <5>2. rest[i - 1] = mb[i]
          BY <2>1, <2>2, <2>5, <3>1, <5>1
        <5> QED
          BY <5>1, <5>2
      <4> QED
        BY <2>1, <2>2, <3>1, <3>2, <4>1, <4>2
    <3> QED
      BY <3>1, <3>3 DEF Carries, At
  <2>9. ASSUME NEW T, Once(mb, T, j), \A i \in DOMAIN mb : At(mb, i, T, j) => mb[i] = m,
               Carries(rest, T, j)
        PROVE  FALSE
    <3>1. PICK k \in DOMAIN rest : At(rest, k, T, j)
      BY <2>9 DEF Carries
    <3>2. PICK i \in DOMAIN mb : i # c /\ mb[i] = rest[k]
      BY <2>1, <2>2, <2>5
    <3>3. At(mb, i, T, j) /\ At(mb, c, T, j)
      BY <2>1, <2>9, <3>1, <3>2 DEF At
    <3> QED
      BY <2>1, <2>9, <3>2, <3>3 DEF Once
  <2> QED
    BY <2>6, <2>7, <2>8, <2>9
<1> QED
  BY <1>1, <1>2

-----------------------------------------------------------------------------
(* Sequences of jobs.                                                      *)

LEMMA AppendRange ==
  ASSUME NEW S, NEW s \in Seq(S), NEW e \in S
  PROVE  Range(Append(s, e)) = Range(s) \cup {e}
<1>1. /\ Append(s, e) \in Seq(S) /\ Len(Append(s, e)) = Len(s) + 1
      /\ \A i \in 1 .. Len(s) : Append(s, e)[i] = s[i]
      /\ Append(s, e)[Len(s) + 1] = e
  BY AppendProperties
<1>2. Range(Append(s, e)) = {Append(s, e)[i] : i \in 1 .. Len(s) + 1}
  BY <1>1, RangeEquality
<1>3. Range(s) = {s[i] : i \in 1 .. Len(s)}
  BY RangeEquality
<1>4. Len(s) \in Nat /\ 1 .. Len(s) + 1 = (1 .. Len(s)) \cup {Len(s) + 1}
  BY LenProperties
<1> QED
  BY <1>1, <1>2, <1>3, <1>4

LEMMA TailRange ==
  ASSUME NEW S, NEW s \in Seq(S), s # <<>>
  PROVE  /\ Range(Tail(s)) \subseteq Range(s)
         /\ Range(s) \subseteq {Head(s)} \cup Range(Tail(s))
<1>1. /\ Tail(s) \in Seq(S) /\ Len(Tail(s)) = Len(s) - 1 /\ Head(s) = s[1]
      /\ \A i \in 1 .. Len(s) - 1 : Tail(s)[i] = s[i + 1]
  BY HeadTailProperties
<1>2. Range(Tail(s)) = {Tail(s)[i] : i \in 1 .. Len(s) - 1}
  BY <1>1, RangeEquality
<1>3. Range(s) = {s[i] : i \in 1 .. Len(s)}
  BY RangeEquality
<1>4. Len(s) \in Nat \ {0}
  BY EmptySeq
<1>5. ASSUME NEW i \in 1 .. Len(s) - 1
      PROVE  Tail(s)[i] \in Range(s)
  BY <1>1, <1>3, <1>4
<1>6. ASSUME NEW i \in 1 .. Len(s), i # 1
      PROVE  s[i] \in Range(Tail(s))
  <2>1. i - 1 \in 1 .. Len(s) - 1 /\ (i - 1) + 1 = i
    BY <1>4, <1>6
  <2> QED
    BY <1>1, <1>2, <2>1
<1> QED
  BY <1>1, <1>2, <1>3, <1>5, <1>6

-----------------------------------------------------------------------------
(* What an action does to the state of the jobs.                           *)

\* Only job j may have another state, and that is new.
Moves(j, new) ==
  \A i \in Jobs : state'[i] = state[i] \/ (i = j /\ state'[i] = new)

LEMMA SetStateMoves ==
  ASSUME JobNodeTypeOK, NEW j \in Jobs, NEW new, SetState(j, new)
  PROVE  Moves(j, new) /\ state'[j] = new
BY DEF JobNodeTypeOK, SetState, Moves

\* The scheduler, once it has taken a message, makes a job one of these.
LEMMA HandleMessageMoves ==
  ASSUME JobNodeTypeOK, HandleMessage
  PROVE  \A i \in Jobs : \/ state'[i] = state[i]
                         \/ state'[i] \in {"PENDING", "IN_RECONFIGURATION", "KILLED", "COMPLETED"}
<1>1. CASE HandleInvoke \/ HandleFinalize \/ \E j \in Jobs : HandleEvolvingRequest(j)
  BY <1>1 DEF HandleInvoke, HandleFinalize, HandleEvolvingRequest, jobVars
<1>2. ASSUME NEW j \in Jobs, HandleJobSubmit(j) PROVE Moves(j, "PENDING")
  BY <1>2, SetStateMoves DEF HandleJobSubmit
<1>3. ASSUME NEW j \in Jobs, HandleSchedulingPoint(j) PROVE Moves(j, "IN_RECONFIGURATION")
  BY <1>3, SetStateMoves DEF HandleSchedulingPoint, HandleReconfiguration, Continue, jobVars, Moves
<1>4. ASSUME NEW j \in Jobs, HandleWalltimeExceeded(j) PROVE Moves(j, "KILLED")
  BY <1>4, SetStateMoves DEF HandleWalltimeExceeded, ForwardJobKill, jobVars, Moves
<1>5. ASSUME NEW j \in Jobs, HandleProcessedWorkload(j) PROVE Moves(j, "COMPLETED")
  BY <1>5, SetStateMoves DEF HandleProcessedWorkload
<1> QED
  BY <1>1, <1>2, <1>3, <1>4, <1>5 DEF HandleMessage, Moves

\* The other actors make a job only running.
LEMMA ActorsMove ==
  ASSUME JobNodeTypeOK,
         \/ \E j \in Jobs : Application(j) \/ WalltimeExceeded(j)
         \/ InvokePeriodically \/ IntervalElapses \/ Simulation
  PROVE  \A i \in Jobs : state'[i] = state[i] \/ (state'[i] = "RUNNING" /\ app[i] = "starting")
<1>1. ASSUME NEW j \in Jobs, AppStarts(j)
      PROVE  Moves(j, "RUNNING") /\ app[j] = "starting"
  BY <1>1, SetStateMoves DEF AppStarts
<1>2. CASE UNCHANGED passive
  BY <1>2 DEF passive, jobVars
<1> QED
  BY <1>1, <1>2 DEF Application, AppIterates, AppCompletes, AppRequests, WalltimeExceeded,
                    InvokePeriodically, IntervalElapses, Simulation, Moves

-----------------------------------------------------------------------------
(* DecisionsForwarded.                                                     *)

LEMMA RespondDecisions ==
  ASSUME TypeOK, DecisionsForwarded, fault = "none", Respond
  PROVE  DecisionsForwarded'
<1> USE DEF TypeOK
<1>0. scheduled \in Seq(Jobs)
  BY DEF SchedulerTypeOK, ControlTypeOK
<1>1. ASSUME NEW j \in Jobs, NEW new, Moves(j, new), Named(j), pc = "respond", pc' = pc, fault' = fault
      PROVE  DecisionsForwarded'
  <2>1. Range(scheduled') = Range(scheduled) \cup {j}
    BY <1>0, <1>1, AppendRange DEF Named
  <2> QED
    BY <1>1, <2>1 DEF DecisionsForwarded, Moves
<1>2. ASSUME NEW j \in Jobs, DecideKill(j)
      PROVE  DecisionsForwarded'
  BY <1>1, <1>2, SetStateMoves DEF DecideKill
<1>3. ASSUME NEW j \in Jobs, NEW q \in Allocations, DecideNodes(j, q)
      PROVE  DecisionsForwarded'
  <2>1. CASE MayAssign(j, q)
    <3>1. Moves(j, UpdatedState(state[j], q, executing[j]))
      BY <1>3, <2>1 DEF DecideNodes, Assign, Moves, JobNodeTypeOK
    <3> QED
      BY <1>1, <1>3, <2>1, <3>1 DEF DecideNodes
  <2>2. CASE ~MayAssign(j, q)
    BY <1>3, <2>2 DEF DecideNodes, DecisionsForwarded
  <2> QED
    BY <2>1, <2>2
<1>4. CASE EndResponse
  BY <1>4 DEF EndResponse, DecisionsForwarded, jobVars
<1> QED
  BY <1>2, <1>3, <1>4 DEF Respond

LEMMA ForwardDecisions ==
  ASSUME TypeOK, DecisionsForwarded, fault = "none", Answer \/ Forward \/ EndSchedule
  PROVE  DecisionsForwarded'
<1> USE DEF TypeOK
<1>1. CASE Answer
  <2>1. req \in Jobs
    BY <1>1 DEF Answer, SchedulerTypeOK, ControlTypeOK
  <2>2. \/ fault' = "null"
        \/ Moves(req, "KILLED") \/ Moves(req, "IN_RECONFIGURATION")
    BY <1>1, <2>1, SetStateMoves DEF Answer, ForwardJobKill, HandleReconfiguration, Continue, jobVars,
                                     Moves
  <2> QED
    BY <1>1, <2>1, <2>2 DEF Answer, DecisionsForwarded, Moves
<1>2. CASE Forward
  <2> DEFINE j == Head(scheduled)
  <2>1. scheduled \in Seq(Jobs) /\ scheduled # <<>>
    BY <1>2 DEF Forward, SchedulerTypeOK, ControlTypeOK
  <2>2. j \in Jobs /\ Range(scheduled) \subseteq {j} \cup Range(Tail(scheduled))
    BY <2>1, HeadTailProperties, TailRange
  <2>3. pc' = "forward" /\ pc = "forward" /\ scheduled' = Tail(scheduled)
    BY <1>2 DEF Forward
  <2>4. \/ fault' # "none"
        \/ Moves(j, "RUNNING") /\ state'[j] = "RUNNING"
        \/ Moves(j, "KILLED") /\ state'[j] = "KILLED"
        \/ UNCHANGED state /\ state[j] \notin {"PENDING_ALLOCATION", "PENDING_KILL"}
    <3>1. CASE state[j] = "PENDING_ALLOCATION"
      <4>1. ForwardJobAllocation(j)
        BY <1>2, <3>1 DEF Forward
      <4> HIDE DEF j
      <4> QED
        BY <2>2, <4>1, SetStateMoves DEF ForwardJobAllocation
    <3>2. CASE state[j] = "PENDING_KILL"
      <4>1. ForwardJobKill(j, FALSE, mailbox)
        BY <1>2, <3>2 DEF Forward
      <4> HIDE DEF j
      <4> QED
        BY <2>2, <4>1, SetStateMoves DEF ForwardJobKill
    <3>3. CASE state[j] \notin {"PENDING_ALLOCATION", "PENDING_KILL"}
      BY <1>2, <3>3 DEF Forward, jobVars
    <3> QED
      BY <3>1, <3>2, <3>3
  <2> HIDE DEF j
  <2> QED
    BY <2>2, <2>3, <2>4 DEF DecisionsForwarded, Moves
<1>3. CASE EndSchedule
  <2>1. Range(scheduled) = {}
    BY <1>3 DEF EndSchedule, Range
  <2> QED
    BY <1>3, <2>1 DEF EndSchedule, DecisionsForwarded, jobVars
<1> QED
  BY <1>1, <1>2, <1>3

LEMMA NextDecisions == TypeOK /\ DecisionsForwarded /\ [Next]_vars => DecisionsForwarded'
<1> SUFFICES ASSUME TypeOK, DecisionsForwarded, [Next]_vars PROVE DecisionsForwarded'
  OBVIOUS
<1> USE DEF TypeOK
<1>1. CASE Scheduling
  <2>1. fault = "none"
    BY <1>1 DEF Scheduling, SchedulerNext
  <2>2. CASE HandleMessage
    <3>1. pc = "idle"
      BY <2>2 DEF HandleMessage, HandleInvoke, HandleJobSubmit, HandleSchedulingPoint,
                  HandleEvolvingRequest, HandleWalltimeExceeded, HandleProcessedWorkload,
                  HandleFinalize, Received
    <3> QED
      BY <2>1, <2>2, <3>1, HandleMessageMoves DEF DecisionsForwarded
  <2>3. CASE Invoke
    BY <2>1, <2>3 DEF Invoke, DecisionsForwarded
  <2> QED
    BY <1>1, <2>1, <2>2, <2>3, RespondDecisions, ForwardDecisions DEF Scheduling, SchedulerNext
<1>2. CASE \/ \E j \in Jobs : Application(j) \/ WalltimeExceeded(j)
           \/ InvokePeriodically \/ IntervalElapses \/ Simulation
  <2>1. UNCHANGED scheduleVars /\ fault = "none"
    BY <1>2 DEF Application, WalltimeExceeded, InvokePeriodically, IntervalElapses, Simulation,
                schedulerOnly
  <2> QED
    BY <1>2, <2>1, ActorsMove DEF DecisionsForwarded, scheduleVars
<1>3. CASE UNCHANGED vars
  BY <1>3 DEF vars, jobVars, scheduleVars, DecisionsForwarded
<1> QED
  BY <1>1, <1>2, <1>3 DEF Next

\* The decisions of one response are carried out or lost before the scheduler takes its next
\* message: whatever the algorithm names is forwarded, a job may be named only to be passed
\* over, but none keeps a decision that nothing will carry out.
THEOREM NoDecisionIsLeft == Spec => []DecisionsForwarded
<1>1. Init => DecisionsForwarded
  BY DEF Init, JobInit, NodeInit, DecisionsForwarded
<1> QED
  BY <1>1, NextDecisions, TypeCorrect, PTL DEF Spec

-----------------------------------------------------------------------------
(* A step concerns one job or none, and leaves the other jobs alone.       *)

SchedulerStepOf(j) ==
  \/ HandleJobSubmit(j) \/ HandleSchedulingPoint(j) \/ HandleEvolvingRequest(j)
  \/ HandleWalltimeExceeded(j) \/ HandleProcessedWorkload(j)
  \/ DecideKill(j) \/ \E q \in Allocations : DecideNodes(j, q)
  \/ Answer /\ req = j
  \/ Forward /\ Head(scheduled) = j

ReceiveJobStep(j) == ReceiveJob(j) /\ UNCHANGED <<fault, passive, schedulerOnly, actorVars, left>>

StepOf(j) ==
  /\ fault = "none"
  /\ \/ SchedulerStepOf(j) /\ UNCHANGED <<left, engineVars>>
     \/ Application(j)
     \/ WalltimeExceeded(j)
     \/ ReceiveJobStep(j)

EngineStep ==
  /\ \/ JobSubmitter \/ ReceiveNumberOfJobs \/ SendFinalize \/ WriteStatistics
     \/ \E j \in Jobs, type \in {"JOB_COMPLETED", "JOB_KILLED"} : ReceiveEnd(type, j)
  /\ WriteStatistics \/ UNCHANGED fault
  /\ UNCHANGED <<passive, schedulerOnly, actorVars, left>>

StepOfNone ==
  \/ /\ fault = "none"
     /\ \/ /\ HandleInvoke \/ HandleFinalize \/ Invoke \/ EndResponse \/ EndSchedule
           /\ UNCHANGED <<left, engineVars>>
        \/ InvokePeriodically
        \/ IntervalElapses
        \/ EngineStep
  \/ UNCHANGED vars

LEMMA StepCases ==
  ASSUME TypeOK, [Next]_vars
  PROVE  StepOfNone \/ \E j \in Jobs : StepOf(j)
<1>1. CASE Scheduling
  <2>1. pc = "answer" => req \in Jobs
    BY DEF TypeOK, SchedulerTypeOK, ControlTypeOK
  <2>2. pc = "forward" /\ scheduled # <<>> => Head(scheduled) \in Jobs
    <3>1. scheduled \in Seq(Jobs)
      BY DEF TypeOK, SchedulerTypeOK, ControlTypeOK
    <3> QED
      BY <3>1, HeadTailProperties
  <2>3. Scheduling => fault = "none" /\ UNCHANGED <<left, engineVars>>
    BY DEF Scheduling, SchedulerNext
  <2>4. Answer => pc = "answer"
    BY DEF Answer
  <2>5. Forward => pc = "forward" /\ scheduled # <<>>
    BY DEF Forward
  <2> QED
    BY <1>1, <2>1, <2>2, <2>3, <2>4, <2>5
       DEF Scheduling, SchedulerNext, HandleMessage, Respond, StepOfNone, StepOf, SchedulerStepOf
<1>2. CASE \E j \in Jobs : Application(j) \/ WalltimeExceeded(j)
  BY <1>2 DEF Application, WalltimeExceeded, StepOf
<1>3. CASE InvokePeriodically \/ IntervalElapses
  BY <1>3 DEF InvokePeriodically, IntervalElapses, StepOfNone
<1>4. CASE Simulation
  BY <1>4 DEF Simulation, SimulationEngine, StepOfNone, EngineStep, StepOf, ReceiveJobStep
<1>5. CASE UNCHANGED vars
  BY <1>5 DEF StepOfNone
<1> QED
  BY <1>1, <1>2, <1>3, <1>4, <1>5 DEF Next

SameJob(i) ==
  /\ state'[i] = state[i] /\ assigned'[i] = assigned[i] /\ executing'[i] = executing[i]
  /\ app'[i] = app[i] /\ monitor'[i] = monitor[i]

\* The mailbox holds what it held of job i.
SameMail(i) ==
  /\ Fewer(mailbox, mailbox', i)
  /\ \A T : Carries(mailbox, T, i) => Carries(mailbox', T, i)

Untouched(i) == SameJob(i) /\ SameMail(i) /\ (Asking(i)' <=> Asking(i))

LEMMA SameMailIf ==
  ASSUME NEW i, mailbox \in Seq(SchedMsg),
         \/ mailbox' = mailbox
         \/ mailbox # <<>> /\ Head(mailbox).job # i /\ mailbox' = Tail(mailbox)
         \/ \E m \in SchedMsg : m.job # i /\ mailbox' = Append(mailbox, m)
         \/ \E m : m.job # i /\ mailbox' = Cancelled(mailbox, m)
         \/ mailbox # <<>> /\ Head(mailbox).job # i
              /\ \E m : m.job # i /\ mailbox' = Cancelled(Tail(mailbox), m)
  PROVE  SameMail(i)
<1>1. CASE mailbox' = mailbox
  BY <1>1 DEF SameMail, Fewer
<1>2. CASE mailbox # <<>> /\ Head(mailbox).job # i /\ mailbox' = Tail(mailbox)
  BY <1>2, TailCarries DEF SameMail
<1>3. ASSUME NEW m \in SchedMsg, m.job # i, mailbox' = Append(mailbox, m)
      PROVE  SameMail(i)
  BY <1>3, AppendCarries DEF SameMail, Fewer
<1>4. ASSUME NEW m, m.job # i, mailbox' = Cancelled(mailbox, m)
      PROVE  SameMail(i)
  BY <1>4, CancelledCarries DEF SameMail
<1>5. ASSUME NEW m, mailbox # <<>>, Head(mailbox).job # i, m.job # i,
             mailbox' = Cancelled(Tail(mailbox), m)
      PROVE  SameMail(i)
  <2>1. Tail(mailbox) \in Seq(SchedMsg)
    BY <1>5, HeadTailProperties
  <2>2. /\ Fewer(mailbox, Tail(mailbox), i)
        /\ \A T : Carries(mailbox, T, i) => Carries(Tail(mailbox), T, i)
    BY <1>5, TailCarries
  <2>3. /\ Fewer(Tail(mailbox), mailbox', i)
        /\ \A T : Carries(Tail(mailbox), T, i) => Carries(mailbox', T, i)
    BY <1>5, <2>1, CancelledCarries
  <2> QED
    BY <2>2, <2>3, FewerTransitive DEF SameMail
<1> QED
  BY <1>1, <1>2, <1>3, <1>4, <1>5

LEMMA StepOfNoneTouches ==
  ASSUME TypeOK, StepOfNone, NEW i \in Jobs
  PROVE  Untouched(i)
<1>0. mailbox \in Seq(SchedMsg) /\ NoJob # i
  BY SchedulerConfiguration DEF TypeOK, SchedulerTypeOK
<1>1. CASE HandleInvoke \/ HandleFinalize
  <2>1. /\ mailbox # <<>> /\ Head(mailbox).job # i /\ mailbox' = Tail(mailbox)
        /\ UNCHANGED <<jobVars, actorVars>>
        /\ ~Asking(i) /\ ~Asking(i)'
    BY <1>0, <1>1 DEF HandleInvoke, HandleFinalize, Received, Message, Schedule, Return, Asking
  <2> QED
    BY <1>0, <2>1, SameMailIf DEF Untouched, SameJob, jobVars, actorVars
<1>2. CASE Invoke \/ EndResponse \/ EndSchedule
  <2>1. /\ UNCHANGED <<state, assigned, executing, actorVars, mailbox>>
        /\ Asking(i)' <=> Asking(i)
    BY <1>2 DEF Invoke, EndResponse, EndSchedule, jobVars, Asking
  <2> QED
    BY <1>0, <2>1, SameMailIf DEF Untouched, SameJob, actorVars
<1>3. CASE InvokePeriodically \/ IntervalElapses \/ EngineStep \/ UNCHANGED vars
  <2>1. /\ UNCHANGED <<jobVars, actorVars>>
        /\ Asking(i)' <=> Asking(i)
    BY <1>3 DEF InvokePeriodically, IntervalElapses, EngineStep, vars, schedulerOnly,
                scheduleVars, passive, Asking
  <2>2. mailbox' = mailbox \/ \E m \in SchedMsg : m.job # i /\ mailbox' = Append(mailbox, m)
    <3>1. \A type \in {"INVOKE_SCHEDULING", "SCHEDULER_FINALIZE"} :
            Message(type, NoJob) \in SchedMsg /\ Message(type, NoJob).job # i
      BY <1>0, MessageTypes DEF Message
    <3> QED
      BY <1>3, <3>1 DEF InvokePeriodically, IntervalElapses, EngineStep, vars, JobSubmitter,
            SendNumberOfJobs, SubmitJob, ReceiveNumberOfJobs, SendFinalize, WriteStatistics, ReceiveEnd
  <2> QED
    BY <1>0, <2>1, <2>2, SameMailIf DEF Untouched, SameJob, jobVars, actorVars
<1> QED
  BY <1>1, <1>2, <1>3 DEF StepOfNone

LEMMA SetStateSame ==
  ASSUME JobNodeTypeOK, NEW j \in Jobs, NEW new, SetState(j, new), NEW i \in Jobs, i # j
  PROVE  state'[i] = state[i] /\ executing'[i] = executing[i]
BY DEF JobNodeTypeOK, SetState

\* What the operations that handlers share do to the other jobs.
LEMMA OperationsTouchOne ==
  ASSUME TypeOK, NEW j \in Jobs, NEW i \in Jobs, i # j
  PROVE  /\ \A x, mb : ForwardJobKill(j, x, mb) =>
              /\ SameJob(i)
              /\ mailbox' = mb \/ mailbox' = Cancelled(mb, Message("WALLTIME_EXCEEDED", j))
         /\ ForwardJobAllocation(j) => SameJob(i)
         /\ HandleReconfiguration(j) => SameJob(i)
         /\ Continue(j) => SameJob(i)
<1> USE DEF TypeOK, JobNodeTypeOK, SchedulerTypeOK, ActorTypeOK
<1>1. ASSUME NEW x, NEW mb, ForwardJobKill(j, x, mb)
      PROVE  /\ SameJob(i)
             /\ mailbox' = mb \/ mailbox' = Cancelled(mb, Message("WALLTIME_EXCEEDED", j))
  BY <1>1, SetStateSame DEF ForwardJobKill, SameJob, jobVars, actorVars
<1>2. ASSUME ForwardJobAllocation(j) PROVE SameJob(i)
  BY <1>2, SetStateSame DEF ForwardJobAllocation, SameJob, jobVars, actorVars
<1>3. ASSUME HandleReconfiguration(j) PROVE SameJob(i)
  BY <1>3, SetStateSame DEF HandleReconfiguration, SameJob
<1>4. ASSUME Continue(j) PROVE SameJob(i)
  BY <1>4 DEF Continue, SameJob, jobVars
<1> QED
  BY <1>1, <1>2, <1>3, <1>4

LEMMA SchedulerStepTouchesOne ==
  ASSUME TypeOK, NEW j \in Jobs, SchedulerStepOf(j), NEW i \in Jobs, i # j
  PROVE  Untouched(i)
<1>0. /\ mailbox \in Seq(SchedMsg)
      /\ Message("WALLTIME_EXCEEDED", j).job # i
      /\ JobNodeTypeOK
      /\ monitor \in [Jobs -> {"none", "armed", "ended"}]
  BY DEF TypeOK, SchedulerTypeOK, ActorTypeOK, Message
<1>1. ASSUME NEW type, Received(type, j)
      PROVE  mailbox # <<>> /\ Head(mailbox).job # i /\ pc = "idle"
  BY <1>1 DEF Received, Message
<1>2. ASSUME NEW wanted, NEW type, pc = "idle", Schedule(wanted, type, j)
      PROVE  ~Asking(i) /\ ~Asking(i)'
  BY <1>2 DEF Schedule, Return, Asking
<1>3. ASSUME pc = "idle", Return
      PROVE  ~Asking(i) /\ ~Asking(i)'
  BY <1>3 DEF Return, Asking
<1>4. CASE HandleJobSubmit(j)
  <2>1. SameJob(i)
    BY <1>0, <1>4, SetStateSame DEF HandleJobSubmit, SameJob, actorVars
  <2> QED
    BY <1>0, <1>1, <1>2, <1>4, <2>1, SameMailIf DEF HandleJobSubmit, Untouched
<1>5. CASE HandleSchedulingPoint(j)
  <2>1. SameJob(i)
    BY <1>5, OperationsTouchOne DEF HandleSchedulingPoint, SameJob, jobVars, actorVars
  <2>2. ~Asking(i) /\ ~Asking(i)'
    BY <1>1, <1>2, <1>3, <1>5 DEF HandleSchedulingPoint
  <2> QED
    BY <1>0, <1>1, <1>5, <2>1, <2>2, SameMailIf DEF HandleSchedulingPoint, Untouched
<1>6. CASE HandleEvolvingRequest(j)
  <2>1. SameJob(i)
    BY <1>6 DEF HandleEvolvingRequest, SameJob, jobVars, actorVars
  <2> QED
    BY <1>0, <1>1, <1>2, <1>6, <2>1, SameMailIf DEF HandleEvolvingRequest, Untouched
<1>7. CASE HandleWalltimeExceeded(j)
  <2>1. /\ SameJob(i)
        /\ \/ mailbox' = Tail(mailbox)
           \/ mailbox' = Cancelled(Tail(mailbox), Message("WALLTIME_EXCEEDED", j))
    BY <1>7, OperationsTouchOne DEF HandleWalltimeExceeded
  <2> QED
    BY <1>0, <1>1, <1>2, <1>7, <2>1, SameMailIf DEF HandleWalltimeExceeded, Untouched
<1>8. CASE HandleProcessedWorkload(j)
  <2>1. SameJob(i)
    BY <1>0, <1>8, SetStateSame DEF HandleProcessedWorkload, SameJob
  <2> QED
    BY <1>0, <1>1, <1>2, <1>8, <2>1, SameMailIf DEF HandleProcessedWorkload, Untouched
<1>9. CASE DecideKill(j) \/ \E q \in Allocations : DecideNodes(j, q)
  <2>1. SameJob(i)
    <3>1. CASE DecideKill(j)
      BY <1>0, <3>1, SetStateSame DEF DecideKill, SameJob, actorVars
    <3>2. ASSUME NEW q \in Allocations, DecideNodes(j, q) PROVE SameJob(i)
      BY <1>0, <3>2 DEF DecideNodes, Assign, SameJob, jobVars, actorVars, JobNodeTypeOK
    <3> QED
      BY <1>9, <3>1, <3>2
  <2>2. UNCHANGED <<mailbox, pc, inv, req>>
    BY <1>9 DEF DecideKill, DecideNodes
  <2> QED
    BY <1>0, <2>1, <2>2, SameMailIf DEF Untouched, Asking
<1>10. CASE (Answer /\ req = j) \/ (Forward /\ Head(scheduled) = j)
  <2>1. /\ SameJob(i)
        /\ \/ mailbox' = mailbox
           \/ mailbox' = Cancelled(mailbox, Message("WALLTIME_EXCEEDED", j))
    BY ZenonT(60), <1>10, OperationsTouchOne DEF Answer, Forward, SameJob, jobVars, actorVars
  <2>2. ~Asking(i) /\ ~Asking(i)'
    BY <1>10 DEF Answer, Forward, Asking
  <2> QED
    BY <1>0, <2>1, <2>2, SameMailIf DEF Untouched
<1> QED
  BY <1>4, <1>5, <1>6, <1>7, <1>8, <1>9, <1>10 DEF SchedulerStepOf

LEMMA StepTouchesOne ==
  ASSUME TypeOK, NEW j \in Jobs, StepOf(j), NEW i \in Jobs, i # j
  PROVE  Untouched(i)
<1>0. JobNodeTypeOK /\ mailbox \in Seq(SchedMsg) /\ ActorTypeOK
  BY DEF TypeOK, SchedulerTypeOK
<1>1. CASE Application(j) \/ WalltimeExceeded(j) \/ ReceiveJobStep(j)
  <2>1. Asking(i)' <=> Asking(i)
    BY <1>1 DEF Application, WalltimeExceeded, ReceiveJobStep, schedulerOnly, scheduleVars, Asking
  <2>2. SameJob(i)
    <3>1. ASSUME AppStarts(j) PROVE SameJob(i)
      BY <1>0, <3>1, SetStateSame DEF AppStarts, SameJob, ActorTypeOK
    <3> QED
      BY <1>0, <1>1, <3>1 DEF Application, AppIterates, AppCompletes, AppRequests, WalltimeExceeded,
           ReceiveJobStep, passive, jobVars, actorVars, SameJob, ActorTypeOK
  <2>3. mailbox' = mailbox \/ \E m \in SchedMsg : m.job # i /\ mailbox' = Append(mailbox, m)
    <3>1. \A type \in {"JOB_SUBMIT", "SCHEDULING_POINT", "EVOLVING_REQUEST", "WALLTIME_EXCEEDED",
                       "WORKLOAD_PROCESSED"} :
            Message(type, j) \in SchedMsg /\ Message(type, j).job # i
      BY MessageTypes DEF Message
    <3> QED
      BY <1>1, <3>1 DEF Application, AppStarts, AppIterates, AppCompletes, AppRequests,
           WalltimeExceeded, ReceiveJobStep, ReceiveJob
  <2> QED
    BY <1>0, <2>1, <2>2, <2>3, SameMailIf DEF Untouched
<1> QED
  BY <1>1, SchedulerStepTouchesOne DEF StepOf

-----------------------------------------------------------------------------
(* The thread of control of a job: the inductive invariant.                *)

AppTypes == {"SCHEDULING_POINT", "EVOLVING_REQUEST", "WORKLOAD_PROCESSED"}

Posted(j) == Carries(mailbox, AppTypes, j)
Exceeded(j) == Carries(mailbox, {"WALLTIME_EXCEEDED"}, j)

\* The thread of control of j is in at most one place.
Alone(j) ==
  /\ Once(mailbox, AppTypes, j)
  /\ app[j] # "none" => ~Posted(j) /\ ~Asking(j)
  /\ ~(Posted(j) /\ Asking(j))

\* A job that never ran has no thread of control and no monitor.
Lifecycle(j) ==
  /\ executing[j] = <<>> =>
       /\ state[j] \in {"PENDING_SUBMISSION", "PENDING", "PENDING_ALLOCATION", "PENDING_KILL", "KILLED"}
       /\ app[j] = "none" /\ ~Posted(j) /\ ~Asking(j) /\ monitor[j] = "none"
  /\ executing[j] # <<>> =>
       /\ state[j] \notin {"PENDING_SUBMISSION", "PENDING", "PENDING_ALLOCATION"}
       /\ Walltime[j] => monitor[j] # "none"
  /\ state[j] \in {"PENDING_ALLOCATION", "PENDING_RECONFIGURATION"} => assigned[j] # <<>>
  /\ app[j] \in {"first", "later"} => state[j] \notin Final

\* A monitor reports once, and only of a job that has not ended.
Monitored(j) ==
  /\ ~Walltime[j] => monitor[j] = "none"
  /\ Exceeded(j) => monitor[j] = "ended"
  /\ Once(mailbox, {"WALLTIME_EXCEEDED"}, j)
  /\ state[j] \in Final => monitor[j] # "armed" /\ ~Exceeded(j)

\* A job is submitted at most once, and is pending submission until then.
Submission(j) ==
  /\ Carries(mailbox, {"JOB_SUBMIT"}, j) => state[j] = "PENDING_SUBMISSION" /\ j \in registered
  /\ Once(mailbox, {"JOB_SUBMIT"}, j)
  /\ j \notin registered => state[j] = "PENDING_SUBMISSION"
  /\ state[j] = "PENDING_SUBMISSION" => seen[j] = "PENDING_SUBMISSION"

\* SimulationEngine hears of every job once.
Engaged(j) ==
  /\ Carries(simMailbox, {"SUBMIT_JOB"}, j) => j \in submitted /\ j \notin registered
  /\ Once(simMailbox, {"SUBMIT_JOB"}, j)
  /\ j \in registered => j \in submitted

ThreadInv(j) == Alone(j) /\ Lifecycle(j) /\ Monitored(j)
ControlInv == \A j \in Jobs : ThreadInv(j) /\ Submission(j) /\ Engaged(j)

LEMMA UntouchedThread ==
  ASSUME NEW i \in Jobs, ThreadInv(i), Untouched(i)
  PROVE  ThreadInv(i)'
<1>1. /\ Posted(i)' => Posted(i)
      /\ Exceeded(i)' => Exceeded(i)
      /\ Once(mailbox, AppTypes, i) => Once(mailbox', AppTypes, i)
      /\ Once(mailbox, {"WALLTIME_EXCEEDED"}, i) => Once(mailbox', {"WALLTIME_EXCEEDED"}, i)
  BY DEF Untouched, SameMail, Fewer, Posted, Exceeded
<1>2. SameJob(i) /\ (Asking(i)' <=> Asking(i))
  BY DEF Untouched
<1>3. Alone(i)'
  BY <1>1, <1>2 DEF ThreadInv, Alone, SameJob
<1>4. Lifecycle(i)'
  BY <1>1, <1>2 DEF ThreadInv, Lifecycle, SameJob
<1>5. Monitored(i)'
  BY <1>1, <1>2 DEF ThreadInv, Monitored, SameJob
<1> QED
  BY <1>3, <1>4, <1>5 DEF ThreadInv

\* What a handler finds in the mailbox, and what is left there.
LEMMA ReceivedCarries ==
  ASSUME TypeOK, NEW j \in Jobs, NEW type, Received(type, j)
  PROVE  /\ pc = "idle" /\ ~Asking(j)
         /\ Tail(mailbox) \in Seq(SchedMsg)
         /\ Fewer(mailbox, Tail(mailbox), j)
         /\ \A T : type \in T => /\ Carries(mailbox, T, j)
                                 /\ Once(mailbox, T, j) => ~Carries(Tail(mailbox), T, j)
         /\ \A T : type \notin T => (Carries(mailbox, T, j) => Carries(Tail(mailbox), T, j))
<1>1. mailbox \in Seq(SchedMsg) /\ mailbox # <<>>
  BY DEF TypeOK, SchedulerTypeOK, Received
<1>2. pc = "idle" /\ Head(mailbox).type = type /\ Head(mailbox).job = j
  BY DEF Received, Message
<1> QED
  BY <1>1, <1>2, TailCarries, HeadTailProperties DEF Asking

\* Killing the monitor of j takes back its report, and nothing else.
LEMMA MonitorCancelled ==
  ASSUME NEW mb \in Seq(SchedMsg), NEW j \in Jobs
  PROVE  LET rest == Cancelled(mb, Message("WALLTIME_EXCEEDED", j))
         IN  /\ Fewer(mb, rest, j)
             /\ Once(mb, {"WALLTIME_EXCEEDED"}, j) => ~Carries(rest, {"WALLTIME_EXCEEDED"}, j)
             /\ \A T : "WALLTIME_EXCEEDED" \notin T => (Carries(mb, T, j) => Carries(rest, T, j))
<1> DEFINE m == Message("WALLTIME_EXCEEDED", j)
<1>1. m.type = "WALLTIME_EXCEEDED" /\ m.job = j
  BY DEF Message
<1>2. ASSUME NEW i \in DOMAIN mb, At(mb, i, {"WALLTIME_EXCEEDED"}, j)
      PROVE  mb[i] = m
  <2>1. mb[i] \in SchedMsg
    BY ElementOfSeq, LenProperties
  <2> QED
    BY <1>2, <2>1 DEF At, SchedMsg, Message
<1>3. ASSUME NEW T, "WALLTIME_EXCEEDED" \notin T
      PROVE  ~(m.type \in T /\ m.job = j)
  BY <1>1, <1>3
<1> HIDE DEF m
<1> DEFINE rest == Cancelled(mb, m)
<1>4. /\ Fewer(mb, rest, j)
      /\ \A T : ~(m.type \in T /\ m.job = j) => (Carries(mb, T, j) => Carries(rest, T, j))
  BY CancelledCarries
<1>5. Once(mb, {"WALLTIME_EXCEEDED"}, j) => ~Carries(rest, {"WALLTIME_EXCEEDED"}, j)
  BY <1>2, CancelledCarries
<1> HIDE DEF rest
<1>6. \A T : "WALLTIME_EXCEEDED" \notin T => (Carries(mb, T, j) => Carries(rest, T, j))
  BY <1>3, <1>4
<1> QED
  BY <1>4, <1>5, <1>6 DEF m, rest

LEMMA KillThread ==
  ASSUME TypeOK, fault = "none", NEW j \in Jobs, ThreadInv(j), NEW x \in BOOLEAN,
         NEW mb \in Seq(SchedMsg), Fewer(mailbox, mb, j), ForwardJobKill(j, x, mb), ~Asking(j)',
         executing[j] # <<>> \/ (state[j] = "PENDING_KILL" /\ ~x),
         x => monitor[j] = "ended" /\ ~Carries(mb, {"WALLTIME_EXCEEDED"}, j)
  PROVE  ThreadInv(j)'
<1> DEFINE T == {"WALLTIME_EXCEEDED"}
<1>1. /\ Fewer(mailbox, mailbox', j)
      /\ Walltime[j] /\ fault' # "null" => ~Carries(mailbox', T, j)
  <2>1. Fewer(mb, mailbox', j)
    BY MonitorCancelled DEF ForwardJobKill, Fewer
  <2>2. Once(mb, T, j)
    BY DEF Fewer, ThreadInv, Monitored
  <2>3. Walltime[j] /\ fault' # "null" => ~Carries(mailbox', T, j)
    BY <2>2, MonitorCancelled DEF ForwardJobKill
  <2> QED
    BY <2>1, <2>3, FewerTransitive
<1> HIDE DEF T
<1>2. /\ Posted(j)' => Posted(j)
      /\ Once(mailbox', AppTypes, j)
      /\ Exceeded(j)' => Exceeded(j)
      /\ Once(mailbox', {"WALLTIME_EXCEEDED"}, j)
  BY <1>1 DEF Posted, Exceeded, Fewer, ThreadInv, Alone, Monitored
<1>3. CASE fault' = "null"
  <2>1. UNCHANGED <<state, executing, assigned, app, monitor>>
    BY <1>3 DEF ForwardJobKill, jobVars, actorVars, TypeOK, SchedulerTypeOK
  <2> QED
    BY <1>2, <2>1 DEF ThreadInv, Alone, Lifecycle, Monitored
<1>4. CASE fault' # "null"
  <2>1. /\ state'[j] = "KILLED" /\ executing' = executing /\ assigned' = assigned
        /\ app'[j] = "none"
        /\ monitor'[j] = IF Walltime[j] /\ ~x THEN "ended" ELSE monitor[j]
        /\ Walltime[j] /\ ~x => monitor[j] # "none"
    BY <1>4 DEF ForwardJobKill, NoActor, SetState, TakesOver, TypeOK, JobNodeTypeOK, SchedulerTypeOK, ActorTypeOK
  <2>2. Walltime[j] => ~Exceeded(j)'
    BY <1>1, <1>4 DEF Exceeded, T
  <2> QED
    BY <1>2, <2>1, <2>2 DEF ThreadInv, Alone, Lifecycle, Monitored
<1> QED
  BY <1>3, <1>4

\* An operation that starts the application of j, on the nodes it has.
LEMMA StartThread ==
  ASSUME TypeOK, NEW j \in Jobs, ThreadInv(j),
         Fewer(mailbox, mailbox', j), ~Posted(j)', ~Asking(j)', app[j] = "none",
         \/ Continue(j) /\ executing[j] # <<>>
         \/ HandleReconfiguration(j) /\ state[j] = "PENDING_RECONFIGURATION"
         \/ ForwardJobAllocation(j) /\ state[j] = "PENDING_ALLOCATION"
  PROVE  ThreadInv(j)'
<1>1. /\ Once(mailbox', AppTypes, j)
      /\ Exceeded(j)' => Exceeded(j)
      /\ Once(mailbox', {"WALLTIME_EXCEEDED"}, j)
  BY DEF Exceeded, Fewer, ThreadInv, Alone, Monitored
<1>2. CASE Continue(j) /\ executing[j] # <<>>
  <2>1. UNCHANGED <<state, assigned, executing, monitor>> /\ app'[j] = "starting"
    BY <1>2 DEF Continue, jobVars, TypeOK, SchedulerTypeOK, ActorTypeOK
  <2> QED
    BY <1>1, <1>2, <2>1 DEF ThreadInv, Alone, Lifecycle, Monitored
<1>3. CASE HandleReconfiguration(j) /\ state[j] = "PENDING_RECONFIGURATION"
  <2>1. /\ state'[j] = "IN_RECONFIGURATION" /\ executing'[j] = assigned[j]
        /\ assigned' = assigned /\ monitor' = monitor
    BY <1>3 DEF HandleReconfiguration, SetState, TakesOver, TypeOK, JobNodeTypeOK
  <2> QED
    BY <1>1, <1>3, <2>1 DEF ThreadInv, Alone, Lifecycle, Monitored, Final
<1>4. CASE ForwardJobAllocation(j) /\ state[j] = "PENDING_ALLOCATION"
  <2>1. CASE fault' = "allocation" /\ UNCHANGED <<jobVars, actorVars>>
    BY <1>1, <2>1 DEF ThreadInv, Alone, Lifecycle, Monitored, jobVars, actorVars
  <2>2. CASE ~(fault' = "allocation" /\ UNCHANGED <<jobVars, actorVars>>)
    <3>1. /\ state'[j] = "RUNNING" /\ executing'[j] = assigned[j]
          /\ assigned' = assigned
          /\ monitor'[j] = IF Walltime[j] THEN "armed" ELSE monitor[j]
      BY <1>4, <2>2 DEF ForwardJobAllocation, SetState, TakesOver, TypeOK, JobNodeTypeOK,
                        SchedulerTypeOK, ActorTypeOK
    <3> QED
      BY <1>1, <1>4, <3>1 DEF ThreadInv, Alone, Lifecycle, Monitored, Final
  <2> QED
    BY <2>1, <2>2
<1> QED
  BY <1>2, <1>3, <1>4

LEMMA HandlerThread ==
  ASSUME TypeOK, fault = "none", NEW j \in Jobs, ThreadInv(j), Submission(j),
         \/ HandleJobSubmit(j) \/ HandleSchedulingPoint(j) \/ HandleEvolvingRequest(j)
         \/ HandleWalltimeExceeded(j) \/ HandleProcessedWorkload(j)
  PROVE  ThreadInv(j)'
<1> DEFINE mb == Tail(mailbox)
<1>1. ASSUME NEW type, Received(type, j)
      PROVE  /\ pc = "idle" /\ ~Asking(j) /\ mb \in Seq(SchedMsg) /\ Fewer(mailbox, mb, j)
             /\ type \in AppTypes => Posted(j) /\ ~Carries(mb, AppTypes, j)
             /\ type = "WALLTIME_EXCEEDED" => Exceeded(j) /\ ~Carries(mb, {"WALLTIME_EXCEEDED"}, j)
             /\ type = "JOB_SUBMIT" => state[j] = "PENDING_SUBMISSION"
             /\ Once(mb, AppTypes, j) /\ Once(mb, {"WALLTIME_EXCEEDED"}, j)
             /\ Carries(mb, {"WALLTIME_EXCEEDED"}, j) => Exceeded(j)
             /\ Carries(mb, AppTypes, j) => Posted(j)
  <2>1. Once(mailbox, AppTypes, j) /\ Once(mailbox, {"WALLTIME_EXCEEDED"}, j)
    BY DEF ThreadInv, Alone, Monitored
  <2>2. mb \in Seq(SchedMsg) /\ Fewer(mailbox, mb, j) /\ pc = "idle" /\ ~Asking(j)
    BY <1>1, ReceivedCarries
  <2>3. type \in AppTypes => Posted(j) /\ ~Carries(mb, AppTypes, j)
    BY <1>1, <2>1, ReceivedCarries DEF Posted
  <2>4. type = "WALLTIME_EXCEEDED" => Exceeded(j) /\ ~Carries(mb, {"WALLTIME_EXCEEDED"}, j)
    BY <1>1, <2>1, ReceivedCarries DEF Exceeded
  <2>5. type = "JOB_SUBMIT" => state[j] = "PENDING_SUBMISSION"
    BY <1>1, ReceivedCarries DEF Submission
  <2> QED
    BY <2>1, <2>2, <2>3, <2>4, <2>5 DEF Fewer, Posted, Exceeded
<1> HIDE DEF mb
<1>2. ASSUME NEW wanted, NEW type, type \notin Waiting, Schedule(wanted, type, j)
      PROVE  ~Asking(j)'
  BY <1>2 DEF Schedule, Return, Asking
<1>3. CASE HandleJobSubmit(j)
  <2>1. /\ state[j] = "PENDING_SUBMISSION" /\ Once(mb, AppTypes, j)
        /\ Once(mb, {"WALLTIME_EXCEEDED"}, j)
        /\ Carries(mb, {"WALLTIME_EXCEEDED"}, j) => Exceeded(j)
        /\ Carries(mb, AppTypes, j) => Posted(j)
    BY <1>1, <1>3 DEF HandleJobSubmit
  <2>2. mailbox' = mb /\ UNCHANGED <<assigned, app, monitor>>
    BY <1>3 DEF HandleJobSubmit, actorVars, mb
  <2>3. state'[j] = "PENDING" /\ executing' = executing
    BY <1>3 DEF HandleJobSubmit, SetState, TakesOver, TypeOK, JobNodeTypeOK
  <2>4. ~Asking(j)'
    BY <1>2, <1>3 DEF HandleJobSubmit, Waiting
  <2> QED
    BY <2>1, <2>2, <2>3, <2>4 DEF ThreadInv, Alone, Lifecycle, Monitored, Posted, Exceeded, Final
<1>4. CASE HandleSchedulingPoint(j) \/ HandleEvolvingRequest(j)
  <2>1. /\ Once(mb, AppTypes, j) /\ Once(mb, {"WALLTIME_EXCEEDED"}, j)
        /\ Carries(mb, {"WALLTIME_EXCEEDED"}, j) => Exceeded(j)
        /\ Posted(j) /\ ~Carries(mb, AppTypes, j) /\ Fewer(mailbox, mb, j)
    BY <1>1, <1>4 DEF HandleSchedulingPoint, HandleEvolvingRequest, AppTypes
  <2>2. mailbox' = mb
    BY <1>4 DEF HandleSchedulingPoint, HandleEvolvingRequest, mb
  <2>3. app[j] = "none" /\ executing[j] # <<>>
    BY <2>1 DEF ThreadInv, Alone, Lifecycle
  <2>4. CASE UNCHANGED <<jobVars, actorVars>>
    BY <2>1, <2>2, <2>3, <2>4
       DEF ThreadInv, Alone, Lifecycle, Monitored, jobVars, actorVars, Posted, Exceeded
  <2>5. CASE ~UNCHANGED <<jobVars, actorVars>>
    <3>1. ~Asking(j)'
      BY <1>2, <1>4, <2>5 DEF HandleSchedulingPoint, HandleEvolvingRequest, Waiting, Return, Asking
    <3>2. \/ Continue(j)
          \/ HandleReconfiguration(j) /\ state[j] = "PENDING_RECONFIGURATION"
      BY <1>4, <2>5 DEF HandleSchedulingPoint, HandleEvolvingRequest
    <3>3. ~Posted(j)' /\ Fewer(mailbox, mailbox', j)
      BY <2>1, <2>2 DEF Posted
    <3> QED
      BY <2>3, <3>1, <3>2, <3>3, StartThread
  <2> QED
    BY <2>4, <2>5
<1>5. CASE HandleWalltimeExceeded(j)
  <2>1. /\ mb \in Seq(SchedMsg) /\ Fewer(mailbox, mb, j)
        /\ Exceeded(j) /\ ~Carries(mb, {"WALLTIME_EXCEEDED"}, j)
    BY <1>1, <1>5 DEF HandleWalltimeExceeded
  <2>2. monitor[j] = "ended" /\ executing[j] # <<>>
    BY <2>1 DEF ThreadInv, Lifecycle, Monitored
  <2>3. ForwardJobKill(j, TRUE, mb) /\ ~Asking(j)'
    BY <1>2, <1>5 DEF HandleWalltimeExceeded, Waiting, mb
  <2> QED
    BY <2>1, <2>2, <2>3, KillThread
<1>6. CASE HandleProcessedWorkload(j)
  <2>1. /\ mb \in Seq(SchedMsg) /\ Fewer(mailbox, mb, j)
        /\ Posted(j) /\ ~Carries(mb, AppTypes, j) /\ Once(mb, {"WALLTIME_EXCEEDED"}, j)
        /\ Carries(mb, {"WALLTIME_EXCEEDED"}, j) => Exceeded(j)
    BY <1>1, <1>6 DEF HandleProcessedWorkload, AppTypes
  <2>2. app[j] = "none" /\ executing[j] # <<>>
    BY <2>1 DEF ThreadInv, Alone, Lifecycle
  <2>3. ~Asking(j)'
    BY <1>2, <1>6 DEF HandleProcessedWorkload, Waiting
  <2>4. state'[j] = "COMPLETED" /\ executing' = executing /\ assigned' = assigned /\ app' = app
    BY <1>6 DEF HandleProcessedWorkload, SetState, TakesOver, TypeOK, JobNodeTypeOK
  <2>5. /\ monitor'[j] = IF Walltime[j] THEN "ended" ELSE monitor[j]
        /\ mailbox' = IF Walltime[j] THEN Cancelled(mb, Message("WALLTIME_EXCEEDED", j)) ELSE mb
    BY <1>6 DEF HandleProcessedWorkload, mb, TypeOK, SchedulerTypeOK, ActorTypeOK
  <2>6. Fewer(mb, mailbox', j) /\ ~Exceeded(j)'
    <3>1. CASE Walltime[j]
      BY <2>1, <2>5, <3>1, MonitorCancelled DEF Exceeded
    <3>2. CASE ~Walltime[j]
      BY <2>1, <2>5, <3>2 DEF Exceeded, ThreadInv, Monitored, Fewer
    <3> QED
      BY <3>1, <3>2
  <2>7. ~Posted(j)' /\ Once(mailbox', AppTypes, j) /\ Once(mailbox', {"WALLTIME_EXCEEDED"}, j)
    <3>1. Once(mailbox, AppTypes, j)
      BY DEF ThreadInv, Alone
    <3> QED
      BY <2>1, <2>6, <3>1 DEF Fewer, Posted
  <2> QED
    BY <2>2, <2>3, <2>4, <2>5, <2>6, <2>7 DEF ThreadInv, Alone, Lifecycle, Monitored
<1> QED
  BY <1>3, <1>4, <1>5, <1>6

LEMMA ResponseThread ==
  ASSUME TypeOK, fault = "none", NEW j \in Jobs, ThreadInv(j),
         \/ DecideKill(j) \/ \E q \in Allocations : DecideNodes(j, q)
         \/ Answer /\ req = j
         \/ Forward /\ Head(scheduled) = j
  PROVE  ThreadInv(j)'
<1>0. mailbox \in Seq(SchedMsg) /\ Fewer(mailbox, mailbox, j)
  BY DEF TypeOK, SchedulerTypeOK, Fewer
<1>1. CASE DecideKill(j)
  <2>1. state'[j] = "PENDING_KILL" /\ executing' = executing
    BY <1>1 DEF DecideKill, SetState, TakesOver, TypeOK, JobNodeTypeOK
  <2>2. UNCHANGED <<assigned, app, monitor, mailbox>> /\ (Asking(j)' <=> Asking(j))
    BY <1>1 DEF DecideKill, actorVars, Asking
  <2> QED
    BY <2>1, <2>2 DEF ThreadInv, Alone, Lifecycle, Monitored, Posted, Exceeded, Final
<1>2. ASSUME NEW q \in Allocations, DecideNodes(j, q)
      PROVE  ThreadInv(j)'
  <2>1. UNCHANGED <<executing, app, monitor, mailbox>> /\ (Asking(j)' <=> Asking(j))
    BY <1>2 DEF DecideNodes, Assign, actorVars, jobVars, Asking
  <2>2. \/ state'[j] = state[j] /\ assigned'[j] = assigned[j]
        \/ state'[j] = UpdatedState(state[j], q, executing[j]) /\ assigned'[j] = q
    BY <1>2 DEF DecideNodes, Assign, TypeOK, JobNodeTypeOK, jobVars
  <2>3. q # <<>>
    <3>1. MinNodes[j] \in Int /\ MinNodes[j] >= 1 /\ MaxNodes[j] \in Int
      BY JobSpecification DEF ValidSpecification
    <3>2. Len(q) >= MinNodes[j] /\ Len(q) \in Int
      BY <1>2, <3>1 DEF DecideNodes, MaySend, ValidConfiguration
    <3> QED
      BY <3>1, <3>2
  <2>4. state[j] \in JobStates
    BY DEF TypeOK, JobNodeTypeOK
  <2>5. /\ state'[j] \in Final => state[j] \in Final
        /\ executing[j] = <<>> =>
             state'[j] \in {"PENDING_SUBMISSION", "PENDING", "PENDING_ALLOCATION", "PENDING_KILL", "KILLED"}
        /\ executing[j] # <<>> =>
             state'[j] \notin {"PENDING_SUBMISSION", "PENDING", "PENDING_ALLOCATION"}
    BY <2>2 DEF ThreadInv, Lifecycle, UpdatedState, Final
  <2>6. state'[j] \in {"PENDING_ALLOCATION", "PENDING_RECONFIGURATION"} => assigned'[j] # <<>>
    BY <2>2, <2>3 DEF ThreadInv, Lifecycle
  <2> QED
    BY <2>1, <2>5, <2>6 DEF ThreadInv, Alone, Lifecycle, Monitored, Posted, Exceeded
<1>3. CASE Answer /\ req = j
  <2>1. Asking(j) /\ ~Asking(j)'
    BY <1>3 DEF Answer, Asking, TypeOK, SchedulerTypeOK, ControlTypeOK
  <2>2. app[j] = "none" /\ executing[j] # <<>> /\ ~Posted(j)
    BY <2>1 DEF ThreadInv, Alone, Lifecycle
  <2>3. \/ ForwardJobKill(j, FALSE, mailbox)
        \/ /\ mailbox' = mailbox
           /\ Continue(j) \/ (HandleReconfiguration(j) /\ state[j] = "PENDING_RECONFIGURATION")
    BY <1>3 DEF Answer
  <2>4. CASE ForwardJobKill(j, FALSE, mailbox)
    BY <1>0, <2>1, <2>2, <2>4, KillThread
  <2>5. CASE mailbox' = mailbox
    BY <1>0, <2>1, <2>2, <2>3, <2>4, <2>5, StartThread DEF Posted
  <2> QED
    BY <2>3, <2>4, <2>5
<1>4. CASE Forward /\ Head(scheduled) = j
  <2>1. ~Asking(j) /\ ~Asking(j)'
    BY <1>4 DEF Forward, Asking
  <2>2. CASE state[j] = "PENDING_ALLOCATION"
    <3>1. ForwardJobAllocation(j) /\ mailbox' = mailbox
      BY <1>4, <2>2 DEF Forward
    <3>2. app[j] = "none" /\ ~Posted(j)
      BY <2>2 DEF ThreadInv, Lifecycle
    <3> QED
      BY <1>0, <2>1, <2>2, <3>1, <3>2, StartThread DEF Posted
  <2>3. CASE state[j] = "PENDING_KILL"
    <3>1. ForwardJobKill(j, FALSE, mailbox)
      BY <1>4, <2>3 DEF Forward
    <3> QED
      BY <1>0, <2>1, <2>3, <3>1, KillThread
  <2>4. CASE state[j] \notin {"PENDING_ALLOCATION", "PENDING_KILL"}
    <3>1. UNCHANGED <<jobVars, actorVars, mailbox>>
      BY <1>4, <2>4 DEF Forward
    <3> QED
      BY <2>1, <3>1 DEF ThreadInv, Alone, Lifecycle, Monitored, Posted, Exceeded, jobVars, actorVars
  <2> QED
    BY <2>2, <2>3, <2>4
<1> QED
  BY <1>1, <1>2, <1>3, <1>4

LEMMA ActorThread ==
  ASSUME TypeOK, NEW j \in Jobs, ThreadInv(j),
         Application(j) \/ WalltimeExceeded(j) \/ ReceiveJobStep(j)
  PROVE  ThreadInv(j)'
<1>0. mailbox \in Seq(SchedMsg) /\ JobNodeTypeOK /\ ActorTypeOK
  BY DEF TypeOK, SchedulerTypeOK
<1>1. Asking(j)' <=> Asking(j)
  BY DEF Application, WalltimeExceeded, ReceiveJobStep, schedulerOnly, scheduleVars, Asking
<1> DEFINE Sent(type) == mailbox' = Append(mailbox, Message(type, j))
<1>2. ASSUME NEW type \in {"JOB_SUBMIT", "SCHEDULING_POINT", "EVOLVING_REQUEST",
                           "WALLTIME_EXCEEDED", "WORKLOAD_PROCESSED"},
             Sent(type)
      PROVE  /\ Posted(j)' <=> Posted(j) \/ type \in AppTypes
             /\ Exceeded(j)' <=> Exceeded(j) \/ type = "WALLTIME_EXCEEDED"
             /\ type \notin AppTypes \/ ~Posted(j) => Once(mailbox', AppTypes, j)
             /\ type # "WALLTIME_EXCEEDED" \/ ~Exceeded(j) =>
                  Once(mailbox', {"WALLTIME_EXCEEDED"}, j)
  <2> DEFINE m == Message(type, j)
  <2>1. m \in SchedMsg
    BY MessageTypes
  <2>2. m.type = type /\ m.job = j
    BY DEF Message
  <2>3. mailbox' = Append(mailbox, m)
    BY <1>2
  <2>4. Once(mailbox, AppTypes, j) /\ Once(mailbox, {"WALLTIME_EXCEEDED"}, j)
    BY DEF ThreadInv, Alone, Monitored
  <2> HIDE DEF m
  <2>5. ASSUME NEW T, Once(mailbox, T, j)
        PROVE  /\ Carries(mailbox', T, j) <=> Carries(mailbox, T, j) \/ type \in T
               /\ type \notin T \/ ~Carries(mailbox, T, j) => Once(mailbox', T, j)
    <3>1. /\ Carries(Append(mailbox, m), T, j) <=> Carries(mailbox, T, j) \/ (m.type \in T /\ m.job = j)
          /\ ~Carries(mailbox, T, j) \/ ~(m.type \in T /\ m.job = j) => Once(Append(mailbox, m), T, j)
      BY <1>0, <2>1, <2>5, AppendCarries
    <3> QED
      BY <2>2, <2>3, <3>1
  <2> QED
    BY <2>4, <2>5 DEF Posted, Exceeded
<1>3. CASE Application(j) /\ AppStarts(j)
  <2>1. app[j] = "starting" /\ app'[j] = "first"
    BY <1>0, <1>3 DEF AppStarts, ActorTypeOK
  <2>2. executing[j] # <<>> /\ state[j] # "PENDING_ALLOCATION"
    BY <2>1 DEF ThreadInv, Lifecycle
  <2>3. state'[j] = "RUNNING" /\ executing' = executing /\ UNCHANGED <<assigned, monitor, mailbox>>
    BY <1>0, <1>3, <2>2 DEF AppStarts, SetState, TakesOver, JobNodeTypeOK
  <2> QED
    BY <1>1, <2>1, <2>2, <2>3 DEF ThreadInv, Alone, Lifecycle, Monitored, Posted, Exceeded, Final
<1>4. CASE Application(j) /\ AppIterates(j)
  <2>1. /\ app[j] \in {"first", "later"} /\ app'[j] = "later"
        /\ UNCHANGED <<state, executing, assigned, monitor, mailbox>>
    BY <1>0, <1>4 DEF AppIterates, passive, jobVars, ActorTypeOK
  <2> QED
    BY <1>1, <2>1 DEF ThreadInv, Alone, Lifecycle, Monitored, Posted, Exceeded
<1>5. CASE /\ Application(j)
           /\ AppCompletes(j) \/ \E type \in {"SCHEDULING_POINT", "EVOLVING_REQUEST"} : AppRequests(j, type)
  <2>1. PICK type \in AppTypes : Sent(type)
    BY <1>5 DEF AppCompletes, AppRequests, AppTypes
  <2>2. app[j] # "none" /\ app'[j] = "none" /\ UNCHANGED <<state, executing, assigned, monitor>>
    BY <1>0, <1>5 DEF AppCompletes, AppRequests, passive, jobVars, ActorTypeOK
  <2>3. ~Posted(j) /\ ~Asking(j) /\ executing[j] # <<>>
    BY <2>2 DEF ThreadInv, Alone, Lifecycle
  <2>4. /\ Posted(j)' /\ Once(mailbox', AppTypes, j)
        /\ Exceeded(j)' <=> Exceeded(j)
        /\ Once(mailbox', {"WALLTIME_EXCEEDED"}, j)
    BY <1>2, <2>1, <2>3 DEF AppTypes
  <2> QED
    BY <1>1, <2>2, <2>3, <2>4 DEF ThreadInv, Alone, Lifecycle, Monitored
<1>6. CASE WalltimeExceeded(j)
  <2>1. Sent("WALLTIME_EXCEEDED")
    BY <1>6 DEF WalltimeExceeded
  <2>2. /\ monitor[j] = "armed" /\ monitor'[j] = "ended"
        /\ UNCHANGED <<state, executing, assigned, app>>
    BY <1>0, <1>6 DEF WalltimeExceeded, passive, jobVars, ActorTypeOK
  <2>3. ~Exceeded(j) /\ executing[j] # <<>> /\ state[j] \notin Final /\ Walltime[j]
    BY <2>2, SchedulerConfiguration DEF ThreadInv, Lifecycle, Monitored
  <2>4. /\ Posted(j)' <=> Posted(j)
        /\ Once(mailbox', AppTypes, j) /\ Once(mailbox', {"WALLTIME_EXCEEDED"}, j)
    BY <1>2, <2>1, <2>3 DEF AppTypes
  <2> QED
    BY <1>1, <2>2, <2>3, <2>4 DEF ThreadInv, Alone, Lifecycle, Monitored
<1>7. CASE ReceiveJobStep(j)
  <2>1. Sent("JOB_SUBMIT") /\ UNCHANGED <<state, executing, assigned, app, monitor>>
    BY <1>7 DEF ReceiveJobStep, ReceiveJob, passive, jobVars, actorVars
  <2>2. /\ Posted(j)' <=> Posted(j)
        /\ Exceeded(j)' <=> Exceeded(j)
        /\ Once(mailbox', AppTypes, j) /\ Once(mailbox', {"WALLTIME_EXCEEDED"}, j)
    BY <1>2, <2>1 DEF AppTypes
  <2> QED
    BY <1>1, <2>1, <2>2 DEF ThreadInv, Alone, Lifecycle, Monitored
<1> QED
  BY <1>3, <1>4, <1>5, <1>6, <1>7 DEF Application

LEMMA NextThread ==
  ASSUME TypeOK, [Next]_vars, ControlInv, NEW i \in Jobs
  PROVE  ThreadInv(i)'
<1>0. ThreadInv(i) /\ Submission(i)
  BY DEF ControlInv
<1>1. CASE StepOfNone
  BY <1>0, <1>1, StepOfNoneTouches, UntouchedThread
<1>2. ASSUME NEW j \in Jobs, StepOf(j)
      PROVE  ThreadInv(i)'
  <2>1. CASE i # j
    BY <1>0, <1>2, <2>1, StepTouchesOne, UntouchedThread
  <2>2. CASE i = j
    BY <1>0, <1>2, <2>2, HandlerThread, ResponseThread, ActorThread DEF StepOf, SchedulerStepOf
  <2> QED
    BY <2>1, <2>2
<1> QED
  BY <1>1, <1>2, StepCases

-----------------------------------------------------------------------------
(* The submission of a job.                                                *)

\* Nothing but its submission takes a job out of its first state.
LEMMA FirstStateStays ==
  ASSUME TypeOK, NEW j \in Jobs, StepOf(j), ThreadInv(j), Submission(j), ~HandleJobSubmit(j)
  PROVE  (state'[j] = "PENDING_SUBMISSION") <=> (state[j] = "PENDING_SUBMISSION")
<1> DEFINE First == state[j] = "PENDING_SUBMISSION"
           Kept == state'[j] = "PENDING_SUBMISSION" <=> state[j] = "PENDING_SUBMISSION"
<1>0. /\ JobNodeTypeOK /\ fault = "none"
      /\ First => executing[j] = <<>> /\ seen[j] = "PENDING_SUBMISSION"
  BY DEF TypeOK, StepOf, ThreadInv, Lifecycle, Submission
<1>1. ASSUME NEW new \in JobStates \ {"PENDING_SUBMISSION"}, SetState(j, new), ~First
      PROVE  Kept
  BY <1>0, <1>1, SetStateMoves
<1>2. First => app[j] = "none" /\ ~Posted(j) /\ ~Asking(j) /\ ~Exceeded(j)
  BY <1>0 DEF ThreadInv, Lifecycle, Monitored
<1>3. CASE HandleSchedulingPoint(j) \/ HandleEvolvingRequest(j) \/ HandleProcessedWorkload(j)
           \/ HandleWalltimeExceeded(j)
  <2>1. ~First
    BY <1>2, <1>3, ReceivedCarries DEF HandleSchedulingPoint, HandleEvolvingRequest, Exceeded,
             HandleProcessedWorkload, HandleWalltimeExceeded, Posted, AppTypes
  <2>2. UNCHANGED state \/ \E new \in JobStates \ {"PENDING_SUBMISSION"} : SetState(j, new)
    BY <1>3 DEF HandleSchedulingPoint, HandleEvolvingRequest, HandleProcessedWorkload, JobStates,
                HandleWalltimeExceeded, ForwardJobKill, HandleReconfiguration, Continue, jobVars
  <2> QED
    BY <1>1, <2>1, <2>2
<1>4. CASE DecideKill(j)
  <2>1. ~First /\ SetState(j, "PENDING_KILL")
    BY <1>0, <1>4 DEF DecideKill, Live
  <2> QED
    BY <1>1, <2>1 DEF JobStates
<1>5. ASSUME NEW q \in Allocations, DecideNodes(j, q)
      PROVE  Kept
  BY <1>0, <1>5 DEF DecideNodes, Assign, UpdatedState, JobNodeTypeOK, jobVars
<1>6. CASE (Answer /\ req = j) \/ (Forward /\ Head(scheduled) = j)
  <2>1. (UNCHANGED state \/ \E new \in JobStates \ {"PENDING_SUBMISSION"} : SetState(j, new))
        /\ (First => UNCHANGED state)
    BY <1>6 DEF Answer, Forward, ForwardJobKill, ForwardJobAllocation, HandleReconfiguration,
                Continue, jobVars, JobStates
  <2> QED
    BY <1>1, <2>1
<1>7. CASE Application(j) \/ WalltimeExceeded(j) \/ ReceiveJobStep(j)
  <2>1. \/ UNCHANGED state
        \/ ~First /\ SetState(j, "RUNNING")
    BY <1>2, <1>7 DEF Application, AppStarts, AppIterates, AppCompletes, AppRequests, passive,
                      WalltimeExceeded, ReceiveJobStep, jobVars
  <2> QED
    BY <1>1, <2>1 DEF JobStates
<1> QED
  BY <1>3, <1>4, <1>5, <1>6, <1>7 DEF StepOf, SchedulerStepOf

\* A step of the scheduler puts no message into its own mailbox.
LEMMA SchedulerStepTakes ==
  ASSUME TypeOK, NEW j \in Jobs, SchedulerStepOf(j)
  PROVE  Fewer(mailbox, mailbox', j)
<1>0. mailbox \in Seq(SchedMsg) /\ Fewer(mailbox, mailbox, j)
  BY DEF TypeOK, SchedulerTypeOK, Fewer
<1>1. ASSUME NEW type, Received(type, j)
      PROVE  Tail(mailbox) \in Seq(SchedMsg) /\ Fewer(mailbox, Tail(mailbox), j)
  BY <1>1, ReceivedCarries
<1>2. ASSUME NEW mb \in Seq(SchedMsg), Fewer(mailbox, mb, j),
             mailbox' = mb \/ mailbox' = Cancelled(mb, Message("WALLTIME_EXCEEDED", j))
      PROVE  Fewer(mailbox, mailbox', j)
  BY <1>2, MonitorCancelled, FewerTransitive
<1>3. ASSUME NEW x, NEW mb, ForwardJobKill(j, x, mb)
      PROVE  mailbox' = mb \/ mailbox' = Cancelled(mb, Message("WALLTIME_EXCEEDED", j))
  BY <1>3 DEF ForwardJobKill
<1>4. CASE HandleJobSubmit(j) \/ HandleSchedulingPoint(j) \/ HandleEvolvingRequest(j)
           \/ HandleWalltimeExceeded(j) \/ HandleProcessedWorkload(j)
  <2>1. Tail(mailbox) \in Seq(SchedMsg) /\ Fewer(mailbox, Tail(mailbox), j)
    BY <1>1, <1>4 DEF HandleJobSubmit, HandleSchedulingPoint, HandleEvolvingRequest,
       HandleWalltimeExceeded, HandleProcessedWorkload
  <2>2. \/ mailbox' = Tail(mailbox)
        \/ mailbox' = Cancelled(Tail(mailbox), Message("WALLTIME_EXCEEDED", j))
    BY <1>3, <1>4 DEF HandleJobSubmit, HandleSchedulingPoint, HandleEvolvingRequest,
       HandleWalltimeExceeded, HandleProcessedWorkload
  <2> QED
    BY <1>2, <2>1, <2>2
<1>5. CASE DecideKill(j) \/ (\E q \in Allocations : DecideNodes(j, q)) \/ Answer \/ Forward
  <2>1. \/ mailbox' = mailbox
        \/ \E i : mailbox' = Cancelled(mailbox, Message("WALLTIME_EXCEEDED", i))
    BY <1>3, <1>5 DEF DecideKill, DecideNodes, Answer, Forward, ForwardJobKill
  <2> QED
    BY <1>0, <2>1, CancelledCarries
<1> QED
  BY <1>4, <1>5 DEF SchedulerStepOf

LEMMA NextSubmission ==
  ASSUME TypeOK, [Next]_vars, ControlInv, NEW i \in Jobs
  PROVE  Submission(i)'
<1> DEFINE JS == {"JOB_SUBMIT"}
<1>0. /\ ThreadInv(i) /\ Submission(i) /\ Engaged(i)
      /\ mailbox \in Seq(SchedMsg) /\ simMailbox \in Seq(SimMsg) /\ JobNodeTypeOK
  BY DEF ControlInv, TypeOK, SchedulerTypeOK
<1>1. ASSUME Carries(mailbox', JS, i) => Carries(mailbox, JS, i),
             Once(mailbox, JS, i) => Once(mailbox', JS, i),
             (state'[i] = "PENDING_SUBMISSION") <=> (state[i] = "PENDING_SUBMISSION"),
             (i \in registered') <=> (i \in registered),
             seen'[i] \in {seen[i], state[i]}
      PROVE  Submission(i)'
  BY <1>0, <1>1 DEF Submission
<1>2. CASE StepOfNone
  <2>1. registered' = registered
    BY <1>2 DEF StepOfNone, vars, engineVars, InvokePeriodically, IntervalElapses, EngineStep, SendFinalize,
       JobSubmitter, SendNumberOfJobs, SubmitJob, ReceiveNumberOfJobs, ReceiveEnd, WriteStatistics
  <2>2. seen'[i] \in {seen[i], state[i]}
    BY <1>0, <1>2 DEF StepOfNone, vars, viewVars, InvokePeriodically, IntervalElapses, EngineStep,
       HandleInvoke, HandleFinalize, Invoke, EndResponse, EndSchedule, schedulerOnly, TypeOK, SchedulerTypeOK
  <2> HIDE DEF JS
  <2>3. SameMail(i) /\ SameJob(i)
    BY <1>2, StepOfNoneTouches DEF Untouched
  <2> QED
    BY <1>1, <2>1, <2>2, <2>3 DEF SameMail, SameJob, Fewer
<1>3. ASSUME NEW j \in Jobs, StepOf(j)
      PROVE  Submission(i)'
  <2>1. seen' = seen
    BY <1>3 DEF StepOf, SchedulerStepOf, HandleJobSubmit, HandleSchedulingPoint, HandleEvolvingRequest,
       HandleWalltimeExceeded, HandleProcessedWorkload, DecideKill, DecideNodes, Answer, Forward, viewVars,
       Application, WalltimeExceeded, ReceiveJobStep, schedulerOnly
  <2>2. registered' = registered \/ (ReceiveJobStep(j) /\ registered' = registered \cup {j})
    BY <1>3 DEF StepOf, engineVars, Application, WalltimeExceeded, ReceiveJobStep, ReceiveJob
  <2>3. CASE i # j
    <3> HIDE DEF JS
    <3>1. SameMail(i) /\ SameJob(i)
      BY <1>3, <2>3, StepTouchesOne DEF Untouched
    <3> QED
      BY <1>1, <2>1, <2>2, <2>3, <3>1 DEF SameMail, SameJob, Fewer
  <2>4. CASE i = j /\ HandleJobSubmit(j)
    <3>1. state'[i] = "PENDING"
      BY <1>0, <2>4, SetStateMoves DEF HandleJobSubmit
    <3>2. registered' = registered
      BY <2>2, <2>4 DEF ReceiveJobStep, ReceiveJob, HandleJobSubmit, schedulerOnly, scheduleVars,
        passive, jobVars, SetState, AddModifiedJob
    <3>3. mailbox' = Tail(mailbox) /\ Received("JOB_SUBMIT", i)
      BY <2>4 DEF HandleJobSubmit
    <3>4. /\ Carries(mailbox, JS, i) /\ Once(mailbox, JS, i)
          /\ ~Carries(mailbox', JS, i) /\ Once(mailbox', JS, i)
      BY <1>0, <3>3, ReceivedCarries DEF Submission, Fewer
    <3> QED
      BY <1>0, <3>1, <3>2, <3>4 DEF Submission
  <2>5. CASE i = j /\ ReceiveJobStep(j)
    <3>1. SimReceived("SUBMIT_JOB", i) /\ mailbox' = Append(mailbox, Message("JOB_SUBMIT", i))
          /\ UNCHANGED state /\ registered' = registered \cup {i}
      BY <2>5 DEF ReceiveJobStep, ReceiveJob, passive, jobVars
    <3>2. Carries(simMailbox, {"SUBMIT_JOB"}, i)
      BY <1>0, <3>1, TailCarries DEF SimReceived, Message
    <3>3. i \notin registered /\ state[i] = "PENDING_SUBMISSION" /\ ~Carries(mailbox, JS, i)
      BY <1>0, <3>2 DEF Submission, Engaged
    <3>4. Message("JOB_SUBMIT", i) \in SchedMsg
      BY MessageTypes
    <3>5. Once(mailbox', JS, i)
      BY <1>0, <3>1, <3>3, <3>4, AppendCarries DEF Submission
    <3> QED
      BY <1>0, <2>1, <3>1, <3>3, <3>5 DEF Submission
  <2>6. CASE i = j /\ ~HandleJobSubmit(j) /\ ~ReceiveJobStep(j)
    <3>1. (state'[i] = "PENDING_SUBMISSION") <=> (state[i] = "PENDING_SUBMISSION")
      BY <1>0, <1>3, <2>6, FirstStateStays
    <3>2. /\ Carries(mailbox', JS, i) => Carries(mailbox, JS, i)
          /\ Once(mailbox, JS, i) => Once(mailbox', JS, i)
      <4>1. CASE SchedulerStepOf(j)
        BY <2>6, <4>1, SchedulerStepTakes DEF Fewer
      <4>2. CASE mailbox' = mailbox
        BY <4>2
      <4>3. ASSUME NEW type \in AppTypes \cup {"WALLTIME_EXCEEDED"},
                   mailbox' = Append(mailbox, Message(type, i))
            PROVE  /\ Carries(mailbox', JS, i) => Carries(mailbox, JS, i)
                   /\ Once(mailbox, JS, i) => Once(mailbox', JS, i)
        <5>1. Message(type, i) \in SchedMsg /\ Message(type, i).type \notin JS
          BY MessageTypes DEF Message, AppTypes
        <5> HIDE DEF JS
        <5> QED
          BY <1>0, <4>3, <5>1, AppendCarries
      <4>4. \/ SchedulerStepOf(j) \/ mailbox' = mailbox
            \/ \E type \in AppTypes \cup {"WALLTIME_EXCEEDED"} :
                 mailbox' = Append(mailbox, Message(type, i))
        BY <1>3, <2>6 DEF StepOf, Application, AppStarts, AppIterates, AppCompletes, AppRequests,
                          WalltimeExceeded, AppTypes
      <4> HIDE DEF JS
      <4> QED
        BY <4>1, <4>2, <4>3, <4>4
    <3> QED
      BY <1>1, <2>1, <2>2, <2>6, <3>1, <3>2
  <2> QED
    BY <2>3, <2>4, <2>5, <2>6
<1> QED
  BY <1>2, <1>3, StepCases

LEMMA NextEngaged ==
  ASSUME TypeOK, [Next]_vars, ControlInv, NEW i \in Jobs
  PROVE  Engaged(i)'
<1> DEFINE SJ == {"SUBMIT_JOB"}
<1>0. Engaged(i) /\ simMailbox \in Seq(SimMsg)
  BY DEF ControlInv, TypeOK, SchedulerTypeOK
<1>1. ASSUME Fewer(simMailbox, simMailbox', i), UNCHANGED <<submitted, registered>>
      PROVE  Engaged(i)'
  BY <1>0, <1>1 DEF Engaged, Fewer
<1>2. ASSUME NEW m \in SimMsg, m.type # "SUBMIT_JOB", simMailbox' = Append(simMailbox, m),
             UNCHANGED <<submitted, registered>>
      PROVE  Engaged(i)'
  <2>1. m.type \notin SJ
    BY <1>2
  <2> HIDE DEF SJ
  <2>2. /\ Carries(simMailbox', SJ, i) => Carries(simMailbox, SJ, i)
        /\ Once(simMailbox, SJ, i) => Once(simMailbox', SJ, i)
    BY <1>0, <1>2, <2>1, AppendCarries
  <2> QED
    BY <1>0, <1>2, <2>2 DEF Engaged, SJ
<1>3. simMailbox' = simMailbox => Fewer(simMailbox, simMailbox', i)
  BY DEF Fewer
<1>4. simMailbox # <<>> /\ simMailbox' = Tail(simMailbox) => Fewer(simMailbox, simMailbox', i)
  BY <1>0, TailCarries
<1>5. ASSUME NEW j \in Jobs, SchedulerStepOf(j), UNCHANGED <<left, engineVars>>
      PROVE  Engaged(i)'
  <2>1. \A type \in {"JOB_COMPLETED", "JOB_KILLED"} :
          Message(type, j) \in SimMsg /\ Message(type, j).type # "SUBMIT_JOB"
    BY MessageTypes DEF Message
  <2>2. \/ simMailbox' = simMailbox
        \/ \E type \in {"JOB_COMPLETED", "JOB_KILLED"} : simMailbox' = Append(simMailbox, Message(type, j))
    BY <1>5 DEF SchedulerStepOf, HandleJobSubmit, HandleSchedulingPoint, HandleEvolvingRequest,
       HandleWalltimeExceeded, HandleProcessedWorkload, DecideKill, DecideNodes, Answer, Forward,
       ForwardJobKill
  <2> QED
    BY <1>1, <1>2, <1>3, <1>5, <2>1, <2>2 DEF engineVars
<1>6. ASSUME NEW j \in Jobs, ReceiveJobStep(j)
      PROVE  Engaged(i)'
  <2>1. /\ simMailbox # <<>> /\ Head(simMailbox) = Message("SUBMIT_JOB", j)
        /\ simMailbox' = Tail(simMailbox)
        /\ submitted' = submitted /\ registered' = registered \cup {j}
    BY <1>6 DEF ReceiveJobStep, ReceiveJob, SimReceived
  <2>2. CASE i # j
    BY <1>0, <1>4, <2>1, <2>2 DEF Engaged, Fewer
  <2>3. CASE i = j
    <3>1. Head(simMailbox).type \in SJ /\ Head(simMailbox).job = i
      BY <2>1, <2>3 DEF Message
    <3> HIDE DEF SJ
    <3>2. /\ Carries(simMailbox, SJ, i)
          /\ Once(simMailbox, SJ, i) => ~Carries(simMailbox', SJ, i) /\ Once(simMailbox', SJ, i)
      BY <1>0, <2>1, <3>1, TailCarries DEF Fewer
    <3> QED
      BY <1>0, <2>1, <2>3, <3>2 DEF Engaged, SJ
  <2> QED
    BY <2>2, <2>3
<1>7. CASE EngineStep
  <2>1. CASE \E j \in Jobs : SubmitJob(j)
    <3>1. PICK j \in Jobs : SubmitJob(j)
      BY <2>1
    <3>2. /\ Message("SUBMIT_JOB", j) \in SimMsg /\ Message("SUBMIT_JOB", j).job = j
          /\ j \notin submitted
          /\ simMailbox' = Append(simMailbox, Message("SUBMIT_JOB", j))
          /\ submitted' = submitted \cup {j} /\ registered' = registered
      BY <3>1, MessageTypes DEF SubmitJob, Message
    <3> HIDE DEF SJ
    <3>3. /\ Carries(simMailbox', SJ, i) => Carries(simMailbox, SJ, i) \/ i = j
          /\ Once(simMailbox, SJ, i) /\ (~Carries(simMailbox, SJ, i) \/ i # j) => Once(simMailbox', SJ, i)
      BY <1>0, <3>2, AppendCarries
    <3> QED
      BY <1>0, <3>2, <3>3 DEF Engaged, SJ
  <2>2. CASE SendNumberOfJobs
    <3>1. Message("NUMBER_OF_JOBS", NoJob).type # "SUBMIT_JOB" /\ Message("NUMBER_OF_JOBS", NoJob) \in SimMsg
      BY MessageTypes DEF Message, SimMsg
    <3> QED
      BY <1>2, <2>2, <3>1 DEF SendNumberOfJobs, engineVars
  <2>3. CASE ~JobSubmitter
    <3>1. /\ UNCHANGED <<submitted, registered>>
          /\ \/ simMailbox' = simMailbox
             \/ simMailbox # <<>> /\ simMailbox' = Tail(simMailbox)
      BY <1>7, <2>3 DEF EngineStep, ReceiveNumberOfJobs, ReceiveEnd, SendFinalize, WriteStatistics, SimReceived
    <3> QED
      BY <1>1, <1>3, <1>4, <3>1
  <2> QED
    BY <1>7, <2>1, <2>2, <2>3 DEF JobSubmitter
<1>8. ASSUME simMailbox' = simMailbox, UNCHANGED <<submitted, registered>>
      PROVE  Engaged(i)'
  BY <1>1, <1>3, <1>8
<1>9. CASE StepOfNone /\ ~EngineStep
  BY <1>8, <1>9 DEF StepOfNone, HandleInvoke, HandleFinalize, Invoke, EndResponse, EndSchedule, vars,
     engineVars, InvokePeriodically, IntervalElapses
<1>10. ASSUME NEW j \in Jobs, Application(j) \/ WalltimeExceeded(j)
       PROVE  Engaged(i)'
  BY <1>8, <1>10 DEF Application, WalltimeExceeded, engineVars
<1> QED
  BY <1>5, <1>6, <1>7, <1>9, <1>10, StepCases DEF StepOf

LEMMA InitControl == Init => ControlInv
<1> SUFFICES ASSUME Init, NEW j \in Jobs PROVE ThreadInv(j) /\ Submission(j) /\ Engaged(j)
  BY DEF ControlInv
<1>1. \A T : /\ ~Carries(mailbox, T, j) /\ Once(mailbox, T, j)
            /\ ~Carries(simMailbox, T, j) /\ Once(simMailbox, T, j)
  <2>1. mailbox = <<>> /\ simMailbox = <<>> /\ DOMAIN <<>> = {}
    BY DEF Init, SchedulerInit
  <2> QED
    BY <2>1 DEF Carries, Once
<1>2. /\ state[j] = "PENDING_SUBMISSION" /\ seen[j] = "PENDING_SUBMISSION" /\ executing[j] = <<>>
      /\ app[j] = "none" /\ monitor[j] = "none" /\ ~Asking(j) /\ registered = {}
  BY DEF Init, JobInit, NodeInit, SchedulerInit, Asking
<1> QED
  BY <1>1, <1>2 DEF ThreadInv, Alone, Lifecycle, Monitored, Posted, Exceeded, Submission, Engaged, Final

\* The thread of control of a job is in at most one place: its application runs, or the one
\* message it has posted is queued, or the scheduler owes it an answer, and it has a monitor
\* only in between its start and its end; whatever kill overtakes whatever message.
THEOREM ControlIsInvariant == Spec => []ControlInv
<1>1. TypeOK /\ ControlInv /\ [Next]_vars => ControlInv'
  BY NextThread, NextSubmission, NextEngaged DEF ControlInv
<1> QED
  BY <1>1, InitControl, TypeCorrect, PTL DEF Spec

\* A walltime that is armed or reported belongs to a job that was started and has not ended,
\* whatever kill overtakes whatever message: the monitor of a job is created with its first
\* allocation, and the end of the job takes back the report that waits in the mailbox.
THEOREM MonitorsAreOfActiveJobs == Spec => []WalltimeOfActive
<1>1. TypeOK /\ ControlInv => WalltimeOfActive
  <2> SUFFICES ASSUME TypeOK, ControlInv, NEW j \in Jobs,
                      monitor[j] = "armed" \/ Queued(mailbox, Message("WALLTIME_EXCEEDED", j))
               PROVE  Active(j)
    BY DEF WalltimeOfActive
  <2>1. Queued(mailbox, Message("WALLTIME_EXCEEDED", j)) => Exceeded(j)
    BY DEF Queued, Exceeded, Carries, At, Message
  <2>2. ThreadInv(j) /\ state[j] \in JobStates
    BY DEF ControlInv, TypeOK, JobNodeTypeOK
  <2>3. monitor[j] # "none" /\ state[j] \notin Final
    BY <2>1, <2>2 DEF ThreadInv, Monitored
  <2>4. executing[j] # <<>>
    BY <2>2, <2>3 DEF ThreadInv, Lifecycle
  <2> QED
    BY <2>2, <2>3, <2>4 DEF ThreadInv, Lifecycle, JobStates, Final, Active
<1> QED
  BY <1>1, ControlIsInvariant, TypeCorrect, PTL

-----------------------------------------------------------------------------
(* ProgressCurrent: what the algorithm knows of the work a job has done.   *)

LEMMA NextReports ==
  ASSUME TypeOK, [Next]_vars, ~Invoke
  PROVE  JobsReported /\ NodesReported /\ UNCHANGED viewVars
<1>1. CASE Respond \/ Answer \/ Forward \/ EndSchedule \/ HandleMessage
  BY <1>1, RespondReports, ForwardReports, HandleMessageReports
<1>2. CASE \/ \E j \in Jobs : Application(j) \/ WalltimeExceeded(j)
           \/ InvokePeriodically \/ IntervalElapses \/ Simulation
  BY <1>2, ActorsReport
<1>3. CASE UNCHANGED vars
  BY <1>3, NothingReported DEF vars, jobVars, nodeVars
<1> QED
  BY <1>1, <1>2, <1>3 DEF Next, Scheduling, SchedulerNext

\* The work of a job that goes on is counted in its lists, and so is its first step.
LEMMA WorkReported ==
  ASSUME TypeOK, ControlInv, [Next]_vars, ~Invoke, NEW i \in Jobs
  PROVE  \/ i \in modifiedJobs'
         \/ /\ app'[i] \in {"first", "later"} \/ state'[i] \in Final =>
                 app[i] \in {"first", "later"} \/ state[i] \in Final
            /\ app'[i] \in {"first", "later"} \/ state'[i] \in Final => done'[i] = done[i]
<1> DEFINE Goal == \/ i \in modifiedJobs'
                   \/ /\ app'[i] \in {"first", "later"} \/ state'[i] \in Final =>
                           app[i] \in {"first", "later"} \/ state[i] \in Final
                      /\ app'[i] \in {"first", "later"} \/ state'[i] \in Final => done'[i] = done[i]
<1>0. /\ ActorTypeOK /\ JobsReported /\ ThreadInv(i)
  BY NextReports DEF TypeOK, SchedulerTypeOK, ControlInv
<1>1. i \in modifiedJobs' \/ state'[i] = state[i]
  BY <1>0 DEF JobsReported
<1>2. ASSUME app'[i] = app[i] \/ app'[i] \in {"none", "starting"} \/ app[i] = "first",
             done'[i] = done[i]
      PROVE  Goal
  BY <1>1, <1>2
<1>3. ASSUME NEW j \in Jobs, SchedulerStepOf(j)
      PROVE  Goal
  <2>1. CASE HandleProcessedWorkload(j)
    <3>1. j \in modifiedJobs'
      BY <2>1 DEF HandleProcessedWorkload, SetState, AddModifiedJob
    <3>2. app' = app /\ (i # j => done'[i] = done[i])
      BY <1>0, <2>1 DEF HandleProcessedWorkload, ActorTypeOK
    <3> QED
      BY <1>2, <3>1, <3>2
  <2>2. CASE ~HandleProcessedWorkload(j)
    <3>1. done' = done
      BY <1>3, <2>2 DEF SchedulerStepOf, HandleJobSubmit, HandleSchedulingPoint, HandleEvolvingRequest,
         HandleWalltimeExceeded, DecideKill, DecideNodes, Answer, Forward, ForwardJobKill,
         ForwardJobAllocation, HandleReconfiguration, Continue, actorVars
    <3>2. \/ app' = app
          \/ \E i1 \in Jobs, a \in {"none", "starting"} : app' = [app EXCEPT ![i1] = a]
      <4>1. Answer => req \in Jobs
        BY DEF Answer, TypeOK, SchedulerTypeOK, ControlTypeOK
      <4> QED
        BY <1>3, <2>2, <4>1 DEF SchedulerStepOf, HandleJobSubmit, HandleSchedulingPoint, HandleEvolvingRequest,
         HandleWalltimeExceeded, DecideKill, DecideNodes, Answer, Forward, ForwardJobKill,
         ForwardJobAllocation, HandleReconfiguration, Continue, actorVars
    <3> QED
      BY <1>0, <1>2, <3>1, <3>2 DEF ActorTypeOK
  <2> QED
    BY <2>1, <2>2
<1>4. ASSUME NEW j \in Jobs, Application(j)
      PROVE  Goal
  <2>1. CASE AppStarts(j)
    <3>1. j \in modifiedJobs' /\ done' = done /\ (i # j => app'[i] = app[i])
      BY <1>0, <2>1 DEF AppStarts, SetState, AddModifiedJob, ActorTypeOK
    <3> QED
      BY <1>2, <3>1
  <2>2. CASE \E type \in {"SCHEDULING_POINT", "EVOLVING_REQUEST"} : AppRequests(j, type)
    <3>1. /\ app[j] = "later" /\ app'[j] = "none" /\ UNCHANGED state
          /\ i # j => app'[i] = app[i] /\ done'[i] = done[i]
      BY <1>0, <2>2 DEF AppRequests, ActorTypeOK, passive, jobVars
    <3>2. i = j => state[i] \notin Final
      BY <1>0, <3>1 DEF ThreadInv, Lifecycle
    <3> QED
      BY <1>2, <3>1, <3>2
  <2>3. CASE AppIterates(j) \/ AppCompletes(j)
    <3>1. /\ done' = done
          /\ app'[i] = app[i] \/ (i = j /\ app[i] \in {"first", "later"} /\ app'[i] \in {"later", "none"})
      BY <1>0, <2>3 DEF AppIterates, AppCompletes, ActorTypeOK
    <3> QED
      BY <1>1, <1>2, <3>1
  <2> QED
    BY <1>4, <2>1, <2>2, <2>3 DEF Application
<1>5. ASSUME UNCHANGED <<app, done>>
      PROVE  Goal
  BY <1>2, <1>5
<1>6. CASE StepOfNone
  BY <1>5, <1>6 DEF StepOfNone, HandleInvoke, HandleFinalize, Invoke, EndResponse, EndSchedule, vars,
     actorVars, InvokePeriodically, IntervalElapses, EngineStep
<1>7. ASSUME NEW j \in Jobs, WalltimeExceeded(j) \/ ReceiveJobStep(j)
      PROVE  Goal
  BY <1>5, <1>7 DEF WalltimeExceeded, ReceiveJobStep, actorVars
<1> QED
  BY <1>3, <1>4, <1>6, <1>7, StepCases DEF StepOf

LEMMA NextProgress ==
  ASSUME TypeOK, ControlInv, ProgressCurrent, [Next]_vars
  PROVE  ProgressCurrent'
<1>1. CASE Invoke
  <2>1. \A i \in Jobs : seenDone'[i] = IF i \in modifiedJobs THEN done[i] ELSE seenDone[i]
    BY <1>1 DEF Invoke
  <2> QED
    BY <1>1, <2>1 DEF Invoke, ProgressCurrent, actorVars
<1>2. CASE ~Invoke
  <2>1. JobsReported /\ seenDone' = seenDone
    BY <1>2, NextReports DEF viewVars
  <2> QED
    BY <1>2, <2>1, WorkReported DEF ProgressCurrent, JobsReported
<1> QED
  BY <1>1, <1>2

\* The algorithm learns of the work of a job that goes on or has ended, though no handler
\* enters the job in a list when the work is done: the start of the next phase or the end
\* of the job, which follow, enter it.
THEOREM ProgressIsCurrent == Spec => []ProgressCurrent
<1>1. Init => ProgressCurrent
  BY DEF Init, JobInit, NodeInit, SchedulerInit, ProgressCurrent, Final
<1> QED
  BY <1>1, NextProgress, ControlIsInvariant, TypeCorrect, PTL DEF Spec
=============================================================================
