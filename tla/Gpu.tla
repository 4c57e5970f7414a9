--------------------------------- MODULE Gpu ---------------------------------
(***************************************************************************)
(* The GPUs of one compute node and their link (system/Gpu, the GPU part   *)
(* of system/Node, tasks/AsyncSleep, tasks/CombinedGpuTask).  A GPU task   *)
(* of an application creates an AsyncSleep actor for the kernel on each    *)
(* GPU it picks and one for the transfer over the link, takes part in the  *)
(* exchange with the other nodes, and waits for the callbacks.  Such an    *)
(* actor locks the mutex of its resource, sleeps, unlocks it and posts its *)
(* callback; it outlives the application that created it, because          *)
(* Node::killJob kills the application only.                               *)
(*                                                                         *)
(* The applications run on the node one after the other or, with           *)
(* oversubscription, at the same time.  Durations are left out: a sleep    *)
(* and an exchange end at any time.                                        *)
(***************************************************************************)
EXTENDS Integers, Sequences, FiniteSets, SequencesExt, Functions

CONSTANTS
  Apps,      \* how many applications run on the node
  Tasks,     \* how many GPU tasks each of them executes, by the application
  NumGpus,   \* the GPUs of the node
  Used,      \* executingNumGpusPerNode
  Parts,     \* what the tasks of the instance consist of
  Shared     \* Node::allowOversubscription

ASSUME GpuSpecification ==
  {Apps, NumGpus, Used} \subseteq Nat \ {0} /\ Used <= NumGpus /\ Shared \in BOOLEAN
  /\ Tasks \in [1 .. Apps -> Nat \ {0}]
  /\ Parts \subseteq {"kernels", "transfer", "both"} /\ Parts # {}

Gpus == 1 .. NumGpus
Link == 0

AllApps == 1 .. Apps
Sleepers == UNION {{a} \X (1 .. Tasks[a]) \X (Gpus \cup {Link}) : a \in AllApps}

VARIABLES
  gpuState,   \* Gpu::state
  queue,      \* the mutex of each GPU and of the link: its owner, then who waits
  at,         \* where each AsyncSleep actor is
  linkMail,   \* the mailbox "GPULink@host": the actors blocked in put
  task,       \* the task each application executes, or has executed last
  caller,     \* what each application does
  got,        \* history: the transfer whose callback ended the last task
  killed,     \* history: some application was killed
  overlapped  \* history: two of them were on the node at the same time

vars == <<gpuState, queue, at, linkMail, task, caller, got, killed, overlapped>>

history == <<killed, overlapped>>

TypeOK ==
  /\ gpuState \in [Gpus -> {"FREE", "ALLOCATED"}]
  /\ queue \in [Gpus \cup {Link} -> Seq(Sleepers)]
  /\ at \in [Sleepers -> {"none", "created", "locking", "unlocked", "put", "ended"}]
  /\ linkMail \in Seq(Sleepers)
  /\ task \in [AllApps -> Nat] /\ \A a \in AllApps : task[a] <= Tasks[a]
  /\ caller \in [AllApps -> {"absent", "idle", "exchanging", "waiting", "ended"}]
  /\ got \in [AllApps -> Sleepers \cup {<<>>}]
  /\ {killed, overlapped} \subseteq BOOLEAN

Init ==
  /\ gpuState = [g \in Gpus |-> "FREE"]
  /\ queue = [r \in Gpus \cup {Link} |-> <<>>]
  /\ at = [s \in Sleepers |-> "none"]
  /\ linkMail = <<>>
  /\ task = [a \in AllApps |-> 0]
  /\ caller = [a \in AllApps |-> "absent"]
  /\ got = [a \in AllApps |-> <<>>]
  /\ killed = FALSE /\ overlapped = FALSE

Resource(s) == s[3]
Kernel(s) == Resource(s) # Link

\* The actors of the present task of an application.
Mine(a) == {s \in Sleepers : s[1] = a /\ s[2] = task[a]}

-----------------------------------------------------------------------------
(* The application.                                                        *)

\* Node::execGpuComputationAsync: the free GPUs by number, then the allocated ones.
Candidates ==
  LET isFree(g) == gpuState[g] = "FREE"
      isAllocated(g) == gpuState[g] # "FREE"
      all == [i \in Gpus |-> i]
  IN  SelectSeq(all, isFree) \o SelectSeq(all, isAllocated)

Picked == Range(SubSeq(Candidates, 1, Used))

Resources(part) ==
  (IF part = "transfer" THEN {} ELSE Picked) \cup (IF part = "kernels" THEN {} ELSE {Link})

Created(a, resources) ==
  [s \in Sleepers |-> IF s[1] = a /\ s[2] = task[a] + 1 /\ Resource(s) \in resources
                      THEN "created" ELSE at[s]]

\* CombinedGpuTask::execute: the kernels, unless this node's share of the computation is
\* nothing, and the transfer as actors; a task that communicates within the nodes does so
\* between them as well.
StartTask(a) ==
  /\ caller[a] = "idle" /\ task[a] < Tasks[a]
  /\ task' = [task EXCEPT ![a] = @ + 1]
  /\ \E part \in Parts :
       /\ at' = Created(a, Resources(part))
       /\ caller' = [caller EXCEPT ![a] = IF part = "kernels" THEN "waiting" ELSE "exchanging"]
  /\ UNCHANGED <<gpuState, queue, linkMail, got, history>>

\* The second barrier after the parallel execution by rank 0 (see module Tasks).
Exchanged(a) ==
  /\ caller[a] = "exchanging"
  /\ caller' = [caller EXCEPT ![a] = "waiting"]
  /\ UNCHANGED <<gpuState, queue, at, linkMail, task, got, history>>

\* The callbacks: each kernel has a mailbox of its own ...
KernelsDone(a) == \A s \in Mine(a) : Kernel(s) => at[s] \in {"none", "put"}
Communicates(a) == \E s \in Mine(a) : ~Kernel(s) /\ at[s] # "none"

Taken(a, mail) ==
  [s \in Sleepers |-> IF s \in mail \/ (s \in Mine(a) /\ Kernel(s) /\ at[s] = "put")
                      THEN "ended" ELSE at[s]]

(* (Definitions named Wrong... are deliberate mistakes, see module JobNode.) *)

WrongEndTask(a) ==
  /\ caller[a] = "waiting" /\ KernelsDone(a)
  /\ at' = Taken(a, {})
  /\ caller' = [caller EXCEPT ![a] = "idle"]
  /\ UNCHANGED <<gpuState, queue, linkMail, task, got, history>>

\* ... and the transfers of the node share one.
EndTask(a) ==
  /\ caller[a] = "waiting" /\ KernelsDone(a)
  /\ IF Communicates(a)
     THEN /\ linkMail # <<>>
          /\ at' = Taken(a, {Head(linkMail)})
          /\ linkMail' = Tail(linkMail)
          /\ got' = [got EXCEPT ![a] = Head(linkMail)]
     ELSE at' = Taken(a, {}) /\ UNCHANGED <<linkMail, got>>
  /\ caller' = [caller EXCEPT ![a] = "idle"]
  /\ UNCHANGED <<gpuState, queue, task, history>>

\* The application has ended, or Node::killJob kills it.
EndApp(a) ==
  /\ caller[a] = "idle" /\ task[a] = Tasks[a]
  /\ caller' = [caller EXCEPT ![a] = "ended"]
  /\ UNCHANGED <<gpuState, queue, at, linkMail, task, got, history>>

KillApp(a) ==
  /\ caller[a] \in {"idle", "exchanging", "waiting"}
  /\ caller' = [caller EXCEPT ![a] = "ended"]
  /\ killed' = TRUE
  /\ UNCHANGED <<gpuState, queue, at, linkMail, task, got, overlapped>>

OthersEnded(a) == \A b \in AllApps \ {a} : caller[b] \in {"absent", "ended"}

\* Node::allocateJob: without oversubscription, once the others have ended.
StartApp(a) ==
  /\ caller[a] = "absent"
  /\ OthersEnded(a) \/ Shared
  /\ caller' = [caller EXCEPT ![a] = "idle"]
  /\ overlapped' = (overlapped \/ ~OthersEnded(a))
  /\ UNCHANGED <<gpuState, queue, at, linkMail, task, got, killed>>

-----------------------------------------------------------------------------
(* AsyncSleep.                                                             *)

SetGpu(r, new) == gpuState' = IF r \in Gpus THEN [gpuState EXCEPT ![r] = new] ELSE gpuState

\* Gpu::allocate sets the state before it locks; Node::occupyGpuLink locks.
Lock(s) ==
  /\ at[s] = "created"
  /\ at' = [at EXCEPT ![s] = "locking"]
  /\ SetGpu(Resource(s), "ALLOCATED")
  /\ queue' = [queue EXCEPT ![Resource(s)] = Append(@, s)]
  /\ UNCHANGED <<linkMail, task, caller, got, history>>

WrongUnlock(s) ==
  /\ at[s] = "locking" /\ Head(queue[Resource(s)]) = s
  /\ at' = [at EXCEPT ![s] = "unlocked"]
  /\ UNCHANGED <<gpuState, queue, linkMail, task, caller, got, history>>

\* The sleep of the owner ends; Gpu::deallocate and Node::releaseGpuLink unlock.
Unlock(s) ==
  /\ at[s] = "locking" /\ Head(queue[Resource(s)]) = s
  /\ at' = [at EXCEPT ![s] = "unlocked"]
  /\ queue' = [queue EXCEPT ![Resource(s)] = Tail(@)]
  /\ UNCHANGED <<gpuState, linkMail, task, caller, got, history>>

WrongPost(s) ==
  /\ at[s] = "unlocked"
  /\ at' = [at EXCEPT ![s] = "put"]
  /\ linkMail' = Append(linkMail, s)
  /\ UNCHANGED <<gpuState, queue, task, caller, got, history>>

\* Only then Gpu::deallocate sets the state, and the callback is posted.
Post(s) ==
  /\ at[s] = "unlocked"
  /\ at' = [at EXCEPT ![s] = "put"]
  /\ SetGpu(Resource(s), "FREE")
  /\ linkMail' = IF Resource(s) = Link THEN Append(linkMail, s) ELSE linkMail
  /\ UNCHANGED <<queue, task, caller, got, history>>

AsyncSleep(s) == Lock(s) \/ Unlock(s) \/ Post(s)

App(a) == StartApp(a) \/ StartTask(a) \/ Exchanged(a) \/ EndTask(a) \/ EndApp(a)

Next ==
  \/ \E a \in AllApps : App(a) \/ KillApp(a)
  \/ \E s \in Sleepers : AsyncSleep(s)

Spec == Init /\ [][Next]_vars

-----------------------------------------------------------------------------
(* Properties.  A killed application leaves its kernels and its transfer   *)
(* behind, and applications that share the node meet on its GPUs, so the   *)
(* first two hold only as long as neither has been the case.               *)

Alone == ~killed /\ ~overlapped

\* A GPU with a kernel on it is not shown as free, so that the next task picks its GPUs from
\* what is so.
BusyIsAllocated ==
  Alone => \A g \in Gpus : queue[g] # <<>> => gpuState[g] = "ALLOCATED"

\* A task ends with the callback of its own transfer, although the mailbox is the node's.
OwnTransfer ==
  \A a \in AllApps :
    Alone /\ caller[a] = "idle" /\ task[a] > 0 /\ Communicates(a) =>
      got[a] = <<a, task[a], Link>>

\* Applications that share the node may end their tasks with the callbacks of each other's
\* transfers, and a GPU may be shown as free with a kernel on it.  But once all have ended
\* nothing is left of them: no callback for a later application to take for its own, no
\* sleeping actor, no mutex held and no GPU shown as allocated.
NothingLeft ==
  ~killed /\ (\A a \in AllApps : caller[a] = "ended") =>
    /\ linkMail = <<>>
    /\ \A s \in Sleepers : at[s] \in {"none", "ended"}
    /\ \A g \in Gpus : gpuState[g] = "FREE"
    /\ \A r \in Gpus \cup {Link} : queue[r] = <<>>

\* Every task ends or its application is killed, even one that has to wait for the kernels
\* of another or of a killed application, or whose callback another one has taken.
TasksEnd ==
  \A a \in AllApps : caller[a] \in {"exchanging", "waiting"} ~> caller[a] \in {"idle", "ended"}
=============================================================================
