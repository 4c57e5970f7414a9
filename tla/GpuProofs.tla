------------------------------ MODULE GpuProofs ------------------------------
(***************************************************************************)
(* The GPUs of a node, for any number of applications, tasks, GPUs and     *)
(* kernels.  The inductive invariant says who holds a mutex or waits for   *)
(* it, whose callback lies in the mailbox of the node's link, and that     *)
(* there are as many transfers under way as tasks that wait for one: this  *)
(* balance is what remains when applications end their tasks with the      *)
(* callbacks of each other.                                                *)
(***************************************************************************)
EXTENDS GpuView, SequenceTheorems, FiniteSetTheorems, TLAPS

-----------------------------------------------------------------------------
(* Queues without repetitions.                                             *)

Elements(q) == {q[i] : i \in 1 .. Len(q)}
Distinct(q) == \A i, k \in 1 .. Len(q) : q[i] = q[k] => i = k

LEMMA EmptyQueue ==
  ASSUME NEW S, NEW q \in Seq(S)
  PROVE  q = <<>> <=> Elements(q) = {}
<1>1. q = <<>> => Elements(q) = {}
  BY EmptySeq DEF Elements
<1>2. q # <<>> => q[1] \in Elements(q)
  BY EmptySeq DEF Elements
<1> QED
  BY <1>1, <1>2

LEMMA JoinsQueue ==
  ASSUME NEW S, NEW q \in Seq(S), NEW s \in S, Distinct(q), s \notin Elements(q)
  PROVE  /\ Append(q, s) \in Seq(S) /\ Distinct(Append(q, s))
         /\ Elements(Append(q, s)) = Elements(q) \cup {s}
<1> DEFINE p == Append(q, s)
           l == Len(q)
<1>1. /\ l \in Nat /\ p \in Seq(S) /\ Len(p) = l + 1
      /\ \A i \in 1 .. l : p[i] = q[i]
      /\ p[l + 1] = s
  BY AppendProperties, LenProperties
<1> HIDE DEF p, l
<1>2. \A i \in 1 .. l : p[i] # s
  BY <1>1 DEF Elements, l
<1>3. Distinct(p)
  <2>1. SUFFICES ASSUME NEW i \in 1 .. l + 1, NEW k \in 1 .. l + 1, p[i] = p[k] PROVE i = k
    BY <1>1 DEF Distinct
  <2>2. CASE i = l + 1 \/ k = l + 1
    BY <1>1, <1>2, <2>1, <2>2
  <2>3. CASE i \in 1 .. l /\ k \in 1 .. l
    BY <1>1, <2>1, <2>3 DEF Distinct, l
  <2> QED
    BY <1>1, <2>2, <2>3
<1>4. Elements(p) = Elements(q) \cup {s}
  <2>1. 1 .. l + 1 = (1 .. l) \cup {l + 1}
    BY <1>1
  <2>2. Elements(p) = {p[i] : i \in 1 .. l} \cup {s}
    BY <1>1, <2>1 DEF Elements
  <2>3. {p[i] : i \in 1 .. l} = Elements(q)
    BY <1>1 DEF Elements, l
  <2> QED
    BY <2>2, <2>3
<1> QED
  BY <1>1, <1>3, <1>4 DEF p

LEMMA LeavesQueue ==
  ASSUME NEW S, NEW q \in Seq(S), Distinct(q), q # <<>>
  PROVE  /\ Tail(q) \in Seq(S) /\ Distinct(Tail(q))
         /\ Head(q) \in Elements(q)
         /\ Elements(Tail(q)) = Elements(q) \ {Head(q)}
<1> DEFINE p == Tail(q)
           l == Len(q)
<1>1. /\ l \in Nat \ {0} /\ p \in Seq(S) /\ Len(p) = l - 1 /\ Head(q) = q[1]
      /\ \A i \in 1 .. l - 1 : p[i] = q[i + 1]
  BY HeadTailProperties, EmptySeq
<1> HIDE DEF p, l
<1>2. Head(q) \in Elements(q)
  BY <1>1 DEF Elements, l
<1>3. Distinct(p)
  <2>1. SUFFICES ASSUME NEW i \in 1 .. l - 1, NEW k \in 1 .. l - 1, p[i] = p[k] PROVE i = k
    BY <1>1 DEF Distinct
  <2>2. i + 1 \in 1 .. l /\ k + 1 \in 1 .. l /\ q[i + 1] = q[k + 1]
    BY <1>1, <2>1
  <2>3. i + 1 = k + 1
    BY <2>2 DEF Distinct, l
  <2> QED
    BY <1>1, <2>3
<1>4. Elements(p) \subseteq Elements(q) \ {Head(q)}
  <2>1. SUFFICES ASSUME NEW i \in 1 .. l - 1 PROVE p[i] \in Elements(q) /\ p[i] # q[1]
    BY <1>1 DEF Elements
  <2>2. i + 1 \in 1 .. l /\ 1 \in 1 .. l /\ i + 1 # 1 /\ p[i] = q[i + 1]
    BY <1>1
  <2> QED
    BY <2>2 DEF Elements, Distinct, l
<1>5. Elements(q) \ {Head(q)} \subseteq Elements(p)
  <2>1. SUFFICES ASSUME NEW i \in 1 .. l, q[i] # q[1] PROVE q[i] \in Elements(p)
    BY <1>1 DEF Elements, l
  <2>2. i # 1
    BY <2>1
  <2>3. i - 1 \in 1 .. l - 1 /\ (i - 1) + 1 = i
    BY <1>1, <2>2
  <2>4. p[i - 1] = q[i]
    BY <1>1, <2>3
  <2> QED
    BY <1>1, <2>3, <2>4 DEF Elements
<1> QED
  BY <1>1, <1>2, <1>3, <1>4, <1>5 DEF p

-----------------------------------------------------------------------------
(* The inductive invariant.                                                *)

InTask == {"exchanging", "waiting"}
Active == {"idle", "exchanging", "waiting"}

\* An actor that its application has created and not yet heard of.
Live(s) == at[s] \notin {"none", "ended"}

OfPresentTask(s) == s \in Mine(s[1]) /\ caller[s[1]] \in InTask

\* A mutex is held and waited for by the actors that have locked it, each once.
Mutexes ==
  \A r \in Gpus \cup {Link} :
    /\ Distinct(queue[r])
    /\ Elements(queue[r]) = {s \in Sleepers : Resource(s) = r /\ at[s] = "locking"}

\* The mailbox of the link holds the callbacks of the transfers that are done.
Callbacks ==
  /\ Distinct(linkMail)
  /\ Elements(linkMail) = {s \in Sleepers : Resource(s) = Link /\ at[s] = "put"}

\* The tasks to come have no actors yet.
Future ==
  /\ \A s \in Sleepers : s[2] > task[s[1]] => at[s] = "none"
  /\ \A a \in AllApps : caller[a] = "absent" => task[a] = 0

\* A GPU is shown as allocated by an actor that has yet to show it as free.
Shown ==
  \A g \in Gpus : gpuState[g] = "ALLOCATED" =>
    \E s \in Sleepers : Resource(s) = g /\ at[s] \in {"locking", "unlocked"}

\* The kernels that run, wait or are to be collected are those of the present tasks.
PresentKernels == ~killed => \A s \in Sleepers : Kernel(s) /\ Live(s) => OfPresentTask(s)

\* As many transfers are under way, or to be collected, as there are tasks to collect one.
Transfers == {s \in Sleepers : ~Kernel(s) /\ Live(s)}
Collectors == {a \in AllApps : caller[a] \in InTask /\ Communicates(a)}

\* (A killed application leaves one without a task.)
Balance ==
  /\ IsFiniteSet(Transfers) /\ IsFiniteSet(Collectors)
  /\ Cardinality(Collectors) <= Cardinality(Transfers)
  /\ ~killed => Cardinality(Transfers) = Cardinality(Collectors)

\* Nobody but the task itself collects its kernels.
Uncollected ==
  \A a \in AllApps : caller[a] \in InTask =>
    \A s \in Sleepers : s[1] = a /\ s[2] = task[a] /\ Kernel(s) => at[s] # "ended"

OneActive == ~overlapped => \A a, b \in AllApps : {caller[a], caller[b]} \subseteq Active => a = b

PresentTransfers == Alone => \A s \in Sleepers : ~Kernel(s) /\ Live(s) => OfPresentTask(s)

GpuInv ==
  /\ TypeOK /\ Mutexes /\ Callbacks /\ Future /\ Shown
  /\ PresentKernels /\ Uncollected /\ Balance /\ OneActive /\ PresentTransfers
  /\ BusyIsAllocated /\ OwnTransfer

LEMMA SleeperFields ==
  /\ Link \notin Gpus
  /\ \A s \in Sleepers : /\ s[1] \in AllApps /\ s[2] \in 1 .. Tasks[s[1]]
                         /\ Resource(s) \in Gpus \cup {Link} /\ Resource(s) = s[3]
                         /\ Kernel(s) <=> Resource(s) \in Gpus
                         /\ s = <<s[1], s[2], s[3]>>
<1>1. Link \notin Gpus
  BY GpuSpecification DEF Link, Gpus
<1> QED
  BY <1>1 DEF Sleepers, Resource, Kernel

LEMMA InitGpu == Init => GpuInv
<1> SUFFICES ASSUME Init PROVE GpuInv
  OBVIOUS
<1>1. TypeOK
  <2>1. <<>> \in Seq(Sleepers) /\ \A a \in AllApps : 0 <= Tasks[a]
    BY EmptySeq, GpuSpecification DEF AllApps
  <2> QED
    BY <2>1 DEF Init, TypeOK
<1>2. Elements(<<>>) = {} /\ Distinct(<<>>)
  BY EmptySeq DEF Elements, Distinct
<1>3. Mutexes /\ Callbacks
  BY <1>2 DEF Init, Mutexes, Callbacks
<1>4. Future /\ Shown
  BY DEF Init, Future, Shown
<1>5. PresentKernels /\ PresentTransfers /\ OneActive
  BY DEF Init, PresentKernels, PresentTransfers, OneActive, Live, Active
<1>6. Transfers = {} /\ Collectors = {}
  BY DEF Init, Transfers, Collectors, Live, InTask
<1>7. Balance
  BY <1>6, FS_EmptySet DEF Balance
<1>8. BusyIsAllocated /\ OwnTransfer /\ Uncollected
  BY DEF Init, BusyIsAllocated, OwnTransfer, Uncollected, InTask
<1> QED
  BY <1>1, <1>3, <1>4, <1>5, <1>7, <1>8 DEF GpuInv

\* What an AsyncSleep actor does until its callback is collected is of no concern to the
\* applications.
LEMMA ActorsStayLive ==
  ASSUME GpuInv, NEW s \in Sleepers, NEW y \in {"locking", "unlocked", "put"},
         Live(s), at' = [at EXCEPT ![s] = y], UNCHANGED <<task, caller, got, history>>
  PROVE  /\ Future' /\ PresentKernels' /\ Uncollected' /\ Balance' /\ OneActive'
         /\ PresentTransfers' /\ OwnTransfer'
<1>1. at \in [Sleepers -> {"none", "created", "locking", "unlocked", "put", "ended"}]
  BY DEF GpuInv, TypeOK
<1>2. \A t \in Sleepers : Live(t)' <=> Live(t)
  BY <1>1 DEF Live
<1>3. \A t \in Sleepers : at'[t] = "none" <=> at[t] = "none"
  BY <1>1 DEF Live
<1>4. UNCHANGED <<task, caller, got, killed, overlapped>>
  BY DEF history
<1>5. \A a \in AllApps : Mine(a)' = Mine(a)
  BY <1>4 DEF Mine
<1>6. \A a \in AllApps : Communicates(a)' <=> Communicates(a)
  BY <1>3, <1>5 DEF Communicates, Mine
<1>7. \A t \in Sleepers : OfPresentTask(t)' <=> OfPresentTask(t)
  BY <1>4 DEF OfPresentTask, Mine
<1>8. Transfers' = Transfers /\ Collectors' = Collectors
  BY <1>2, <1>4, <1>6 DEF Transfers, Collectors
<1>9. Future'
  BY <1>3, <1>4 DEF GpuInv, Future
<1>10. PresentKernels' /\ PresentTransfers'
  BY <1>2, <1>4, <1>7 DEF GpuInv, PresentKernels, PresentTransfers, Alone
<1>11. Balance'
  BY <1>4, <1>8 DEF GpuInv, Balance
<1>12. OneActive'
  BY <1>4 DEF GpuInv, OneActive
<1>13. OwnTransfer'
  BY <1>4, <1>6 DEF GpuInv, OwnTransfer, Alone
<1>14. Uncollected'
  BY <1>1, <1>4 DEF GpuInv, Uncollected, InTask, Kernel, Resource
<1> QED
  BY <1>9, <1>10, <1>11, <1>12, <1>13, <1>14

\* Alone on the node, the live actors of one GPU are one actor.
LEMMA OneKernel ==
  ASSUME GpuInv, Alone, NEW s \in Sleepers, NEW t \in Sleepers, Kernel(s), Kernel(t),
         Live(s), Live(t), Resource(s) = Resource(t)
  PROVE  s = t
<1>1. OfPresentTask(s) /\ OfPresentTask(t)
  BY DEF GpuInv, PresentKernels, Alone
<1>2. s[1] \in AllApps /\ t[1] \in AllApps
  BY SleeperFields
<1>3. s[1] = t[1]
  BY <1>1, <1>2 DEF GpuInv, OneActive, Alone, OfPresentTask, InTask, Active
<1>4. s[2] = t[2]
  BY <1>1, <1>3 DEF OfPresentTask, Mine
<1> QED
  BY <1>3, <1>4, SleeperFields

LEMMA LockKeeps == ASSUME GpuInv, NEW s \in Sleepers, Lock(s) PROVE GpuInv'
<1> DEFINE r == Resource(s)
<1>1. r \in Gpus \cup {Link}
  BY SleeperFields
<1>2. /\ at \in [Sleepers -> {"none", "created", "locking", "unlocked", "put", "ended"}]
      /\ queue \in [Gpus \cup {Link} -> Seq(Sleepers)]
      /\ gpuState \in [Gpus -> {"FREE", "ALLOCATED"}]
  BY DEF GpuInv, TypeOK
<1>3. /\ at[s] = "created" /\ at' = [at EXCEPT ![s] = "locking"]
      /\ queue' = [queue EXCEPT ![r] = Append(queue[r], s)]
      /\ UNCHANGED <<linkMail, task, caller, got, history>>
      /\ gpuState' = IF r \in Gpus THEN [gpuState EXCEPT ![r] = "ALLOCATED"] ELSE gpuState
  BY DEF Lock, SetGpu
<1>4. /\ at' \in [Sleepers -> {"none", "created", "locking", "unlocked", "put", "ended"}]
      /\ at'[s] = "locking" /\ \A t \in Sleepers \ {s} : at'[t] = at[t]
  BY <1>2, <1>3
<1>5. /\ Append(queue[r], s) \in Seq(Sleepers) /\ Distinct(Append(queue[r], s))
      /\ Elements(Append(queue[r], s)) = Elements(queue[r]) \cup {s}
  <2>1. queue[r] \in Seq(Sleepers) /\ Distinct(queue[r]) /\ s \notin Elements(queue[r])
    BY <1>1, <1>2, <1>3 DEF GpuInv, Mutexes
  <2> QED
    BY <2>1, JoinsQueue
<1>6. /\ queue' \in [Gpus \cup {Link} -> Seq(Sleepers)] /\ queue'[r] = Append(queue[r], s)
      /\ \A q \in (Gpus \cup {Link}) \ {r} : queue'[q] = queue[q]
  BY <1>1, <1>2, <1>3, <1>5
<1>7. TypeOK'
  BY <1>2, <1>3, <1>4, <1>6 DEF GpuInv, TypeOK, history
<1>8. Mutexes'
  <2> SUFFICES ASSUME NEW q \in Gpus \cup {Link}
               PROVE  /\ Distinct(queue'[q])
                      /\ Elements(queue'[q]) = {t \in Sleepers : Resource(t) = q /\ at'[t] = "locking"}
    BY DEF Mutexes, Resource, Distinct, Elements
  <2>1. /\ Distinct(queue[q])
        /\ Elements(queue[q]) = {t \in Sleepers : Resource(t) = q /\ at[t] = "locking"}
    BY DEF GpuInv, Mutexes
  <2>2. CASE q = r
    BY ZenonT(60), <1>4, <1>5, <1>6, <2>1, <2>2
  <2>3. CASE q # r
    BY <1>3, <1>4, <1>6, <2>1, <2>3
  <2> QED
    BY <2>2, <2>3
<1>9. Callbacks'
  <2>1. {t \in Sleepers : Resource(t) = Link /\ at'[t] = "put"}
          = {t \in Sleepers : Resource(t) = Link /\ at[t] = "put"}
    BY <1>3, <1>4
  <2> QED
    BY <1>3, <2>1 DEF GpuInv, Callbacks, Resource, Distinct, Elements
<1>10. Shown'
  <2> SUFFICES ASSUME NEW g \in Gpus, gpuState'[g] = "ALLOCATED"
               PROVE  \E t \in Sleepers : Resource(t) = g /\ at'[t] \in {"locking", "unlocked"}
    BY DEF Shown, Resource
  <2>1. CASE g = r
    BY <1>4, <2>1
  <2>2. CASE g # r
    <3>1. gpuState[g] = "ALLOCATED"
      BY <1>2, <1>3, <2>2
    <3>2. PICK t \in Sleepers : Resource(t) = g /\ at[t] \in {"locking", "unlocked"}
      BY <3>1 DEF GpuInv, Shown
    <3> QED
      BY <1>4, <2>2, <3>2
  <2> QED
    BY <2>1, <2>2
<1>11. Future' /\ PresentKernels' /\ Uncollected' /\ Balance' /\ OneActive' /\ PresentTransfers'
       /\ OwnTransfer'
  BY <1>3, ActorsStayLive DEF Live
<1>12. BusyIsAllocated'
  <2> SUFFICES ASSUME Alone, NEW g \in Gpus, queue'[g] # <<>> PROVE gpuState'[g] = "ALLOCATED"
    BY <1>3 DEF BusyIsAllocated, Alone, history
  <2>1. CASE g = r
    BY <1>2, <1>3, <2>1
  <2>2. CASE g # r
    <3>1. gpuState[g] = "ALLOCATED"
      BY <1>6, <2>2 DEF GpuInv, BusyIsAllocated
    <3> QED
      BY <1>2, <1>3, <2>2, <3>1
  <2> QED
    BY <2>1, <2>2
<1> QED
  BY <1>7, <1>8, <1>9, <1>10, <1>11, <1>12 DEF GpuInv

LEMMA UnlockKeeps == ASSUME GpuInv, NEW s \in Sleepers, Unlock(s) PROVE GpuInv'
<1> DEFINE r == Resource(s)
<1>1. r \in Gpus \cup {Link}
  BY SleeperFields
<1>2. /\ at \in [Sleepers -> {"none", "created", "locking", "unlocked", "put", "ended"}]
      /\ queue \in [Gpus \cup {Link} -> Seq(Sleepers)]
  BY DEF GpuInv, TypeOK
<1>3. /\ at[s] = "locking" /\ at' = [at EXCEPT ![s] = "unlocked"] /\ Head(queue[r]) = s
      /\ queue' = [queue EXCEPT ![r] = Tail(queue[r])]
      /\ UNCHANGED <<gpuState, linkMail, task, caller, got, history>>
  BY DEF Unlock
<1>4. /\ at' \in [Sleepers -> {"none", "created", "locking", "unlocked", "put", "ended"}]
      /\ at'[s] = "unlocked" /\ \A t \in Sleepers \ {s} : at'[t] = at[t]
  BY <1>2, <1>3
<1>5. /\ Tail(queue[r]) \in Seq(Sleepers) /\ Distinct(Tail(queue[r])) /\ queue[r] # <<>>
      /\ Elements(Tail(queue[r])) = Elements(queue[r]) \ {s}
  <2>1. queue[r] \in Seq(Sleepers) /\ Distinct(queue[r]) /\ s \in Elements(queue[r])
    BY <1>1, <1>2, <1>3 DEF GpuInv, Mutexes
  <2>2. queue[r] # <<>>
    BY <2>1, EmptyQueue
  <2> QED
    BY <1>3, <2>1, <2>2, LeavesQueue
<1>6. /\ queue' \in [Gpus \cup {Link} -> Seq(Sleepers)] /\ queue'[r] = Tail(queue[r])
      /\ \A q \in (Gpus \cup {Link}) \ {r} : queue'[q] = queue[q]
  BY <1>1, <1>2, <1>3, <1>5
<1>7. TypeOK'
  BY <1>3, <1>4, <1>6 DEF GpuInv, TypeOK, history
<1>8. Mutexes'
  <2> SUFFICES ASSUME NEW q \in Gpus \cup {Link}
               PROVE  /\ Distinct(queue'[q])
                      /\ Elements(queue'[q]) = {t \in Sleepers : Resource(t) = q /\ at'[t] = "locking"}
    BY DEF Mutexes, Resource, Distinct, Elements
  <2>1. /\ Distinct(queue[q])
        /\ Elements(queue[q]) = {t \in Sleepers : Resource(t) = q /\ at[t] = "locking"}
    BY DEF GpuInv, Mutexes
  <2>2. CASE q = r
    BY <1>4, <1>5, <1>6, <2>1, <2>2
  <2>3. CASE q # r
    BY <1>3, <1>4, <1>6, <2>1, <2>3
  <2> QED
    BY <2>2, <2>3
<1>9. Callbacks'
  <2>1. {t \in Sleepers : Resource(t) = Link /\ at'[t] = "put"}
          = {t \in Sleepers : Resource(t) = Link /\ at[t] = "put"}
    BY <1>3, <1>4
  <2> QED
    BY <1>3, <2>1 DEF GpuInv, Callbacks, Resource, Distinct, Elements
<1>10. Shown'
  BY <1>3, <1>4 DEF GpuInv, Shown, Resource
<1>11. Future' /\ PresentKernels' /\ Uncollected' /\ Balance' /\ OneActive' /\ PresentTransfers'
       /\ OwnTransfer'
  BY <1>3, ActorsStayLive DEF Live
<1>12. BusyIsAllocated'
  BY <1>3, <1>5, <1>6 DEF GpuInv, BusyIsAllocated, Alone, history
<1> QED
  BY <1>7, <1>8, <1>9, <1>10, <1>11, <1>12 DEF GpuInv

LEMMA PostKeeps == ASSUME GpuInv, NEW s \in Sleepers, Post(s) PROVE GpuInv'
<1> DEFINE r == Resource(s)
<1>1. /\ r \in Gpus \cup {Link} /\ Link \notin Gpus /\ Kernel(s) <=> r \in Gpus
      /\ \A t \in Sleepers : Kernel(t) <=> Resource(t) \in Gpus
  BY SleeperFields
<1>2. /\ at \in [Sleepers -> {"none", "created", "locking", "unlocked", "put", "ended"}]
      /\ gpuState \in [Gpus -> {"FREE", "ALLOCATED"}] /\ linkMail \in Seq(Sleepers)
      /\ queue \in [Gpus \cup {Link} -> Seq(Sleepers)]
  BY DEF GpuInv, TypeOK
<1>3. /\ at[s] = "unlocked" /\ at' = [at EXCEPT ![s] = "put"]
      /\ linkMail' = IF r = Link THEN Append(linkMail, s) ELSE linkMail
      /\ UNCHANGED <<queue, task, caller, got, history>>
      /\ gpuState' = IF r \in Gpus THEN [gpuState EXCEPT ![r] = "FREE"] ELSE gpuState
  BY DEF Post, SetGpu
<1>4. /\ at' \in [Sleepers -> {"none", "created", "locking", "unlocked", "put", "ended"}]
      /\ at'[s] = "put" /\ \A t \in Sleepers \ {s} : at'[t] = at[t]
  BY <1>2, <1>3
<1>5. /\ Append(linkMail, s) \in Seq(Sleepers) /\ Distinct(Append(linkMail, s))
      /\ Elements(Append(linkMail, s)) = Elements(linkMail) \cup {s}
  <2>1. Distinct(linkMail) /\ s \notin Elements(linkMail)
    BY <1>3 DEF GpuInv, Callbacks
  <2> QED
    BY <1>2, <2>1, JoinsQueue
<1>6. TypeOK'
  BY <1>2, <1>3, <1>4, <1>5 DEF GpuInv, TypeOK, history
<1>7. Mutexes'
  <2> SUFFICES ASSUME NEW q \in Gpus \cup {Link}
               PROVE  /\ Distinct(queue[q])
                      /\ Elements(queue[q]) = {t \in Sleepers : Resource(t) = q /\ at'[t] = "locking"}
    BY <1>3 DEF Mutexes, Resource, Distinct, Elements
  <2>1. {t \in Sleepers : Resource(t) = q /\ at'[t] = "locking"}
          = {t \in Sleepers : Resource(t) = q /\ at[t] = "locking"}
    BY <1>3, <1>4
  <2> QED
    BY <2>1 DEF GpuInv, Mutexes
<1>8. Callbacks'
  <2> SUFFICES /\ Distinct(linkMail')
               /\ Elements(linkMail') = {t \in Sleepers : Resource(t) = Link /\ at'[t] = "put"}
    BY DEF Callbacks, Resource, Distinct, Elements
  <2>1. /\ Distinct(linkMail)
        /\ Elements(linkMail) = {t \in Sleepers : Resource(t) = Link /\ at[t] = "put"}
    BY DEF GpuInv, Callbacks
  <2>2. CASE r = Link
    BY <1>3, <1>4, <1>5, <2>1, <2>2
  <2>3. CASE r # Link
    BY <1>3, <1>4, <2>1, <2>3
  <2> QED
    BY <2>2, <2>3
<1>9. Shown'
  <2> SUFFICES ASSUME NEW g \in Gpus, gpuState'[g] = "ALLOCATED"
               PROVE  \E t \in Sleepers : Resource(t) = g /\ at'[t] \in {"locking", "unlocked"}
    BY DEF Shown, Resource
  <2>1. g # r /\ gpuState[g] = "ALLOCATED"
    BY <1>2, <1>3
  <2>2. PICK t \in Sleepers : Resource(t) = g /\ at[t] \in {"locking", "unlocked"}
    BY <2>1 DEF GpuInv, Shown
  <2> QED
    BY <1>4, <2>1, <2>2
<1>10. Future' /\ PresentKernels' /\ Uncollected' /\ Balance' /\ OneActive' /\ PresentTransfers'
       /\ OwnTransfer'
  BY <1>3, ActorsStayLive DEF Live
<1>11. BusyIsAllocated'
  <2> SUFFICES ASSUME Alone, NEW g \in Gpus, queue[g] # <<>> PROVE gpuState'[g] = "ALLOCATED"
    BY <1>3 DEF BusyIsAllocated, Alone, history
  <2>1. gpuState[g] = "ALLOCATED"
    BY DEF GpuInv, BusyIsAllocated
  <2>2. PICK t \in Elements(queue[g]) : TRUE
    BY <1>2, EmptyQueue
  <2>3. t \in Sleepers /\ Resource(t) = g /\ at[t] = "locking"
    BY <2>2 DEF GpuInv, Mutexes
  <2>4. g # r
    BY <1>1, <1>3, <2>3, OneKernel DEF Live
  <2> QED
    BY <1>2, <1>3, <2>1, <2>4
<1> QED
  BY <1>6, <1>7, <1>8, <1>9, <1>10, <1>11 DEF GpuInv

\* The steps of an application that start no actor and collect none.
LEMMA CallerMoves ==
  ASSUME GpuInv, NEW a \in AllApps, NEW c \in {"idle", "waiting", "ended"},
         caller' = [caller EXCEPT ![a] = c], {killed', overlapped'} \subseteq BOOLEAN,
         UNCHANGED <<gpuState, queue, at, linkMail, task, got>>,
         killed => killed', overlapped => overlapped',
         c \in InTask => caller[a] \in InTask, ~killed' => (c \in InTask <=> caller[a] \in InTask),
         c = "idle" => task[a] = 0, OneActive'
  PROVE  GpuInv'
<1>1. caller \in [AllApps -> {"absent", "idle", "exchanging", "waiting", "ended"}]
  BY DEF GpuInv, TypeOK
<1>2. /\ caller' \in [AllApps -> {"absent", "idle", "exchanging", "waiting", "ended"}]
      /\ caller'[a] = c /\ \A b \in AllApps \ {a} : caller'[b] = caller[b]
  BY <1>1
<1>3. TypeOK'
  BY <1>2 DEF GpuInv, TypeOK
<1>4. Mutexes' /\ Callbacks' /\ Shown'
  BY DEF GpuInv, Mutexes, Callbacks, Shown, Resource, Distinct, Elements
<1>5. Future'
  BY <1>2 DEF GpuInv, Future
<1>6. ~killed' => \A b \in AllApps : caller'[b] \in InTask <=> caller[b] \in InTask
  BY <1>2
<1>7. ~killed' => \A s \in Sleepers : OfPresentTask(s)' <=> OfPresentTask(s)
  BY <1>6, SleeperFields DEF OfPresentTask, Mine, InTask
<1>8. PresentKernels' /\ PresentTransfers'
  BY <1>7 DEF GpuInv, PresentKernels, PresentTransfers, Alone, Live, Kernel, Resource
<1>9. Balance'
  <2>1. Transfers' = Transfers
    BY DEF Transfers, Live, Kernel, Resource
  <2>2. Collectors' \subseteq Collectors /\ (~killed' => Collectors' = Collectors)
    BY <1>2, <1>6 DEF Collectors, Communicates, Mine, Kernel, Resource, InTask
  <2>3. IsFiniteSet(Collectors') /\ Cardinality(Collectors') <= Cardinality(Collectors)
    BY <2>2, FS_Subset DEF GpuInv, Balance
  <2>4. Cardinality(Collectors') \in Nat /\ Cardinality(Collectors) \in Nat /\ Cardinality(Transfers) \in Nat
    BY <2>3, FS_CardinalityType DEF GpuInv, Balance
  <2> QED
    BY <2>1, <2>2, <2>3, <2>4 DEF GpuInv, Balance
<1>10. BusyIsAllocated'
  BY DEF GpuInv, BusyIsAllocated, Alone
<1>11. OwnTransfer'
  <2> SUFFICES ASSUME NEW b \in AllApps, Alone', caller'[b] = "idle", task[b] > 0, Communicates(b)
               PROVE  got[b] = <<b, task[b], Link>>
    BY DEF OwnTransfer, Communicates, Mine, Kernel, Resource
  <2>1. b # a
    BY <1>2, GpuSpecification
  <2> QED
    BY <1>2, <2>1 DEF GpuInv, OwnTransfer, Alone
<1>12. Uncollected'
  BY <1>2 DEF GpuInv, Uncollected, InTask, Kernel, Resource
<1> QED
  BY <1>3, <1>4, <1>5, <1>8, <1>9, <1>10, <1>11, <1>12 DEF GpuInv

LEMMA StartAppKeeps == ASSUME GpuInv, NEW a \in AllApps, StartApp(a) PROVE GpuInv'
<1>1. /\ caller[a] = "absent" /\ caller' = [caller EXCEPT ![a] = "idle"] /\ killed' = killed
      /\ overlapped' = (overlapped \/ ~OthersEnded(a))
      /\ UNCHANGED <<gpuState, queue, at, linkMail, task, got>>
  BY DEF StartApp
<1>2. killed \in BOOLEAN /\ overlapped \in BOOLEAN
  BY DEF GpuInv, TypeOK
<1>3. caller \in [AllApps -> {"absent", "idle", "exchanging", "waiting", "ended"}]
  BY DEF GpuInv, TypeOK
<1>4. {killed', overlapped'} \subseteq BOOLEAN
  BY <1>1, <1>2
<1>5. task[a] = 0
  BY <1>1 DEF GpuInv, Future
<1>6. OneActive'
  <2> SUFFICES ASSUME ~overlapped', NEW b \in AllApps, NEW c \in AllApps,
                      caller'[b] \in Active, caller'[c] \in Active
               PROVE  b = c
    BY DEF OneActive, Active
  <2>1. OthersEnded(a)
    BY <1>1
  <2>2. \A d \in AllApps \ {a} : caller'[d] \notin Active
    BY <1>1, <1>3, <2>1 DEF OthersEnded, Active
  <2> QED
    BY <2>2
<1> QED
  BY <1>1, <1>4, <1>5, <1>6, CallerMoves DEF InTask

\* No application becomes active.
LEMMA StaysOneActive ==
  ASSUME GpuInv, UNCHANGED overlapped, \A b \in AllApps : caller'[b] \in Active => caller[b] \in Active
  PROVE  OneActive'
BY DEF GpuInv, OneActive, Active

LEMMA ExchangedKeeps == ASSUME GpuInv, NEW a \in AllApps, Exchanged(a) PROVE GpuInv'
<1>1. /\ caller[a] = "exchanging" /\ caller' = [caller EXCEPT ![a] = "waiting"]
      /\ UNCHANGED <<gpuState, queue, at, linkMail, task, got, killed, overlapped>>
  BY DEF Exchanged, history
<1>2. OneActive'
  BY <1>1, StaysOneActive DEF GpuInv, TypeOK, Active
<1>3. {killed', overlapped'} \subseteq BOOLEAN
  BY <1>1 DEF GpuInv, TypeOK
<1> QED
  BY <1>1, <1>2, <1>3, CallerMoves DEF InTask

LEMMA EndAppKeeps == ASSUME GpuInv, NEW a \in AllApps, EndApp(a) PROVE GpuInv'
<1>1. /\ caller[a] = "idle" /\ caller' = [caller EXCEPT ![a] = "ended"]
      /\ UNCHANGED <<gpuState, queue, at, linkMail, task, got, killed, overlapped>>
  BY DEF EndApp, history
<1>2. OneActive'
  BY <1>1, StaysOneActive DEF GpuInv, TypeOK, Active
<1>3. {killed', overlapped'} \subseteq BOOLEAN
  BY <1>1 DEF GpuInv, TypeOK
<1> QED
  BY <1>1, <1>2, <1>3, CallerMoves DEF InTask

LEMMA KillAppKeeps == ASSUME GpuInv, NEW a \in AllApps, KillApp(a) PROVE GpuInv'
<1>1. /\ caller' = [caller EXCEPT ![a] = "ended"] /\ killed' = TRUE
      /\ UNCHANGED <<gpuState, queue, at, linkMail, task, got, overlapped>>
  BY DEF KillApp
<1>2. OneActive'
  BY <1>1, StaysOneActive DEF GpuInv, TypeOK, Active
<1>3. {killed', overlapped'} \subseteq BOOLEAN
  BY <1>1 DEF GpuInv, TypeOK
<1> QED
  BY <1>1, <1>2, <1>3, CallerMoves DEF InTask

LEMMA StartTaskKeeps == ASSUME GpuInv, NEW a \in AllApps, StartTask(a) PROVE GpuInv'
<1>1. PICK part \in Parts :
        /\ at' = Created(a, Resources(part))
        /\ caller' = [caller EXCEPT ![a] = IF part = "kernels" THEN "waiting" ELSE "exchanging"]
  BY DEF StartTask
<1> DEFINE R == Resources(part)
           t == task[a] + 1
           isNew(s) == s[1] = a /\ s[2] = t /\ Resource(s) \in R
<1> HIDE DEF R
<1>2. /\ caller[a] = "idle" /\ task[a] < Tasks[a] /\ task' = [task EXCEPT ![a] = t]
      /\ UNCHANGED <<gpuState, queue, linkMail, got, killed, overlapped>>
  BY DEF StartTask, history
<1>3. /\ at \in [Sleepers -> {"none", "created", "locking", "unlocked", "put", "ended"}]
      /\ task \in [AllApps -> Nat] /\ \A b \in AllApps : task[b] <= Tasks[b] /\ Tasks[b] \in Nat
      /\ caller \in [AllApps -> {"absent", "idle", "exchanging", "waiting", "ended"}]
  BY GpuSpecification DEF GpuInv, TypeOK, AllApps
<1>4. \A s \in Sleepers : at'[s] = IF isNew(s) THEN "created" ELSE at[s]
  BY <1>1 DEF Created, R
<1>5. at' \in [Sleepers -> {"none", "created", "locking", "unlocked", "put", "ended"}]
  BY <1>1, <1>3 DEF Created
<1>6. /\ task' \in [AllApps -> Nat] /\ task'[a] = t /\ \A b \in AllApps : task'[b] <= Tasks[b]
      /\ \A b \in AllApps \ {a} : task'[b] = task[b]
  <2>1. t \in Nat /\ t <= Tasks[a]
    BY <1>2, <1>3
  <2> QED
    BY <1>2, <1>3, <2>1
<1>7. /\ caller' \in [AllApps -> {"absent", "idle", "exchanging", "waiting", "ended"}]
      /\ caller'[a] \in InTask /\ \A b \in AllApps \ {a} : caller'[b] = caller[b]
  BY <1>1, <1>3 DEF InTask
<1>8. \A s \in Sleepers : isNew(s) => at[s] = "none"
  BY <1>3, <1>6, SleeperFields DEF GpuInv, Future
<1>9. \A s \in Sleepers : at'[s] # "created" => at'[s] = at[s]
  BY <1>4
<1>10. \A s \in Sleepers : at[s] # "none" => at'[s] = at[s]
  BY <1>4, <1>8
<1>11. TypeOK'
  BY <1>2, <1>5, <1>6, <1>7 DEF GpuInv, TypeOK
<1>12. Mutexes'
  <2> SUFFICES ASSUME NEW r \in Gpus \cup {Link}
               PROVE  /\ Distinct(queue[r])
                      /\ Elements(queue[r]) = {s \in Sleepers : Resource(s) = r /\ at'[s] = "locking"}
    BY <1>2 DEF Mutexes, Resource, Distinct, Elements
  <2>1. {s \in Sleepers : Resource(s) = r /\ at'[s] = "locking"}
          = {s \in Sleepers : Resource(s) = r /\ at[s] = "locking"}
    BY <1>9, <1>10
  <2> QED
    BY <2>1 DEF GpuInv, Mutexes
<1>13. Callbacks'
  <2>1. {s \in Sleepers : Resource(s) = Link /\ at'[s] = "put"}
          = {s \in Sleepers : Resource(s) = Link /\ at[s] = "put"}
    BY <1>9, <1>10
  <2> QED
    BY <1>2, <2>1 DEF GpuInv, Callbacks, Resource, Distinct, Elements
<1>14. Future'
  <2>1. ASSUME NEW s \in Sleepers, s[2] > task'[s[1]] PROVE at'[s] = "none"
    <3>1. ~isNew(s) /\ s[2] > task[s[1]]
      BY <1>3, <1>6, <2>1, SleeperFields
    <3> QED
      BY <1>4, <3>1 DEF GpuInv, Future
  <2>2. \A b \in AllApps : caller'[b] = "absent" => task'[b] = 0
    BY <1>6, <1>7 DEF GpuInv, Future, InTask
  <2> QED
    BY <2>1, <2>2 DEF Future
<1>15. Shown'
  <2> SUFFICES ASSUME NEW g \in Gpus, gpuState[g] = "ALLOCATED"
               PROVE  \E s \in Sleepers : Resource(s) = g /\ at'[s] \in {"locking", "unlocked"}
    BY <1>2 DEF Shown, Resource
  <2>1. PICK s \in Sleepers : Resource(s) = g /\ at[s] \in {"locking", "unlocked"}
    BY DEF GpuInv, Shown
  <2> QED
    BY <1>10, <2>1
<1>16. \A s \in Sleepers : isNew(s) => OfPresentTask(s)'
  BY <1>6, <1>7 DEF OfPresentTask, Mine, InTask
<1>17. \A s \in Sleepers : OfPresentTask(s) => s[1] # a /\ OfPresentTask(s)'
  BY <1>2, <1>6, <1>7, SleeperFields DEF OfPresentTask, Mine, InTask
<1>18. PresentKernels' /\ PresentTransfers'
  BY <1>2, <1>4, <1>16, <1>17
     DEF GpuInv, PresentKernels, PresentTransfers, Alone, Live, Kernel, Resource
<1>19. Balance'
  <2> DEFINE l == <<a, t, Link>>
  <2>1. /\ IsFiniteSet(Transfers) /\ IsFiniteSet(Collectors)
        /\ Cardinality(Collectors) <= Cardinality(Transfers)
        /\ ~killed => Cardinality(Transfers) = Cardinality(Collectors)
        /\ Cardinality(Collectors) \in Nat /\ Cardinality(Transfers) \in Nat
    BY FS_CardinalityType DEF GpuInv, Balance
  <2>2. l \in Sleepers /\ l[1] = a /\ l[2] = t /\ Resource(l) = Link /\ ~Kernel(l)
    <3>1. t \in 1 .. Tasks[a]
      BY <1>2, <1>3
    <3> QED
      BY <3>1 DEF Sleepers, Resource, Kernel
  <2>3. \A s \in Sleepers : isNew(s) /\ ~Kernel(s) => s = l
    BY SleeperFields DEF Kernel, Resource
  <2>4. Transfers' = Transfers \cup (IF Link \in R THEN {l} ELSE {})
    <3>1. \A s \in Sleepers : Live(s)' <=> Live(s) \/ isNew(s)
      BY <1>4 DEF Live
    <3>2. Transfers' = {s \in Sleepers : ~Kernel(s) /\ (Live(s) \/ isNew(s))}
      BY <3>1 DEF Transfers, Kernel, Resource
    <3>3. CASE Link \in R
      BY <2>2, <2>3, <3>2, <3>3 DEF Transfers
    <3>4. CASE Link \notin R
      BY <2>2, <2>3, <3>2, <3>4 DEF Transfers
    <3> QED
      BY <3>3, <3>4
  <2>5. l \notin Transfers
    BY <2>2, <1>3, <1>6, SleeperFields DEF Transfers, Live, GpuInv, Future
  <2>6. Communicates(a)' <=> Link \in R
    <3>1. \A s \in Sleepers : s[1] = a /\ s[2] = t => at[s] = "none"
      BY <1>3, SleeperFields DEF GpuInv, Future
    <3>2. Communicates(a)' <=> \E s \in Sleepers : s[1] = a /\ s[2] = t /\ ~Kernel(s) /\ at'[s] # "none"
      BY <1>6 DEF Communicates, Mine, Kernel, Resource
    <3>3. Communicates(a)' <=> \E s \in Sleepers : isNew(s) /\ ~Kernel(s)
      BY <1>4, <3>1, <3>2
    <3> QED
      BY <2>2, <2>3, <3>3
  <2>7. \A b \in AllApps \ {a} : Communicates(b)' <=> Communicates(b)
    <3>1. \A b \in AllApps \ {a} : \A s \in Sleepers : s[1] = b => at'[s] = at[s]
      BY <1>4
    <3> QED
      BY <1>6, <3>1 DEF Communicates, Mine, Kernel, Resource
  <2>8. /\ Collectors' = Collectors \cup (IF Link \in R THEN {a} ELSE {})
        /\ a \notin Collectors
    BY <1>2, <1>7, <2>6, <2>7 DEF Collectors, InTask
  <2>9. CASE Link \in R
    <3>1. Transfers' = Transfers \cup {l} /\ Collectors' = Collectors \cup {a}
      BY <2>4, <2>8, <2>9
    <3>2. /\ IsFiniteSet(Transfers \cup {l})
          /\ Cardinality(Transfers \cup {l}) = Cardinality(Transfers) + 1
      BY <2>1, <2>5, FS_AddElement
    <3>3. /\ IsFiniteSet(Collectors \cup {a})
          /\ Cardinality(Collectors \cup {a}) = Cardinality(Collectors) + 1
      BY <2>1, <2>8, FS_AddElement
    <3> QED
      BY <1>2, <2>1, <3>1, <3>2, <3>3 DEF Balance
  <2>10. CASE Link \notin R
    <3>1. Transfers' = Transfers /\ Collectors' = Collectors
      BY <2>4, <2>8, <2>10
    <3> QED
      BY <1>2, <2>1, <3>1 DEF Balance
  <2> QED
    BY <2>9, <2>10
<1>20. OneActive'
  BY <1>2, <1>7, StaysOneActive DEF InTask, Active
<1>21. BusyIsAllocated'
  BY <1>2 DEF GpuInv, BusyIsAllocated, Alone
<1>22. OwnTransfer'
  <2> SUFFICES ASSUME NEW b \in AllApps, Alone, caller'[b] = "idle", task'[b] > 0, Communicates(b)'
               PROVE  got[b] = <<b, task'[b], Link>>
    BY <1>2 DEF OwnTransfer, Alone
  <2>1. b # a
    BY <1>7 DEF InTask
  <2>2. \A s \in Sleepers : s[1] = b => at'[s] = at[s]
    BY <1>4, <2>1
  <2>3. Communicates(b)
    BY <1>6, <2>1, <2>2 DEF Communicates, Mine, Kernel, Resource
  <2> QED
    BY <1>6, <1>7, <2>1, <2>3 DEF GpuInv, OwnTransfer
<1>23. Uncollected'
  <2>1. \A s \in Sleepers : s[1] = a /\ s[2] = t => at'[s] # "ended"
    BY <1>3, <1>4, SleeperFields DEF GpuInv, Future
  <2>2. \A s \in Sleepers : s[1] # a => at'[s] = at[s]
    BY <1>4
  <2> QED
    BY <1>6, <1>7, <2>1, <2>2 DEF GpuInv, Uncollected, Kernel, Resource
<1> QED
  BY <1>11, <1>12, <1>13, <1>14, <1>15, <1>18, <1>19, <1>20, <1>21, <1>22, <1>23 DEF GpuInv

LEMMA EndTaskKeeps == ASSUME GpuInv, NEW a \in AllApps, EndTask(a) PROVE GpuInv'
<1> DEFINE h == Head(linkMail)
           mail == IF Communicates(a) THEN {h} ELSE {}
           collected(s) == s \in mail \/ (s \in Mine(a) /\ Kernel(s) /\ at[s] = "put")
<1>1. /\ caller[a] = "waiting" /\ KernelsDone(a) /\ caller' = [caller EXCEPT ![a] = "idle"]
      /\ UNCHANGED <<gpuState, queue, task, killed, overlapped>>
      /\ at' = Taken(a, mail)
      /\ Communicates(a) => /\ linkMail # <<>> /\ linkMail' = Tail(linkMail)
                            /\ got' = [got EXCEPT ![a] = h]
      /\ ~Communicates(a) => UNCHANGED <<linkMail, got>>
  BY DEF EndTask, history
<1>2. /\ at \in [Sleepers -> {"none", "created", "locking", "unlocked", "put", "ended"}]
      /\ linkMail \in Seq(Sleepers) /\ got \in [AllApps -> Sleepers \cup {<<>>}]
      /\ caller \in [AllApps -> {"absent", "idle", "exchanging", "waiting", "ended"}]
  BY DEF GpuInv, TypeOK
<1>3. /\ \A s \in Sleepers : at'[s] = IF collected(s) THEN "ended" ELSE at[s]
      /\ at' \in [Sleepers -> {"none", "created", "locking", "unlocked", "put", "ended"}]
  BY <1>1, <1>2 DEF Taken
<1>4. Communicates(a) => /\ h \in Sleepers /\ Resource(h) = Link /\ at[h] = "put" /\ h \in Elements(linkMail)
                         /\ Tail(linkMail) \in Seq(Sleepers) /\ Distinct(Tail(linkMail))
                         /\ Elements(Tail(linkMail)) = Elements(linkMail) \ {h}
  BY <1>1, <1>2, LeavesQueue DEF GpuInv, Callbacks
<1>5. \A s \in Sleepers : collected(s) => at[s] = "put" /\ at'[s] = "ended"
  BY <1>3, <1>4
<1>6. /\ caller' \in [AllApps -> {"absent", "idle", "exchanging", "waiting", "ended"}]
      /\ caller'[a] = "idle" /\ \A b \in AllApps \ {a} : caller'[b] = caller[b]
  BY <1>1, <1>2
<1>7. \A b \in AllApps : Mine(b)' = Mine(b)
  BY <1>1 DEF Mine
<1>8. \A b \in AllApps : Communicates(b)' <=> Communicates(b)
  <2>1. \A s \in Sleepers : at'[s] = "none" <=> at[s] = "none"
    BY <1>3, <1>5
  <2> QED
    BY <1>7, <2>1 DEF Communicates, Mine, Kernel, Resource
<1>9. TypeOK'
  <2>1. got' \in [AllApps -> Sleepers \cup {<<>>}] /\ linkMail' \in Seq(Sleepers)
    BY <1>1, <1>2, <1>4
  <2> QED
    BY <1>1, <1>3, <1>6, <2>1 DEF GpuInv, TypeOK
<1>10. Mutexes'
  <2> SUFFICES ASSUME NEW r \in Gpus \cup {Link}
               PROVE  /\ Distinct(queue[r])
                      /\ Elements(queue[r]) = {s \in Sleepers : Resource(s) = r /\ at'[s] = "locking"}
    <3>1. queue' = queue
      BY <1>1
    <3> QED
      BY <3>1 DEF Mutexes, Resource, Distinct, Elements
  <2>1. {s \in Sleepers : Resource(s) = r /\ at'[s] = "locking"}
          = {s \in Sleepers : Resource(s) = r /\ at[s] = "locking"}
    BY <1>3, <1>5
  <2> QED
    BY <2>1 DEF GpuInv, Mutexes
<1>11. Callbacks'
  <2> SUFFICES /\ Distinct(linkMail')
               /\ Elements(linkMail') = {s \in Sleepers : Resource(s) = Link /\ at'[s] = "put"}
    BY DEF Callbacks, Resource, Distinct, Elements
  <2>1. /\ Distinct(linkMail)
        /\ Elements(linkMail) = {s \in Sleepers : Resource(s) = Link /\ at[s] = "put"}
    BY DEF GpuInv, Callbacks
  <2>2. \A s \in Sleepers : Resource(s) = Link => (collected(s) <=> s \in mail)
    BY DEF Kernel
  <2>3. CASE Communicates(a)
    BY <1>1, <1>3, <1>4, <2>1, <2>2, <2>3
  <2>4. CASE ~Communicates(a)
    BY <1>1, <1>3, <2>1, <2>2, <2>4
  <2> QED
    BY <2>3, <2>4
<1>12. Future'
  BY ZenonT(60), <1>1, <1>3, <1>5, <1>6 DEF GpuInv, Future
<1>13. Shown'
  <2> SUFFICES ASSUME NEW g \in Gpus, gpuState[g] = "ALLOCATED"
               PROVE  \E s \in Sleepers : Resource(s) = g /\ at'[s] \in {"locking", "unlocked"}
    BY <1>1 DEF Shown, Resource
  <2>1. PICK s \in Sleepers : Resource(s) = g /\ at[s] \in {"locking", "unlocked"}
    BY DEF GpuInv, Shown
  <2> QED
    BY <1>3, <1>5, <2>1
<1>14. \A s \in Sleepers : OfPresentTask(s) /\ s[1] # a => OfPresentTask(s)'
  BY <1>1, <1>6, SleeperFields DEF OfPresentTask, Mine, InTask
<1>15. PresentKernels'
  <2> SUFFICES ASSUME ~killed, NEW s \in Sleepers, Kernel(s), Live(s)' PROVE OfPresentTask(s)'
    BY <1>1 DEF PresentKernels, Kernel, Resource
  <2>1. ~collected(s) /\ Live(s)
    BY <1>3 DEF Live
  <2>2. OfPresentTask(s)
    BY <2>1 DEF GpuInv, PresentKernels
  <2>3. s[1] # a
    BY <1>1, <2>1, <2>2 DEF OfPresentTask, KernelsDone, Live
  <2> QED
    BY <1>14, <2>2, <2>3
<1>16. Balance'
  <2>1. /\ IsFiniteSet(Transfers) /\ IsFiniteSet(Collectors)
        /\ Cardinality(Collectors) <= Cardinality(Transfers)
        /\ ~killed => Cardinality(Transfers) = Cardinality(Collectors)
        /\ Cardinality(Collectors) \in Nat /\ Cardinality(Transfers) \in Nat
    BY FS_CardinalityType DEF GpuInv, Balance
  <2>2. Transfers' = Transfers \ mail
    <3>1. \A s \in Sleepers : Live(s)' <=> Live(s) /\ ~collected(s)
      BY <1>3, <1>5 DEF Live
    <3>2. Transfers' = {s \in Sleepers : ~Kernel(s) /\ Live(s) /\ ~collected(s)}
      BY <3>1 DEF Transfers, Kernel, Resource
    <3> QED
      BY <3>2 DEF Transfers
  <2>3. Collectors' = Collectors \ {a}
    BY <1>6, <1>8 DEF Collectors, InTask
  <2>4. CASE Communicates(a)
    <3>1. h \in Transfers /\ a \in Collectors /\ mail = {h}
      BY <1>1, <1>4, <2>4 DEF Transfers, Collectors, Live, InTask, Kernel
    <3>2. /\ IsFiniteSet(Transfers \ {h})
          /\ Cardinality(Transfers \ {h}) = Cardinality(Transfers) - 1
      BY <2>1, <3>1, FS_RemoveElement
    <3>3. /\ IsFiniteSet(Collectors \ {a})
          /\ Cardinality(Collectors \ {a}) = Cardinality(Collectors) - 1
      BY <2>1, <3>1, FS_RemoveElement
    <3>4. Transfers' = Transfers \ {h} /\ Collectors' = Collectors \ {a}
      BY <2>2, <2>3, <3>1
    <3> QED
      BY <1>1, <2>1, <3>2, <3>3, <3>4 DEF Balance
  <2>5. CASE ~Communicates(a)
    <3>1. a \notin Collectors /\ mail = {}
      BY <2>5 DEF Collectors
    <3>2. Transfers' = Transfers /\ Collectors' = Collectors
      BY <2>2, <2>3, <3>1
    <3> QED
      BY <1>1, <2>1, <3>2 DEF Balance
  <2> QED
    BY <2>4, <2>5
<1>17. OneActive'
  BY <1>1, <1>6, StaysOneActive DEF Active
<1>18. ASSUME Alone, NEW s \in Sleepers, ~Kernel(s), Live(s)
       PROVE  s = <<a, task[a], Link>>
  <2>1. OfPresentTask(s)
    BY <1>18 DEF GpuInv, PresentTransfers
  <2>2. s[1] = a
    BY <1>1, <1>18, <2>1, SleeperFields DEF GpuInv, OneActive, Alone, OfPresentTask, InTask, Active
  <2>3. s[2] = task[a] /\ s[3] = Link
    BY <1>18, <2>1, <2>2 DEF OfPresentTask, Mine, Kernel, Resource
  <2> QED
    BY <2>2, <2>3, SleeperFields
<1>19. Alone /\ Communicates(a) => h = <<a, task[a], Link>>
  BY <1>4, <1>18 DEF Live, Kernel
<1>20. PresentTransfers'
  <2> SUFFICES ASSUME Alone, NEW s \in Sleepers, ~Kernel(s), Live(s)' PROVE FALSE
    BY <1>1 DEF PresentTransfers, Alone, Kernel, Resource
  <2>1. ~collected(s) /\ Live(s)
    BY <1>3 DEF Live
  <2>2. s = <<a, task[a], Link>>
    BY <1>18, <2>1
  <2>3. Communicates(a)
    BY <2>1, <2>2 DEF Communicates, Mine, Live
  <2> QED
    BY <1>19, <2>1, <2>2, <2>3
<1>21. BusyIsAllocated'
  BY <1>1 DEF GpuInv, BusyIsAllocated, Alone
<1>22. OwnTransfer'
  <2> SUFFICES ASSUME NEW b \in AllApps, Alone, caller'[b] = "idle", task[b] > 0, Communicates(b)
               PROVE  got'[b] = <<b, task[b], Link>>
    BY <1>1, <1>8 DEF OwnTransfer, Alone
  <2>1. CASE b = a
    BY <1>1, <1>2, <1>19, <2>1
  <2>2. CASE b # a
    BY <1>1, <1>2, <1>6, <2>2 DEF GpuInv, OwnTransfer
  <2> QED
    BY <2>1, <2>2
<1>23. Uncollected'
  <2> SUFFICES ASSUME NEW b \in AllApps, caller'[b] \in InTask, NEW s \in Sleepers,
                      s[1] = b, s[2] = task[b], Kernel(s)
               PROVE  at'[s] # "ended"
    BY <1>1 DEF Uncollected, Kernel, Resource
  <2>1. b # a /\ caller[b] \in InTask
    BY <1>6 DEF InTask
  <2>2. ~collected(s)
    BY <1>4, <2>1, SleeperFields DEF Mine, Kernel
  <2> QED
    BY <1>3, <2>1, <2>2 DEF GpuInv, Uncollected
<1> QED
  BY <1>9, <1>10, <1>11, <1>12, <1>13, <1>15, <1>16, <1>17, <1>20, <1>21, <1>22, <1>23 DEF GpuInv

LEMMA NextGpu == GpuInv /\ [Next]_vars => GpuInv'
<1> SUFFICES ASSUME GpuInv, [Next]_vars PROVE GpuInv'
  OBVIOUS
<1>1. CASE UNCHANGED vars
  <2>1. UNCHANGED <<gpuState, queue, at, linkMail, task, caller, got, killed, overlapped>>
    BY <1>1 DEF vars, history
  <2>2. TypeOK' /\ Future' /\ OneActive' /\ BusyIsAllocated' /\ Uncollected'
    BY <2>1 DEF GpuInv, TypeOK, Future, OneActive, BusyIsAllocated, Alone, Uncollected, Kernel, Resource
  <2>3. Mutexes' /\ Callbacks' /\ Shown'
    BY <2>1 DEF GpuInv, Mutexes, Callbacks, Shown, Resource, Distinct, Elements
  <2>4. PresentKernels' /\ PresentTransfers'
    BY <2>1 DEF GpuInv, PresentKernels, PresentTransfers, Alone, Live, OfPresentTask, Mine,
                Kernel, Resource
  <2>5. Transfers' = Transfers /\ Collectors' = Collectors
    BY <2>1 DEF Transfers, Collectors, Live, Communicates, Mine, Kernel, Resource
  <2>6. Balance'
    BY <2>1, <2>5 DEF GpuInv, Balance
  <2>7. OwnTransfer'
    BY <2>1 DEF GpuInv, OwnTransfer, Alone, Communicates, Mine, Kernel, Resource
  <2> QED
    BY <2>2, <2>3, <2>4, <2>6, <2>7 DEF GpuInv
<1>2. CASE Next
  BY <1>2, StartAppKeeps, StartTaskKeeps, ExchangedKeeps, EndTaskKeeps, EndAppKeeps, KillAppKeeps,
     LockKeeps, UnlockKeeps, PostKeeps DEF Next, App, AsyncSleep
<1> QED
  BY <1>1, <1>2

LEMMA GpuInvariant == Spec => []GpuInv
BY InitGpu, NextGpu, PTL DEF Spec

-----------------------------------------------------------------------------
(* The properties.                                                         *)

\* As long as no application was killed and none shared the node, a GPU with a kernel on it
\* is shown as allocated: Gpu::deallocate sets the state after it has unlocked the mutex, but
\* no kernel of a next task can have come in between.
THEOREM BusyGpusAreAllocated == Spec => []BusyIsAllocated
<1>1. GpuInv => BusyIsAllocated
  BY DEF GpuInv
<1> QED
  BY <1>1, GpuInvariant, PTL

\* Under the same conditions a task ends with the callback of its own transfer, although all
\* transfers of the node post theirs to one mailbox.
THEOREM TransfersAreOwn == Spec => []OwnTransfer
<1>1. GpuInv => OwnTransfer
  BY DEF GpuInv
<1> QED
  BY <1>1, GpuInvariant, PTL

\* Without a kill, applications leave nothing behind, also those that share the node and have
\* collected the callbacks of each other: as many transfers are under way as tasks wait for one.
THEOREM NothingIsLeftBehind == Spec => []NothingLeft
<1>1. ASSUME GpuInv, ~killed, \A a \in AllApps : caller[a] = "ended"
      PROVE  /\ linkMail = <<>>
             /\ \A s \in Sleepers : at[s] \in {"none", "ended"}
             /\ \A g \in Gpus : gpuState[g] = "FREE"
             /\ \A r \in Gpus \cup {Link} : queue[r] = <<>>
  <2>1. Collectors = {}
    BY <1>1 DEF Collectors, InTask
  <2>2. Transfers = {}
    BY <1>1, <2>1, FS_EmptySet DEF GpuInv, Balance
  <2>3. \A s \in Sleepers : ~Live(s)
    <3>1. ASSUME NEW s \in Sleepers, Live(s), Kernel(s) PROVE FALSE
      BY <1>1, <3>1, SleeperFields DEF GpuInv, PresentKernels, OfPresentTask, InTask
    <3> QED
      BY <2>2, <3>1 DEF Transfers
  <2>4. \A s \in Sleepers : at[s] \in {"none", "ended"}
    BY <2>3 DEF Live
  <2>5. linkMail = <<>>
    <3>1. Elements(linkMail) = {}
      BY <1>1, <2>4 DEF GpuInv, Callbacks
    <3> QED
      BY <1>1, <3>1, EmptyQueue DEF GpuInv, TypeOK
  <2>6. ASSUME NEW r \in Gpus \cup {Link} PROVE queue[r] = <<>>
    <3>1. Elements(queue[r]) = {}
      BY <1>1, <2>4 DEF GpuInv, Mutexes
    <3>2. queue[r] \in Seq(Sleepers)
      BY <1>1 DEF GpuInv, TypeOK
    <3> QED
      BY <3>1, <3>2, EmptyQueue
  <2>7. ASSUME NEW g \in Gpus PROVE gpuState[g] = "FREE"
    BY <1>1, <2>4 DEF GpuInv, TypeOK, Shown
  <2> QED
    BY <2>4, <2>5, <2>6, <2>7
<1>2. GpuInv => NothingLeft
  BY <1>1 DEF NothingLeft
<1> QED
  BY <1>2, GpuInvariant, PTL

-----------------------------------------------------------------------------
(* What the end of a task rests on: the fairness of TasksEnd apart, its     *)
(* application or an actor can always go on.                               *)

\* The guards of AsyncSleep and of the steps that end a task.
Runs(s) ==
  \/ at[s] \in {"created", "unlocked"}
  \/ at[s] = "locking" /\ Head(queue[Resource(s)]) = s

Ends(a) ==
  \/ caller[a] = "exchanging"
  \/ caller[a] = "waiting" /\ KernelsDone(a) /\ (Communicates(a) => linkMail # <<>>)

\* Every task can end, or an actor can go on (the safety part of TasksEnd): no
\* mutex is left locked, by a killed application either, the callback of each kernel comes,
\* and a callback that another application has taken is replaced by that of its transfer.
TasksGoOn ==
  \A a \in AllApps : caller[a] \in InTask => Ends(a) \/ \E s \in Sleepers : Runs(s)

THEOREM NoTaskIsStuck == Spec => []TasksGoOn
<1>1. ASSUME GpuInv, NEW a \in AllApps, caller[a] \in InTask, ~Ends(a)
      PROVE  \E s \in Sleepers : Runs(s)
  <2> SUFFICES ASSUME \A s \in Sleepers : ~Runs(s) PROVE FALSE
    OBVIOUS
  <2>1. \A s \in Sleepers : at[s] # "locking"
    <3> SUFFICES ASSUME NEW s \in Sleepers, at[s] = "locking" PROVE FALSE
      OBVIOUS
    <3> DEFINE r == Resource(s)
    <3>1. r \in Gpus \cup {Link} /\ queue[r] \in Seq(Sleepers) /\ Distinct(queue[r])
      BY <1>1, SleeperFields DEF GpuInv, TypeOK, Mutexes
    <3>2. Elements(queue[r]) = {t \in Sleepers : Resource(t) = r /\ at[t] = "locking"}
      BY <1>1, <3>1 DEF GpuInv, Mutexes
    <3>3. queue[r] # <<>>
      BY <3>1, <3>2, EmptyQueue
    <3>4. Head(queue[r]) \in Elements(queue[r])
      BY <3>1, <3>3, LeavesQueue
    <3>5. Head(queue[r]) \in Sleepers /\ Runs(Head(queue[r]))
      BY <3>2, <3>4 DEF Runs
    <3> QED
      BY <3>5
  <2>2. \A s \in Sleepers : at[s] \in {"none", "put", "ended"}
    BY <1>1, <2>1 DEF GpuInv, TypeOK, Runs
  <2>3. KernelsDone(a)
    BY <1>1, <2>2 DEF GpuInv, Uncollected, KernelsDone, Mine
  <2>4. Communicates(a) /\ linkMail = <<>>
    BY <1>1, <2>3 DEF Ends, InTask
  <2>5. Transfers = {}
    <3>1. Elements(linkMail) = {}
      BY <2>4, <1>1, EmptyQueue DEF GpuInv, TypeOK
    <3>2. \A s \in Sleepers : Resource(s) = Link => at[s] # "put"
      BY <1>1, <3>1 DEF GpuInv, Callbacks
    <3> QED
      BY <2>2, <3>2 DEF Transfers, Live, Kernel
  <2>6. a \in Collectors
    BY <1>1, <2>4 DEF Collectors
  <2>7. IsFiniteSet(Collectors) /\ Cardinality(Collectors) <= 0
    BY <1>1, <2>5, FS_EmptySet DEF GpuInv, Balance
  <2>8. Cardinality(Collectors) = 0
    BY <2>7, FS_CardinalityType
  <2> QED
    BY <2>6, <2>7, <2>8, FS_EmptySet
<1>2. GpuInv => TasksGoOn
  BY <1>1 DEF TasksGoOn
<1> QED
  BY <1>2, GpuInvariant, PTL

-----------------------------------------------------------------------------
(* What the algorithm knows of the GPUs (module GpuView).                  *)

\* The application of a job that executes tasks is that of a job on the node.
OnNode == \A a \in AllApps : caller[a] \in Active => a \in running

ViewInv == GpuInv /\ OnNode /\ GpusKnownAtRest

\* Every step is a step of module Gpu or changes nothing there.
LEMMA ViewStep ==
  ASSUME [ViewNext]_viewVars
  PROVE  [Next]_vars
BY DEF ViewNext, viewVars, AllocateJob, CompleteJob, KillJob, Expect, Invoke, Work, Execute,
       RunSleeper, Next, App

\* On a node without jobs no kernel is left to change a GPU, unless a job was killed.
LEMMA NoKernelAtRest ==
  ASSUME GpuInv, OnNode, ~killed, running = {}, Work
  PROVE  UNCHANGED gpuState
<1>1. \A a \in AllApps : caller[a] \notin Active
  BY DEF OnNode
<1>2. ASSUME NEW s \in Sleepers, AsyncSleep(s), Kernel(s) PROVE FALSE
  <2>1. at[s] \in {"created", "locking", "unlocked"}
    BY <1>2 DEF AsyncSleep, Lock, Unlock, Post
  <2>2. caller[s[1]] \in InTask
    BY <1>2, <2>1 DEF GpuInv, PresentKernels, Live, OfPresentTask
  <2> QED
    BY <1>1, <2>2, SleeperFields DEF InTask, Active
<1>3. ASSUME NEW s \in Sleepers, AsyncSleep(s), ~Kernel(s) PROVE UNCHANGED gpuState
  BY <1>3, SleeperFields DEF AsyncSleep, Lock, Unlock, Post, SetGpu, Kernel
<1>4. ASSUME NEW a \in AllApps, StartTask(a) \/ Exchanged(a) \/ EndTask(a) \/ EndApp(a)
      PROVE  UNCHANGED gpuState
  BY <1>4 DEF StartTask, Exchanged, EndTask, EndApp
<1> QED
  BY <1>2, <1>3, <1>4 DEF Work, Execute, RunSleeper

LEMMA ViewKeeps == ViewInv /\ [ViewNext]_viewVars => ViewInv'
<1> SUFFICES ASSUME ViewInv, [ViewNext]_viewVars PROVE ViewInv'
  OBVIOUS
<1>1. GpuInv'
  BY ViewStep, NextGpu DEF ViewInv
<1>2. CASE UNCHANGED viewVars
  BY <1>1, <1>2 DEF ViewInv, OnNode, GpusKnownAtRest, viewVars, vars, history
<1>3. ASSUME NEW a \in AllApps, AllocateJob(a) PROVE ViewInv'
  BY <1>1, <1>3 DEF ViewInv, OnNode, GpusKnownAtRest, AllocateJob, AddModifiedComputeNode, StartApp,
                    Active
<1>4. ASSUME NEW a \in AllApps, CompleteJob(a) PROVE ViewInv'
  <2>1. caller[a] \notin Active
    BY <1>4 DEF CompleteJob, Active
  <2> QED
    BY <1>1, <1>4, <2>1
    DEF ViewInv, OnNode, GpusKnownAtRest, CompleteJob, AddModifiedComputeNode, vars
<1>5. ASSUME NEW a \in AllApps, KillJob(a) PROVE ViewInv'
  <2>1. caller'[a] \notin Active /\ \A b \in AllApps \ {a} : caller'[b] = caller[b]
    BY <1>5 DEF KillJob, KillApp, Active, ViewInv, GpuInv, TypeOK
  <2> QED
    BY <1>1, <1>5, <2>1 DEF ViewInv, OnNode, GpusKnownAtRest, KillJob, AddModifiedComputeNode
<1>6. CASE Expect \/ Invoke
  BY <1>1, <1>6 DEF ViewInv, OnNode, GpusKnownAtRest, Expect, Invoke, AddModifiedComputeNode, vars
<1>7. CASE Work
  <2>1. OnNode'
    <3>1. ASSUME NEW a \in AllApps, StartTask(a) \/ Exchanged(a) \/ EndTask(a) \/ EndApp(a)
          PROVE  /\ caller[a] \in Active
                 /\ \A b \in AllApps \ {a} : caller'[b] = caller[b]
      BY <3>1 DEF StartTask, Exchanged, EndTask, EndApp, Active, ViewInv, GpuInv, TypeOK
    <3>2. ASSUME NEW s \in Sleepers, AsyncSleep(s) PROVE UNCHANGED caller
      BY <3>2 DEF AsyncSleep, Lock, Unlock, Post
    <3>3. \A a \in AllApps : caller'[a] \in Active => caller[a] \in Active
      BY <1>7, <3>1, <3>2 DEF Work, Execute, RunSleeper
    <3> QED
      BY <1>7, <3>3 DEF ViewInv, OnNode, Work, Execute, RunSleeper
  <2>2. UNCHANGED <<running, modified, told, killed>>
    BY <1>7 DEF Work, Execute, RunSleeper, StartTask, Exchanged, EndTask, EndApp, AsyncSleep, Lock, Unlock, Post, history
  <2>3. GpusKnownAtRest'
    BY <1>7, <2>2, NoKernelAtRest DEF ViewInv, GpusKnownAtRest
  <2> QED
    BY <1>1, <2>1, <2>3 DEF ViewInv
<1> QED
  BY <1>2, <1>3, <1>4, <1>5, <1>6, <1>7 DEF ViewNext

\* What is proved of module Gpu holds with the scheduler's operations around it.
LEMMA ViewImplementsGpu == ViewSpec => Spec
<1>1. ViewInit => Init
  BY DEF ViewInit
<1> QED
  BY <1>1, ViewStep, PTL DEF ViewSpec, Spec

\* What the algorithm was last told of the GPUs of a node is so as long as no job is on the
\* node, for any number of jobs, tasks and GPUs, unless one was killed: toJson sends them only
\* with a node in the list, and Gpu::allocate and Gpu::deallocate enter it in none.
THEOREM GpusAreKnownAtRest == ViewSpec => []GpusKnownAtRest
<1>1. ViewInit => ViewInv
  <2>1. ViewInit => GpuInv
    BY InitGpu DEF ViewInit
  <2> QED
    BY <2>1 DEF ViewInit, ViewInv, Init, OnNode, Active, GpusKnownAtRest
<1>2. ViewInv => GpusKnownAtRest
  BY DEF ViewInv
<1> QED
  BY <1>1, <1>2, ViewKeeps, PTL DEF ViewSpec
=============================================================================
