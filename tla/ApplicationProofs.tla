-------------------------- MODULE ApplicationProofs --------------------------
(***************************************************************************)
(* The ranks of a job, for any workload, any node lists and any number of  *)
(* reconfigurations, with an algorithm that changes the arguments of the   *)
(* job when it answers it (Polite): they never part ways.  As in           *)
(* TasksProofs the places of an incarnation have an order, and the         *)
(* inductive invariant says of every barrier in it that all ranks have     *)
(* passed it or none has.  A head of the loop at which the ranks are to    *)
(* ask is such a barrier, and nothing lies beyond it.                      *)
(***************************************************************************)
EXTENDS Application, SequenceTheorems, FiniteSetTheorems, WellFoundedInduction, TLAPS

-----------------------------------------------------------------------------
(* The order of the places.                                                *)

\* Within an iteration, and before the first one.
Order(s) ==
  CASE s \in {"init", "head"} -> 0
    [] s \in {"reconfigure", "leave", "end", "lost"} -> 1
    [] s \in {"start", "post", "finish"} -> 2
    [] s \in {"expand", "none"} -> 3
    [] s = "phase" -> 4
    [] s = "tasks" -> 5

Before(b, a) ==
  \/ b.idx < a.idx
  \/ b.idx = a.idx /\ a.remaining < b.remaining
  \/ b.idx = a.idx /\ b.remaining = a.remaining /\ Order(b.at) < Order(a.at)

\* An incarnation begins with the first iteration of its first phase.
First(p, i, r) == i = 1 /\ r = p[1].iterations

\* What an actor asks at the head of the loop.
Request(i, r) ==
  RequestOf([NoActor EXCEPT !.at = "head", !.idx = i, !.remaining = r,
                            !.initialPhase = First(phases, i, r)])

Blocks(b) ==
  LET p == phases[b.idx] IN
  \/ /\ b.idx = 0 /\ b.remaining = 0 /\ b.request = "none"
     /\ \/ b.at = "init" /\ kind = "allocated" /\ Synchronized
        \/ b.at = "reconfigure" /\ kind = "reconfigured" /\ Synchronized
        \/ b.at = "start"
  \/ /\ b.idx \in 1 .. Len(phases) /\ b.remaining \in 1 .. p.iterations
     /\ \/ b.at = "leave" /\ b.request # "none" /\ b.request = Request(b.idx, b.remaining)
        \/ b.at = "phase" /\ b.request = "none" /\ p.barrier
        \/ b.at = "tasks" /\ b.request = "none" /\ p.synchronized
  \/ /\ b.idx = Len(phases) /\ b.remaining = 0 /\ p.iterations > 0
     /\ b.at = "end" /\ b.request = "none"

\* Where the ranks of this incarnation wait for each other.
Barriers ==
  {b \in [idx : Nat, remaining : Nat, at : Places, request : Requests \cup {"none"}] : Blocks(b)}

Place(a) == [idx |-> a.idx, remaining |-> a.remaining, at |-> a.at, request |-> a.request]
PlaceAt(a, s) == [idx |-> a.idx, remaining |-> a.remaining, at |-> s, request |-> a.request]

\* The phases of some workload, or what remains of them.
IsPhases(p) == p \in Seq(PhaseRecord) /\ p # <<>>

\* The iterations that precede each phase of p.
IsOffsets(f, p, k) ==
  /\ f \in [1 .. k -> Int] /\ f[1] = 0
  /\ \A i \in 1 .. k : i + 1 \in 1 .. k => f[i + 1] = f[i] + p[i].iterations
Offsets(p) == CHOOSE f \in [1 .. Len(p) -> Int] : IsOffsets(f, p, Len(p))

Entry == {"init", "reconfigure", "start", "expand"}

\* Where an actor of an incarnation with phases p and barriers B may be.
OnTheWay(a, p, B) ==
  /\ IF a.at \in Entry
     THEN a.idx = 0 /\ a.remaining = 0 /\ a.initialPhase /\ a.done = 0
     ELSE /\ a.idx \in 1 .. Len(p) /\ a.remaining \in 0 .. p[a.idx].iterations
          /\ a.initialPhase <=> First(p, a.idx, a.remaining)
          /\ a.done = Offsets(p)[a.idx] + p[a.idx].iterations - a.remaining
  /\ a.at \in {"phase", "tasks"} => a.remaining > 0
  /\ a.at \notin {"leave", "post", "none"} => a.request = "none"
  /\ a.at \in {"leave", "post"} => PlaceAt(a, "leave") \in B
  /\ a.at \in {"end", "finish"} => PlaceAt(a, "end") \in B
  /\ \A b \in B : Before(b, a) => /\ b.at = "leave" => /\ a.at \in {"post", "none"}
                                                       /\ b.idx = a.idx /\ b.remaining = a.remaining
                                  /\ b.at = "end" => a.at \in {"finish", "none"}

SameSide(a, z, B) == \A b \in B : Before(b, a) <=> Before(b, z)

-----------------------------------------------------------------------------
(* The inductive invariant.                                                *)

\* The one-time phases the incarnation calls for, in order.
Due(n) ==
  CASE kind = "allocated" -> {"init"}
    [] kind = "continued" -> {}
    [] kind = "reconfigured" -> {"reconfigure"} \cup IF n \in gained THEN {"expand"} ELSE {}

\* The flags an actor that has come to a has on its node, where D is due.
OneTime(a, D) ==
  /\ a.initializing <=> a.at = "init" /\ "init" \in D
  /\ a.reconfiguring <=> a.at \in {"init", "reconfigure"} /\ "reconfigure" \in D
  /\ a.expands <=> a.at \in Entry /\ "expand" \in D
  /\ a.at # "none" =>
       a.once = CASE a.at = "init" -> {}
                  [] a.at = "reconfigure" -> D \cap {"init"}
                  [] a.at \in {"start", "expand"} -> D \cap {"init", "reconfigure"}
                  [] OTHER -> D

Typed ==
  /\ TypeOK
  /\ IsPhases(phases)
  /\ gained \subseteq Ranks
  /\ \A n \in Nodes \ Ranks : actor[n].at = "none"
  /\ cleared => mail \in Requests

Phased == \A n \in Ranks : OneTime(actor[n], Due(n))

Waits ==
  /\ \A n \in waiting : Meets(actor[n])
  /\ \A n \in expanding : MeetsExpanding(actor[n])

Aligned ==
  /\ \A n \in Ranks : OnTheWay(actor[n], phases, Barriers)
  /\ \A m, n \in Ranks : SameSide(actor[m], actor[n], Barriers)
  /\ Leader.at # "none"

\* Until the job reports, and then.
Progress ==
  /\ mail = "none" => Aligned
  /\ mail \in Requests => \A n \in Ranks : actor[n].at \in {"post", "none"}
  /\ mail = "WORKLOAD_PROCESSED" => \A n \in Ranks : actor[n].at \in {"finish", "none"}
  /\ mail # "none" => Leader.at = "none"

ApplicationInv == Typed /\ Phased /\ Waits /\ Progress

-----------------------------------------------------------------------------
(* Ranks, phases and iterations.                                           *)

LEMMA NodeListRanks ==
  ASSUME NEW q \in NodeLists
  PROVE  /\ Len(q) \in Nat \ {0} /\ DOMAIN q = 1 .. Len(q) /\ q[1] \in ToSet(q)
         /\ ToSet(q) \subseteq Nodes /\ IsFiniteSet(ToSet(q)) /\ Cardinality(ToSet(q)) = Len(q)
         /\ \A i, k \in 1 .. Len(q) : q[i] = q[k] => i = k
<1>1. q \in Seq(Nodes) /\ q # <<>> /\ IsInjective(q)
  BY ApplicationSpecification
<1>2. Len(q) \in Nat \ {0} /\ DOMAIN q = 1 .. Len(q) /\ q \in [1 .. Len(q) -> Nodes]
  BY <1>1, EmptySeq, LenProperties
<1>3. ToSet(q) = {q[i] : i \in 1 .. Len(q)} /\ ToSet(q) \subseteq Nodes /\ q[1] \in ToSet(q)
  BY <1>2 DEF ToSet
<1>4. \A i, k \in 1 .. Len(q) : q[i] = q[k] => i = k
  BY <1>1, <1>2 DEF IsInjective
<1>5. q \in Surjection(1 .. Len(q), ToSet(q)) /\ q \in Injection(1 .. Len(q), ToSet(q))
  BY <1>1, <1>2, <1>3 DEF Surjection, Injection, IsInjective
<1>6. IsFiniteSet(1 .. Len(q)) /\ Cardinality(1 .. Len(q)) = Len(q)
  BY <1>2, FS_Interval
<1>7. IsFiniteSet(ToSet(q)) /\ Cardinality(ToSet(q)) = Len(q)
  BY <1>5, <1>6, FS_Surjection
<1> QED
  BY <1>2, <1>3, <1>4, <1>7

\* Rank 0 is the actor of the first node.
LEMMA RankZero ==
  ASSUME exec \in NodeLists, NEW n \in Ranks
  PROVE  Rank(n) = 0 <=> n = exec[1]
<1>1. /\ Len(exec) \in Nat \ {0} /\ DOMAIN exec = 1 .. Len(exec)
      /\ \A i, k \in 1 .. Len(exec) : exec[i] = exec[k] => i = k
  BY NodeListRanks
<1>2. PICK i \in 1 .. Len(exec) : exec[i] = n
  BY <1>1 DEF Ranks, ToSet
<1>3. i - 1 \in 0 .. Len(exec) - 1 /\ exec[(i - 1) + 1] = n
  BY <1>1, <1>2
<1>4. Rank(n) \in 0 .. Len(exec) - 1 /\ exec[Rank(n) + 1] = n
  BY <1>3 DEF Rank
<1>5. Rank(n) + 1 = i
  BY <1>1, <1>2, <1>4
<1> QED
  BY <1>1, <1>2, <1>4, <1>5

LEMMA PhaseFacts ==
  ASSUME NEW p, IsPhases(p)
  PROVE  /\ Len(p) \in Nat \ {0} /\ DOMAIN p = 1 .. Len(p)
         /\ \A i \in 1 .. Len(p) : p[i] \in PhaseRecord /\ p[i].iterations \in Nat
<1>1. Len(p) \in Nat \ {0} /\ DOMAIN p = 1 .. Len(p) /\ p \in [1 .. Len(p) -> PhaseRecord]
  BY EmptySeq, LenProperties DEF IsPhases
<1> QED
  BY <1>1 DEF PhaseRecord

LEMMA LeastNumber ==
  ASSUME NEW T \in SUBSET Nat, T # {}
  PROVE  \E i \in T : \A k \in T : i <= k
<1>1. PICK i \in T : \A k \in T : <<k, i>> \notin OpToRel(<, Nat)
  BY NatLessThanWellFounded, WFMin
<1>2. \A k \in T : <<k, i>> \in Nat \X Nat /\ (k < i => <<k, i>> \in OpToRel(<, Nat))
  BY DEF OpToRel
<1>3. \A k \in T : ~(k < i)
  BY <1>1, <1>2
<1> QED
  BY <1>3

\* Were there no offsets for some beginning of p, there would be a least one without.
LEMMA OffsetsExist ==
  ASSUME NEW p, IsPhases(p)
  PROVE  IsOffsets(Offsets(p), p, Len(p))
<1> DEFINE Has(k) == \E f \in [1 .. k -> Int] : IsOffsets(f, p, k)
           T == {k \in 1 .. Len(p) : ~Has(k)}
<1>0. /\ Len(p) \in Nat \ {0}
      /\ \A i \in 1 .. Len(p) : p[i].iterations \in Nat
  BY PhaseFacts
<1>1. T = {}
  <2> SUFFICES ASSUME T # {} PROVE FALSE
    OBVIOUS
  <2>1. T \in SUBSET Nat
    BY <1>0
  <2>2. PICK k \in T : \A i \in T : k <= i
    BY <2>1, LeastNumber
  <2>3. k \in 1 .. Len(p) /\ ~Has(k)
    BY <2>2
  <2>4. k # 1
    <3>1. [i \in 1 .. 1 |-> 0] \in [1 .. 1 -> Int] /\ IsOffsets([i \in 1 .. 1 |-> 0], p, 1)
      BY DEF IsOffsets
    <3> QED
      BY <2>3, <3>1
  <2>5. k - 1 \in 1 .. Len(p) /\ k - 1 \notin T
    BY <1>0, <2>2, <2>3, <2>4
  <2>6. PICK f \in [1 .. k - 1 -> Int] : IsOffsets(f, p, k - 1)
    BY <2>5
  <2> DEFINE g == [i \in 1 .. k |-> IF i = k THEN f[k - 1] + p[k - 1].iterations ELSE f[i]]
  <2>7. g \in [1 .. k -> Int]
    BY <1>0, <2>3, <2>4, <2>5, <2>6
  <2>8. g[1] = 0
    BY <2>3, <2>4, <2>6 DEF IsOffsets
  <2>9. \A i \in 1 .. k : i + 1 \in 1 .. k => g[i + 1] = g[i] + p[i].iterations
    BY <1>0, <2>3, <2>5, <2>6 DEF IsOffsets
  <2>10. IsOffsets(g, p, k)
    BY <2>7, <2>8, <2>9 DEF IsOffsets
  <2> QED
    BY <2>3, <2>7, <2>10
<1>2. Has(Len(p))
  BY <1>0, <1>1
<1> QED
  BY <1>2 DEF Offsets

LEMMA OffsetFacts ==
  ASSUME NEW p, IsPhases(p)
  PROVE  /\ Offsets(p)[1] = 0
         /\ \A i \in 1 .. Len(p) : Offsets(p)[i] \in Int
         /\ \A i \in 1 .. Len(p) :
              i < Len(p) => Offsets(p)[i + 1] = Offsets(p)[i] + p[i].iterations
<1>1. Len(p) \in Nat \ {0}
  BY PhaseFacts
<1> QED
  BY <1>1, OffsetsExist DEF IsOffsets

\* What remains after a request is a workload again.
LEMMA AdvancedPhases ==
  ASSUME NEW p, IsPhases(p), NEW i \in 1 .. Len(p), NEW r \in Nat
  PROVE  IsPhases(Advance(p, i - 1, r)) /\ Len(Advance(p, i - 1, r)) <= Len(p)
<1> DEFINE rest == SubSeq(p, i - 1 + 1, Len(p))
<1>1. Len(p) \in Nat \ {0} /\ \A k \in 1 .. Len(p) : p[k] \in PhaseRecord
  BY PhaseFacts
<1>2. i - 1 + 1 = i /\ i \in Int /\ Len(p) \in Int /\ \A k \in i .. Len(p) : p[k] \in PhaseRecord
  BY <1>1
<1>3. rest \in Seq(PhaseRecord) /\ Len(rest) = Len(p) - i + 1
  BY <1>1, <1>2, SubSeqProperties
<1>4. 1 \in 1 .. Len(rest) /\ rest[1] \in PhaseRecord
  BY <1>1, <1>3, ElementOfSeq
<1> DEFINE first == [rest[1] EXCEPT !.iterations = r]
<1>5. first \in PhaseRecord
  BY <1>4 DEF PhaseRecord
<1>6. Advance(p, i - 1, r) = [rest EXCEPT ![1] = first]
  BY <1>4 DEF Advance
<1> HIDE DEF rest, first
<1>7. [rest EXCEPT ![1] = first] \in Seq(PhaseRecord) /\ Len([rest EXCEPT ![1] = first]) = Len(rest)
  BY <1>3, <1>4, <1>5, ExceptSeq
<1>8. [rest EXCEPT ![1] = first] # <<>>
  <2>1. Len(<<>>) = 0
    BY EmptySeq
  <2>2. Len([rest EXCEPT ![1] = first]) # 0
    BY <1>1, <1>3, <1>7
  <2> QED
    BY <2>1, <2>2
<1> QED
  BY <1>1, <1>3, <1>6, <1>7, <1>8 DEF IsPhases

-----------------------------------------------------------------------------
(* Barriers.                                                               *)

\* A barrier is where the actors whose flags say so wait; nobody waits elsewhere.
LEMMA BarrierPlaces ==
  ASSUME Typed, NEW n \in Ranks, NEW a \in Actor,
         OnTheWay(a, phases, Barriers), OneTime(a, Due(n))
  PROVE  /\ Meets(a) => Place(a) \in Barriers
         /\ a.at # "head" /\ ~Meets(a) =>
              \A b \in Barriers : ~(b.idx = a.idx /\ b.remaining = a.remaining /\ b.at = a.at)
<1>1. /\ a.idx \in Nat /\ a.remaining \in Nat /\ a.at \in Places
      /\ a.request \in Requests \cup {"none"}
  BY DEF Actor
<1>2. /\ "init" \in Due(n) <=> kind = "allocated"
      /\ "reconfigure" \in Due(n) <=> kind = "reconfigured"
  BY DEF Due, Typed, TypeOK
<1>3. /\ Len(phases) \in Nat \ {0} /\ \A i \in 1 .. Len(phases) : phases[i].iterations \in Nat
  BY PhaseFacts DEF Typed
<1>4. /\ Place(a).idx = a.idx /\ Place(a).remaining = a.remaining
      /\ Place(a).at = a.at /\ Place(a).request = a.request
      /\ Place(a) \in [idx : Nat, remaining : Nat, at : Places, request : Requests \cup {"none"}]
  BY <1>1 DEF Place
<1>5. ASSUME Meets(a)
      PROVE  Place(a) \in Barriers
  <2>1. CASE a.at \in {"start", "init", "reconfigure"}
    <3>1. Blocks(Place(a))
      BY <1>2, <1>4, <1>5, <2>1 DEF Meets, Blocks, OnTheWay, Entry, OneTime
    <3> QED
      BY <1>4, <3>1 DEF Barriers
  <2>2. CASE a.at \in {"phase", "tasks"}
    <3>1. a.idx \in 1 .. Len(phases) /\ a.remaining \in 1 .. phases[a.idx].iterations
      BY <1>1, <1>3, <2>2 DEF OnTheWay, Entry
    <3>2. Blocks(Place(a))
      BY <1>4, <1>5, <2>2, <3>1 DEF Meets, Blocks, OnTheWay
    <3> QED
      BY <1>4, <3>2 DEF Barriers
  <2>3. CASE a.at \in {"leave", "end"}
    BY <2>3 DEF OnTheWay, Place, PlaceAt
  <2> QED
    BY <1>5, <2>1, <2>2, <2>3 DEF Meets
<1>6. ASSUME a.at # "head", ~Meets(a),
             NEW b \in Barriers, b.idx = a.idx, b.remaining = a.remaining, b.at = a.at
      PROVE  FALSE
  BY <1>2, <1>6 DEF Barriers, Blocks, Meets, OneTime
<1> QED
  BY <1>5, <1>6


\* Facts about barriers that the moves below rely on.
LEMMA BarrierFacts ==
  ASSUME Typed, NEW b \in Barriers
  PROVE  /\ b.idx \in Nat /\ b.remaining \in Nat /\ Order(b.at) \in 0 .. 5
         /\ b.at \in {"init", "reconfigure", "start", "leave", "phase", "tasks", "end"}
         /\ b.idx \in 0 .. Len(phases)
         /\ b.idx = 0 <=> b.at \in {"init", "reconfigure", "start"}
         /\ b.idx = 0 => b.remaining = 0
         /\ b.idx # 0 => b.remaining <= phases[b.idx].iterations
         /\ b.at = "end" => b.idx = Len(phases) /\ b.remaining = 0
         /\ b.at \in {"leave", "phase", "tasks"} => b.remaining > 0
         /\ b.at = "leave" => Request(b.idx, b.remaining) # "none"
<1>1. /\ Len(phases) \in Nat \ {0} /\ \A i \in 1 .. Len(phases) : phases[i].iterations \in Nat
  BY PhaseFacts DEF Typed
<1>2. b.idx \in Nat /\ b.remaining \in Nat /\ b.at \in Places /\ Blocks(b)
  BY DEF Barriers
<1>3. b.at \in {"init", "reconfigure", "start", "leave", "phase", "tasks", "end"}
  BY <1>2 DEF Blocks
<1>4. Order(b.at) \in 0 .. 5
  BY <1>3 DEF Order
<1> QED
  BY <1>1, <1>2, <1>3, <1>4 DEF Blocks

LEMMA ActorFacts ==
  ASSUME NEW a \in Actor
  PROVE  /\ a.idx \in Nat /\ a.remaining \in Nat /\ a.done \in Nat
         /\ a.at \in Places /\ a.request \in Requests \cup {"none"}
         /\ {a.initializing, a.reconfiguring, a.expands, a.initialPhase} \subseteq BOOLEAN
BY DEF Actor

LEMMA RequestAtHead ==
  ASSUME NEW a \in Actor, a.at = "head", OnTheWay(a, phases, Barriers)
  PROVE  RequestOf(a) = Request(a.idx, a.remaining) /\ RequestOf(a) \in Requests \cup {"none"}
<1> DEFINE h == [NoActor EXCEPT !.at = "head", !.idx = a.idx, !.remaining = a.remaining,
                                !.initialPhase = First(phases, a.idx, a.remaining)]
<1>1. h.at = "head" /\ h.idx = a.idx /\ h.remaining = a.remaining /\ h.initialPhase = a.initialPhase
  BY DEF NoActor, OnTheWay, Entry, Actor, First
<1> HIDE DEF h
<1>2. RequestOf(a) = RequestOf(h)
  BY <1>1 DEF RequestOf, Evaluates
<1> QED
  BY <1>2 DEF Request, RequestOf, Requests, h

\* What is on the same side of every barrier as an actor still before the end of the loop is
\* past none at which the loop ends.
LEMMA StaysBefore ==
  ASSUME NEW p, NEW B, NEW a, NEW z, OnTheWay(a, p, B), SameSide(a, z, B),
         a.at \notin {"post", "finish", "none"}
  PROVE  \A b \in B : Before(b, z) => b.at \notin {"leave", "end"}
BY DEF OnTheWay, SameSide

-----------------------------------------------------------------------------
(* How an actor moves on.                                                  *)

CanMove(a) == a.at \in {"init", "reconfigure", "expand", "head", "phase", "tasks"} /\ ~Meets(a)

GoodMove(a, z, n) ==
  /\ z \in Actor /\ z.at \notin {"none", "post", "finish", "init"}
  /\ OnTheWay(z, phases, Barriers) /\ OneTime(z, Due(n))
  /\ SameSide(a, z, Barriers)

LEMMA EntryMoves ==
  ASSUME Typed, NEW n \in Ranks, NEW a \in Actor, OnTheWay(a, phases, Barriers), OneTime(a, Due(n)),
         CanMove(a), a.at \in {"init", "reconfigure"}
  PROVE  GoodMove(a, Proceed(a), n)
<1> DEFINE z == Proceed(a)
<1>1. /\ z \in Actor /\ z.at = IF a.at = "init" THEN "reconfigure" ELSE "start"
      /\ z.idx = a.idx /\ z.remaining = a.remaining /\ z.initialPhase = a.initialPhase
      /\ z.done = a.done /\ z.request = a.request
  BY DEF Proceed, OneTimePhase, Actor, Places
<1>2. OneTime(z, Due(n))
  <2>1. CASE a.at = "init"
    BY ZenonT(60), <2>1 DEF Proceed, OneTimePhase, Actor, OneTime, Entry, Due, Typed, TypeOK
  <2>2. CASE a.at = "reconfigure"
    BY ZenonT(60), <2>2 DEF Proceed, OneTimePhase, Actor, OneTime, Entry, Due, Typed, TypeOK
  <2> QED
    BY <2>1, <2>2
<1>3. SameSide(a, z, Barriers)
  <2> SUFFICES ASSUME NEW b \in Barriers PROVE Before(b, a) <=> Before(b, z)
    BY DEF SameSide
  <2>1. ~(b.idx = a.idx /\ b.remaining = a.remaining /\ b.at = a.at)
    BY BarrierPlaces DEF CanMove
  <2> QED
    BY <1>1, <2>1, BarrierFacts, ActorFacts DEF Before, Order, OnTheWay, Entry
<1>4. OnTheWay(z, phases, Barriers)
  BY <1>1, <1>3, StaysBefore DEF OnTheWay, Entry
<1> QED
  BY <1>1, <1>2, <1>3, <1>4 DEF GoodMove

LEMMA ExpandMoves ==
  ASSUME Typed, NEW n \in Ranks, NEW a \in Actor, OnTheWay(a, phases, Barriers), OneTime(a, Due(n)),
         a.at = "expand"
  PROVE  GoodMove(a, Proceed(a), n)
<1> DEFINE z == Proceed(a)
<1>0. /\ Len(phases) \in Nat \ {0} /\ \A i \in 1 .. Len(phases) : phases[i].iterations \in Nat
  BY PhaseFacts DEF Typed
<1>1. /\ z \in Actor /\ z.at = "head" /\ z.idx = 1 /\ z.remaining = phases[1].iterations
      /\ z.initialPhase = a.initialPhase /\ z.done = a.done /\ z.request = a.request
  <2>1. z = [OneTimePhase(a, a.expands, "expand", "head")
               EXCEPT !.expands = FALSE, !.idx = 1, !.remaining = phases[1].iterations]
    BY DEF Proceed
  <2>2. phases[1].iterations \in Nat
    BY <1>0
  <2>3. CASE a.expands
    <3>1. z = [a EXCEPT !.once = @ \cup {"expand"}, !.at = "head", !.expands = FALSE, !.idx = 1,
                        !.remaining = phases[1].iterations]
      BY <2>1, <2>3 DEF OneTimePhase, Actor
    <3>2. \A r \in Nat : LET c == [a EXCEPT !.once = @ \cup {"expand"}, !.at = "head", !.expands = FALSE,
                                           !.idx = 1, !.remaining = r]
                         IN  /\ c \in Actor /\ c.at = "head" /\ c.idx = 1 /\ c.remaining = r
                             /\ c.initialPhase = a.initialPhase /\ c.done = a.done
                             /\ c.request = a.request
      BY DEF Actor, Places
    <3> HIDE DEF z
    <3> QED
      BY <2>2, <3>1, <3>2
  <2>4. CASE ~a.expands
    <3>1. z = [a EXCEPT !.at = "head", !.expands = FALSE, !.idx = 1,
                        !.remaining = phases[1].iterations]
      BY <2>1, <2>4 DEF OneTimePhase, Actor
    <3>2. \A r \in Nat : LET c == [a EXCEPT !.at = "head", !.expands = FALSE, !.idx = 1, !.remaining = r]
                         IN  /\ c \in Actor /\ c.at = "head" /\ c.idx = 1 /\ c.remaining = r
                             /\ c.initialPhase = a.initialPhase /\ c.done = a.done
                             /\ c.request = a.request
      BY DEF Actor, Places
    <3> HIDE DEF z
    <3> QED
      BY <2>2, <3>1, <3>2
  <2> QED
    BY <2>3, <2>4
<1>2. OneTime(z, Due(n))
  BY ZenonT(60) DEF Proceed, OneTimePhase, Actor, OneTime, Entry, Due, Typed, TypeOK
<1>3. SameSide(a, z, Barriers)
  <2> SUFFICES ASSUME NEW b \in Barriers PROVE Before(b, a) <=> Before(b, z)
    BY DEF SameSide
  <2> QED
    BY <1>0, <1>1, BarrierFacts, ActorFacts DEF Before, Order, OnTheWay, Entry
<1>4. OnTheWay(z, phases, Barriers)
  <2>1. Offsets(phases)[1] = 0 /\ phases[1].iterations \in Nat /\ 1 \in 1 .. Len(phases)
    BY <1>0, OffsetFacts DEF Typed
  <2>2. a.done = 0 /\ a.initialPhase /\ a.request = "none"
    BY DEF OnTheWay, Entry
  <2>3. z.done = Offsets(phases)[z.idx] + phases[z.idx].iterations - z.remaining
    BY <1>1, <2>1, <2>2
  <2>4. z.initialPhase <=> First(phases, z.idx, z.remaining)
    BY <1>1, <2>2 DEF First
  <2>5. \A b \in Barriers : Before(b, z) => b.at \notin {"leave", "end"}
    BY <1>3, StaysBefore
  <2> HIDE DEF z
  <2> QED
    BY <1>1, <2>1, <2>2, <2>3, <2>4, <2>5 DEF OnTheWay, Entry
<1> QED
  BY <1>1, <1>2, <1>3, <1>4 DEF GoodMove

LEMMA HeadMoves ==
  ASSUME Typed, NEW n \in Ranks, NEW a \in Actor, OnTheWay(a, phases, Barriers), OneTime(a, Due(n)),
         a.at = "head"
  PROVE  GoodMove(a, Proceed(a), n)
<1> DEFINE z == Proceed(a)
<1>0. /\ Len(phases) \in Nat \ {0} /\ \A i \in 1 .. Len(phases) : phases[i].iterations \in Nat
  BY PhaseFacts DEF Typed
<1>1. /\ z \in Actor /\ z.at \in {"lost", "leave", "phase"} /\ z.idx = a.idx /\ z.remaining = a.remaining
      /\ z.initialPhase = a.initialPhase /\ z.done = a.done
      /\ z.at = "lost" <=> a.remaining = 0
      /\ z.at = "leave" => z.request = Request(a.idx, a.remaining) /\ z.request # "none"
      /\ z.at = "phase" => Request(a.idx, a.remaining) = "none"
      /\ z.at # "leave" => z.request = "none"
  <2>1. /\ RequestOf(a) = Request(a.idx, a.remaining) /\ RequestOf(a) \in Requests \cup {"none"}
        /\ a.request = "none"
    BY RequestAtHead DEF OnTheWay
  <2> QED
    BY <2>1 DEF Proceed, AtHead, Actor, Places
<1>2. OneTime(z, Due(n))
  BY DEF Proceed, AtHead, Actor, OneTime, Entry
<1>3. SameSide(a, z, Barriers)
  <2> SUFFICES ASSUME NEW b \in Barriers PROVE Before(b, a) <=> Before(b, z)
    BY DEF SameSide
  <2>1. b.at = "leave" => Request(b.idx, b.remaining) # "none"
    BY BarrierFacts
  <2>2. b.idx = a.idx /\ b.remaining = a.remaining /\ z.at = "phase" => b.at # "leave"
    BY <1>1, <2>1
  <2> QED
    BY <1>1, <2>2, BarrierFacts, ActorFacts DEF Before, Order, OnTheWay, Entry
<1>4. z.at = "leave" => PlaceAt(z, "leave") \in Barriers
  <2> SUFFICES ASSUME z.at = "leave" PROVE PlaceAt(z, "leave") \in Barriers
    OBVIOUS
  <2>1. /\ PlaceAt(z, "leave").idx = a.idx /\ PlaceAt(z, "leave").remaining = a.remaining
        /\ PlaceAt(z, "leave").at = "leave" /\ PlaceAt(z, "leave").request = z.request
        /\ PlaceAt(z, "leave") \in
             [idx : Nat, remaining : Nat, at : Places, request : Requests \cup {"none"}]
    BY <1>1 DEF PlaceAt, Actor, Places
  <2>2. a.idx \in 1 .. Len(phases) /\ a.remaining \in 1 .. phases[a.idx].iterations
    BY <1>0, <1>1, ActorFacts DEF OnTheWay, Entry
  <2>3. Blocks(PlaceAt(z, "leave"))
    BY <1>1, <2>1, <2>2 DEF Blocks
  <2> QED
    BY <2>1, <2>3 DEF Barriers
<1>5. OnTheWay(z, phases, Barriers)
  <2>1. \A b \in Barriers : Before(b, z) => b.at \notin {"leave", "end"}
    BY <1>3, StaysBefore
  <2>2. z.at = "phase" => z.remaining > 0
    BY <1>1, ActorFacts
  <2> QED
    BY <1>1, <1>4, <2>1, <2>2 DEF OnTheWay, Entry
<1> QED
  BY <1>1, <1>2, <1>3, <1>5 DEF GoodMove

LEMMA PhaseMoves ==
  ASSUME Typed, NEW n \in Ranks, NEW a \in Actor, OnTheWay(a, phases, Barriers), OneTime(a, Due(n)),
         CanMove(a), a.at = "phase"
  PROVE  GoodMove(a, Proceed(a), n)
<1> DEFINE z == Proceed(a)
<1>1. /\ z \in Actor /\ z.at = "tasks" /\ z.idx = a.idx /\ z.remaining = a.remaining
      /\ z.initialPhase = a.initialPhase /\ z.done = a.done /\ z.request = a.request
  BY DEF Proceed, Actor, Places
<1>2. OneTime(z, Due(n))
  BY DEF Proceed, Actor, OneTime, Entry
<1>3. SameSide(a, z, Barriers)
  <2> SUFFICES ASSUME NEW b \in Barriers PROVE Before(b, a) <=> Before(b, z)
    BY DEF SameSide
  <2>1. ~(b.idx = a.idx /\ b.remaining = a.remaining /\ b.at = a.at)
    BY BarrierPlaces DEF CanMove
  <2> QED
    BY <1>1, <2>1, BarrierFacts, ActorFacts DEF Before, Order, OnTheWay, Entry
<1>4. OnTheWay(z, phases, Barriers)
  <2>1. \A b \in Barriers : Before(b, z) => b.at \notin {"leave", "end"}
    BY <1>3, StaysBefore
  <2> HIDE DEF z
  <2> QED
    BY <1>1, <2>1 DEF OnTheWay, Entry
<1> QED
  BY <1>1, <1>2, <1>3, <1>4 DEF GoodMove

\* Where the tasks of an iteration lead.
LEMMA AfterIteration ==
  ASSUME Typed, NEW a \in Actor, OnTheWay(a, phases, Barriers), a.at = "tasks"
  PROVE  /\ Proceed(a) \in Actor
         /\ Proceed(a).done = a.done + 1 /\ Proceed(a).initialPhase = FALSE /\ Proceed(a).request = "none"
         /\ Proceed(a).expands = a.expands /\ Proceed(a).once = a.once
         /\ Proceed(a).initializing = a.initializing /\ Proceed(a).reconfiguring = a.reconfiguring
         /\ \/ /\ a.remaining > 1 /\ Proceed(a).at = "head"
               /\ Proceed(a).idx = a.idx /\ Proceed(a).remaining = a.remaining - 1
            \/ /\ a.remaining = 1 /\ a.idx = Len(phases) /\ Proceed(a).at = "end"
               /\ Proceed(a).idx = a.idx /\ Proceed(a).remaining = 0
            \/ /\ a.remaining = 1 /\ a.idx < Len(phases) /\ Proceed(a).at = "head"
               /\ Proceed(a).idx = a.idx + 1 /\ Proceed(a).remaining = phases[a.idx + 1].iterations
<1>0. /\ Len(phases) \in Nat \ {0} /\ \A i \in 1 .. Len(phases) : phases[i].iterations \in Nat
  BY PhaseFacts DEF Typed
<1>1. /\ a.remaining \in Nat \ {0} /\ a.idx \in 1 .. Len(phases) /\ a.request = "none"
      /\ a.done + 1 \in Nat /\ a.remaining - 1 \in Nat
  BY ActorFacts DEF OnTheWay, Entry
<1> DEFINE b == [a EXCEPT !.remaining = a.remaining - 1, !.initialPhase = FALSE, !.done = a.done + 1]
<1>2. /\ b \in Actor /\ b.remaining = a.remaining - 1 /\ b.initialPhase = FALSE
      /\ b.done = a.done + 1 /\ b.idx = a.idx /\ b.request = "none"
      /\ b.expands = a.expands /\ b.once = a.once
      /\ b.initializing = a.initializing /\ b.reconfiguring = a.reconfiguring
  BY <1>1 DEF Actor
<1>3. Proceed(a) = IF b.remaining > 0 THEN [b EXCEPT !.at = "head"]
                   ELSE IF b.idx = Len(phases) THEN [b EXCEPT !.at = "end"]
                   ELSE [b EXCEPT !.at = "head", !.idx = b.idx + 1,
                                  !.remaining = phases[b.idx + 1].iterations]
  BY DEF Proceed, AfterTasks
<1> HIDE DEF b
<1>4. CASE b.remaining > 0
  <2>1. Proceed(a) = [b EXCEPT !.at = "head"]
    BY <1>3, <1>4
  <2> QED
    BY <1>1, <1>2, <1>4, <2>1 DEF Actor, Places
<1>5. CASE ~(b.remaining > 0) /\ b.idx = Len(phases)
  <2>1. Proceed(a) = [b EXCEPT !.at = "end"]
    BY <1>3, <1>5
  <2>2. a.remaining = 1 /\ b.remaining = 0
    BY <1>1, <1>2, <1>5
  <2> QED
    BY <1>1, <1>2, <1>5, <2>1, <2>2 DEF Actor, Places
<1>6. CASE ~(b.remaining > 0) /\ b.idx # Len(phases)
  <2>1. Proceed(a) = [b EXCEPT !.at = "head", !.idx = b.idx + 1,
                               !.remaining = phases[b.idx + 1].iterations]
    BY <1>3, <1>6
  <2>2. a.remaining = 1 /\ a.idx < Len(phases) /\ b.idx + 1 \in 1 .. Len(phases)
    BY <1>0, <1>1, <1>2, <1>6
  <2>3. b.idx + 1 \in Nat /\ phases[b.idx + 1].iterations \in Nat
    BY <1>0, <2>2
  <2> DEFINE i == b.idx + 1
             r == phases[b.idx + 1].iterations
  <2>4. i \in Nat /\ r \in Nat /\ Proceed(a) = [b EXCEPT !.at = "head", !.idx = i, !.remaining = r]
    BY <2>1, <2>3
  <2> HIDE DEF i, r
  <2>5. /\ Proceed(a) \in Actor /\ Proceed(a).at = "head" /\ Proceed(a).idx = i
        /\ Proceed(a).remaining = r
        /\ Proceed(a).done = b.done /\ Proceed(a).initialPhase = b.initialPhase
        /\ Proceed(a).request = b.request /\ Proceed(a).expands = b.expands
        /\ Proceed(a).once = b.once /\ Proceed(a).initializing = b.initializing
        /\ Proceed(a).reconfiguring = b.reconfiguring
    BY <1>2, <2>4 DEF Actor, Places
  <2> QED
    BY <1>2, <2>2, <2>5 DEF i, r
<1> QED
  BY <1>4, <1>5, <1>6

\* ... is a place of the loop.
LoopPlace(z) ==
  /\ z.idx \in 1 .. Len(phases) /\ z.remaining \in 0 .. phases[z.idx].iterations
  /\ z.initialPhase <=> First(phases, z.idx, z.remaining)
  /\ z.done = Offsets(phases)[z.idx] + phases[z.idx].iterations - z.remaining
  /\ z.at = "end" => PlaceAt(z, "end") \in Barriers

LEMMA IterationPlace ==
  ASSUME Typed, NEW a \in Actor, OnTheWay(a, phases, Barriers), a.at = "tasks"
  PROVE  LoopPlace(Proceed(a))
<1> DEFINE z == Proceed(a)
<1>0. /\ Len(phases) \in Nat \ {0} /\ \A i \in 1 .. Len(phases) : phases[i].iterations \in Nat
  BY PhaseFacts DEF Typed
<1>1. /\ z \in Actor /\ z.done = a.done + 1 /\ z.initialPhase = FALSE /\ z.request = "none"
      /\ \/ a.remaining > 1 /\ z.at = "head" /\ z.idx = a.idx /\ z.remaining = a.remaining - 1
         \/ /\ a.remaining = 1 /\ a.idx = Len(phases) /\ z.at = "end"
            /\ z.idx = a.idx /\ z.remaining = 0
         \/ /\ a.remaining = 1 /\ a.idx < Len(phases) /\ z.at = "head"
            /\ z.idx = a.idx + 1 /\ z.remaining = phases[a.idx + 1].iterations
  BY AfterIteration
<1>2. /\ a.idx \in 1 .. Len(phases) /\ a.remaining \in 1 .. phases[a.idx].iterations
      /\ a.done = Offsets(phases)[a.idx] + phases[a.idx].iterations - a.remaining
  BY <1>0, ActorFacts DEF OnTheWay, Entry
<1> HIDE DEF z
<1>3. z.done = Offsets(phases)[z.idx] + phases[z.idx].iterations - z.remaining
  <2>1. \A i \in 1 .. Len(phases) : Offsets(phases)[i] \in Int
    BY OffsetFacts DEF Typed
  <2>2. a.idx < Len(phases) => Offsets(phases)[a.idx + 1] = Offsets(phases)[a.idx] + phases[a.idx].iterations
    BY <1>2, OffsetFacts DEF Typed
  <2>3. a.idx < Len(phases) => a.idx + 1 \in 1 .. Len(phases)
    BY <1>0, <1>2
  <2>4. CASE z.idx = a.idx
    <3>1. z.remaining = a.remaining - 1
      BY <1>1, <1>2, <2>4
    <3>2. Offsets(phases)[z.idx] = Offsets(phases)[a.idx] /\ phases[z.idx] = phases[a.idx]
      BY <2>4
    <3>3. Offsets(phases)[a.idx] \in Int /\ phases[a.idx].iterations \in Nat /\ a.remaining \in Nat
      BY <1>0, <1>2, <2>1
    <3> QED
      BY <1>1, <1>2, <3>1, <3>2, <3>3
  <2>5. CASE z.idx # a.idx
    <3>1. /\ a.remaining = 1 /\ a.idx < Len(phases) /\ z.idx = a.idx + 1
          /\ z.remaining = phases[a.idx + 1].iterations
      BY <1>1, <2>5
    <3>2. phases[z.idx].iterations = z.remaining /\ z.remaining \in Nat
      BY <1>0, <2>3, <3>1
    <3>3. Offsets(phases)[z.idx] = Offsets(phases)[a.idx] + phases[a.idx].iterations
      BY <2>2, <3>1
    <3>4. Offsets(phases)[a.idx] \in Int /\ phases[a.idx].iterations \in Nat
      BY <1>0, <1>2, <2>1
    <3> QED
      BY <1>1, <1>2, <3>1, <3>2, <3>3, <3>4
  <2> QED
    BY <2>4, <2>5
<1>4. ~First(phases, z.idx, z.remaining)
  BY <1>0, <1>1, <1>2 DEF First
<1>5. z.idx \in 1 .. Len(phases) /\ z.remaining \in 0 .. phases[z.idx].iterations
  BY <1>0, <1>1, <1>2
<1>6. z.at = "end" => PlaceAt(z, "end") \in Barriers
  <2> SUFFICES ASSUME z.at = "end" PROVE PlaceAt(z, "end") \in Barriers
    OBVIOUS
  <2>1. /\ PlaceAt(z, "end").idx = a.idx /\ PlaceAt(z, "end").remaining = 0
        /\ PlaceAt(z, "end").at = "end" /\ PlaceAt(z, "end").request = "none"
        /\ PlaceAt(z, "end") \in
             [idx : Nat, remaining : Nat, at : Places, request : Requests \cup {"none"}]
    BY <1>0, <1>1, <1>2 DEF PlaceAt, Places
  <2>2. Blocks(PlaceAt(z, "end"))
    BY <1>0, <1>1, <1>2, <2>1 DEF Blocks
  <2> QED
    BY <2>1, <2>2 DEF Barriers
<1>7. z.initialPhase <=> First(phases, z.idx, z.remaining)
  BY <1>1, <1>4
<1> QED
  BY <1>3, <1>5, <1>6, <1>7 DEF LoopPlace, z

LEMMA TasksMove ==
  ASSUME Typed, NEW n \in Ranks, NEW a \in Actor, OnTheWay(a, phases, Barriers), OneTime(a, Due(n)),
         CanMove(a), a.at = "tasks"
  PROVE  GoodMove(a, Proceed(a), n)
<1> DEFINE z == Proceed(a)
<1>0. /\ Len(phases) \in Nat \ {0} /\ \A i \in 1 .. Len(phases) : phases[i].iterations \in Nat
  BY PhaseFacts DEF Typed
<1>1. /\ z \in Actor /\ z.done = a.done + 1 /\ z.initialPhase = FALSE /\ z.request = "none"
      /\ z.expands = a.expands /\ z.once = a.once
      /\ z.initializing = a.initializing /\ z.reconfiguring = a.reconfiguring
      /\ \/ a.remaining > 1 /\ z.at = "head" /\ z.idx = a.idx /\ z.remaining = a.remaining - 1
         \/ /\ a.remaining = 1 /\ a.idx = Len(phases) /\ z.at = "end"
            /\ z.idx = a.idx /\ z.remaining = 0
         \/ /\ a.remaining = 1 /\ a.idx < Len(phases) /\ z.at = "head"
            /\ z.idx = a.idx + 1 /\ z.remaining = phases[a.idx + 1].iterations
  BY AfterIteration
<1>2. /\ a.idx \in 1 .. Len(phases) /\ a.remaining \in 1 .. phases[a.idx].iterations
      /\ a.done = Offsets(phases)[a.idx] + phases[a.idx].iterations - a.remaining
  BY <1>0, ActorFacts DEF OnTheWay, Entry
<1> HIDE DEF z
<1>3. OneTime(z, Due(n))
  BY <1>1 DEF OneTime, Entry
<1>4. SameSide(a, z, Barriers)
  <2> SUFFICES ASSUME NEW b \in Barriers PROVE Before(b, a) <=> Before(b, z)
    BY DEF SameSide
  <2>1. ~(b.idx = a.idx /\ b.remaining = a.remaining /\ b.at = a.at)
    BY BarrierPlaces DEF CanMove
  <2>2. b.idx = a.idx + 1 => b.remaining <= phases[a.idx + 1].iterations
    BY <1>2, BarrierFacts
  <2>3. Order(b.at) \in 0 .. 5 /\ Order(a.at) = 5 /\ Order("head") = 0 /\ Order("end") = 1
    BY BarrierFacts DEF Order
  <2>4. Order(b.at) = 5 => b.at = "tasks"
    BY BarrierFacts DEF Order
  <2>5. b.idx \in Nat /\ b.remaining \in Nat
    BY BarrierFacts
  <2>6. b.remaining = 0 /\ b.idx # 0 => b.idx = Len(phases) /\ b.at = "end"
    BY BarrierFacts
  <2> QED
    BY SMTT(30), <1>0, <1>1, <1>2, <2>1, <2>2, <2>3, <2>4, <2>5, <2>6 DEF Before
<1>5. LoopPlace(z)
  BY IterationPlace DEF z
<1>6. OnTheWay(z, phases, Barriers)
  <2>1. \A b \in Barriers : Before(b, z) => b.at \notin {"leave", "end"}
    BY <1>4, StaysBefore
  <2> QED
    BY <1>1, <1>5, <2>1 DEF OnTheWay, Entry, LoopPlace
<1> QED
  BY <1>1, <1>3, <1>4, <1>6 DEF GoodMove, z

LEMMA Moves ==
  ASSUME Typed, NEW n \in Ranks, NEW a \in Actor, OnTheWay(a, phases, Barriers), OneTime(a, Due(n)),
         CanMove(a)
  PROVE  GoodMove(a, Proceed(a), n)
BY EntryMoves, ExpandMoves, HeadMoves, PhaseMoves, TasksMove DEF CanMove

-----------------------------------------------------------------------------
(* The barrier of the job.                                                 *)

\* Two actors at barriers are at the same one, since they are on the same side of either.
LEMMA SameBarrier ==
  ASSUME Typed, Phased, Aligned, NEW m \in Ranks, NEW n \in Ranks, Meets(actor[m]), Meets(actor[n])
  PROVE  Place(actor[m]) = Place(actor[n])
<1> DEFINE a == actor[m]
           c == actor[n]
<1>1. a \in Actor /\ c \in Actor
  BY NodeListRanks DEF Typed, TypeOK, Ranks
<1>2. Place(a) \in Barriers /\ Place(c) \in Barriers
  BY <1>1, BarrierPlaces DEF Aligned, Phased
<1>3. /\ Place(a).idx = a.idx /\ Place(a).remaining = a.remaining /\ Place(a).at = a.at
      /\ Place(c).idx = c.idx /\ Place(c).remaining = c.remaining /\ Place(c).at = c.at
  BY DEF Place
<1>4. /\ a.idx \in Nat /\ a.remaining \in Nat /\ c.idx \in Nat /\ c.remaining \in Nat
      /\ Order(a.at) \in 0 .. 5 /\ Order(c.at) \in 0 .. 5
  BY <1>1, <1>2, <1>3, ActorFacts, BarrierFacts
<1>5. ~Before(Place(a), a) /\ ~Before(Place(c), c)
  BY <1>3, <1>4 DEF Before
<1>6. ~Before(Place(a), c) /\ ~Before(Place(c), a)
  BY <1>2, <1>5 DEF Aligned, SameSide
<1>7. a.idx = c.idx /\ a.remaining = c.remaining /\ Order(a.at) = Order(c.at)
  BY <1>3, <1>4, <1>6 DEF Before
<1>8. a.at = c.at
  <2>1. /\ a.idx = 0 <=> a.at \in {"init", "reconfigure", "start"}
        /\ c.idx = 0 <=> c.at \in {"init", "reconfigure", "start"}
        /\ a.at \in {"leave", "phase", "tasks"} => a.remaining > 0
        /\ c.at \in {"leave", "phase", "tasks"} => c.remaining > 0
        /\ a.at = "end" => a.remaining = 0
        /\ c.at = "end" => c.remaining = 0
        /\ {a.at, c.at} \subseteq {"init", "reconfigure", "start", "leave", "phase", "tasks", "end"}
    BY <1>2, <1>3, BarrierFacts
  <2> QED
    BY <1>4, <1>7, <2>1 DEF Order
<1>9. a.request = c.request
  <2>1. Blocks(Place(a)) /\ Blocks(Place(c))
    BY <1>2 DEF Barriers
  <2>2. Place(a).request = a.request /\ Place(c).request = c.request
    BY DEF Place
  <2>3. a.at = "leave" => a.request = Request(a.idx, a.remaining)
    BY <1>3, <2>1, <2>2 DEF Blocks
  <2>4. c.at = "leave" => c.request = Request(c.idx, c.remaining)
    BY <1>3, <2>1, <2>2 DEF Blocks
  <2>5. (a.at # "leave" => a.request = "none") /\ (c.at # "leave" => c.request = "none")
    BY <1>3, <2>1, <2>2 DEF Blocks
  <2> QED
    BY <1>7, <1>8, <2>3, <2>4, <2>5
<1> QED
  BY <1>7, <1>8, <1>9 DEF Place

\* Where an actor goes from a barrier, whatever barrier it is.
LEMMA Beyond ==
  ASSUME Typed, NEW n \in Ranks, NEW a \in Actor, OnTheWay(a, phases, Barriers), OneTime(a, Due(n)),
         Meets(a)
  PROVE  /\ Proceed(a) \in Actor /\ Proceed(a).at \notin {"none", "init"}
         /\ OneTime(Proceed(a), Due(n))
         /\ Proceed(a).request = a.request
         /\ a.at # "tasks" =>
              /\ Proceed(a).idx = a.idx /\ Proceed(a).remaining = a.remaining
              /\ Proceed(a).initialPhase = a.initialPhase /\ Proceed(a).done = a.done
              /\ Proceed(a).at = CASE a.at = "init" -> "reconfigure" [] a.at = "reconfigure" -> "start"
                                   [] a.at = "start" -> "expand" [] a.at = "leave" -> "post"
                                   [] a.at = "phase" -> "tasks" [] a.at = "end" -> "finish"
<1>1. CASE a.at = "init"
  BY ZenonT(60), <1>1 DEF Proceed, OneTimePhase, Actor, Places, OneTime, Entry, Due, Typed, TypeOK
<1>2. CASE a.at = "reconfigure"
  BY ZenonT(60), <1>2 DEF Proceed, OneTimePhase, Actor, Places, OneTime, Entry, Due, Typed, TypeOK
<1>3. CASE a.at \in {"start", "leave", "phase", "end"}
  <2>1. Proceed(a) = [a EXCEPT !.at = CASE a.at = "start" -> "expand" [] a.at = "leave" -> "post"
                                        [] a.at = "phase" -> "tasks" [] a.at = "end" -> "finish"]
    BY <1>3 DEF Proceed
  <2>2. /\ Proceed(a) \in Actor /\ Proceed(a).request = a.request
        /\ Proceed(a).idx = a.idx /\ Proceed(a).remaining = a.remaining
        /\ Proceed(a).initialPhase = a.initialPhase /\ Proceed(a).done = a.done
        /\ Proceed(a).expands = a.expands /\ Proceed(a).once = a.once
        /\ Proceed(a).initializing = a.initializing /\ Proceed(a).reconfiguring = a.reconfiguring
        /\ Proceed(a).at = CASE a.at = "start" -> "expand" [] a.at = "leave" -> "post"
                             [] a.at = "phase" -> "tasks" [] a.at = "end" -> "finish"
    BY <1>3, <2>1 DEF Actor, Places
  <2>3. OneTime(Proceed(a), Due(n))
    BY <1>3, <2>2 DEF OneTime, Entry, Due, Typed, TypeOK
  <2> QED
    BY <1>3, <2>2, <2>3
<1>4. CASE a.at = "tasks"
  <2>1. a.request = "none"
    BY <1>4 DEF OnTheWay
  <2>2. OneTime(Proceed(a), Due(n))
    BY <1>4, AfterIteration DEF OneTime, Entry
  <2> QED
    BY <1>4, <2>1, <2>2, AfterIteration
<1> QED
  BY <1>1, <1>2, <1>3, <1>4 DEF Meets

\* It passes no other barrier on that way.
LEMMA PassesOne ==
  ASSUME Typed, NEW n \in Ranks, NEW a \in Actor, OnTheWay(a, phases, Barriers), OneTime(a, Due(n)),
         Meets(a), NEW b \in Barriers, Before(b, Proceed(a)), ~Before(b, a)
  PROVE  b.idx = a.idx /\ b.remaining = a.remaining /\ b.at = a.at
<1> DEFINE z == Proceed(a)
<1>0. /\ Len(phases) \in Nat \ {0} /\ \A i \in 1 .. Len(phases) : phases[i].iterations \in Nat
  BY PhaseFacts DEF Typed
<1>1. a.idx \in Nat /\ a.remaining \in Nat /\ z \in Actor /\ z.idx \in Nat /\ z.remaining \in Nat
  BY Beyond, ActorFacts
<1>2. /\ b.idx \in Nat /\ b.remaining \in Nat
      /\ b.idx = 0 <=> b.at \in {"init", "reconfigure", "start"}
      /\ b.at = "end" => b.remaining = 0
      /\ b.at \in {"leave", "phase", "tasks"} => b.remaining > 0
      /\ b.at \in {"init", "reconfigure", "start", "leave", "phase", "tasks", "end"}
  BY BarrierFacts
<1> HIDE DEF z
<1>3. CASE a.at # "tasks"
  <2>1. /\ z.idx = a.idx /\ z.remaining = a.remaining
        /\ z.at = CASE a.at = "init" -> "reconfigure" [] a.at = "reconfigure" -> "start"
                    [] a.at = "start" -> "expand" [] a.at = "leave" -> "post"
                    [] a.at = "phase" -> "tasks" [] a.at = "end" -> "finish"
    BY <1>3, Beyond DEF z
  <2>2. /\ b.idx = a.idx /\ b.remaining = a.remaining
        /\ ~(Order(b.at) < Order(a.at)) /\ Order(b.at) < Order(z.at)
    BY <1>1, <1>2, <2>1 DEF Before, z
  <2>3. /\ a.idx = 0 <=> a.at \in {"init", "reconfigure", "start"}
        /\ a.at = "end" => a.remaining = 0
        /\ a.at \in {"leave", "phase"} => a.remaining > 0
    <3>1. /\ Place(a) \in Barriers
          /\ Place(a).idx = a.idx /\ Place(a).remaining = a.remaining /\ Place(a).at = a.at
      BY BarrierPlaces DEF Place
    <3> QED
      BY <3>1, BarrierFacts
  <2>4. a.at \in {"init", "reconfigure", "start", "leave", "phase", "end"}
    BY <1>3 DEF Meets
  <2> QED
    BY <1>1, <1>2, <2>1, <2>2, <2>3, <2>4 DEF Order
<1>4. CASE a.at = "tasks"
  <2>1. \/ a.remaining > 1 /\ z.at = "head" /\ z.idx = a.idx /\ z.remaining = a.remaining - 1
        \/ /\ a.remaining = 1 /\ a.idx = Len(phases) /\ z.at = "end"
           /\ z.idx = a.idx /\ z.remaining = 0
        \/ /\ a.remaining = 1 /\ a.idx < Len(phases) /\ z.at = "head"
           /\ z.idx = a.idx + 1 /\ z.remaining = phases[a.idx + 1].iterations
    BY <1>4, AfterIteration DEF z
  <2>2. b.idx = a.idx + 1 => b.remaining <= phases[a.idx + 1].iterations
    BY <1>1, BarrierFacts
  <2>3. Order(b.at) \in 0 .. 5 /\ Order(a.at) = 5 /\ Order("head") = 0 /\ Order("end") = 1
    BY <1>4, BarrierFacts DEF Order
  <2>4. Order(b.at) = 5 => b.at = "tasks"
    BY <1>2 DEF Order
  <2>5. b.remaining = 0 /\ b.idx # 0 => b.idx = Len(phases) /\ b.at = "end"
    BY BarrierFacts
  <2>6. b.at = "end" => Order(b.at) = 1
    BY DEF Order
  <2>7. a.idx \in 1 .. Len(phases) /\ a.remaining > 0
    BY <1>4 DEF OnTheWay, Entry
  <2>8. Before(b, z) /\ ~Before(b, a)
    BY DEF z
  <2>9. b.idx = a.idx /\ b.remaining = a.remaining /\ Order(b.at) = 5
    BY <1>0, <1>1, <1>2, <2>1, <2>2, <2>3, <2>5, <2>6, <2>7, <2>8 DEF Before
  <2> QED
    BY <1>4, <2>4, <2>9
<1> QED
  BY <1>3, <1>4

LEMMA BeyondIsOnTheWay ==
  ASSUME Typed, NEW n \in Ranks, NEW a \in Actor, OnTheWay(a, phases, Barriers), OneTime(a, Due(n)),
         Meets(a)
  PROVE  OnTheWay(Proceed(a), phases, Barriers)
<1> DEFINE z == Proceed(a)
<1>1. \A b \in Barriers : Before(b, z) => /\ b.at = "leave" => /\ z.at = "post"
                                                               /\ b.idx = z.idx /\ b.remaining = z.remaining
                                          /\ b.at = "end" => z.at = "finish"
  <2> SUFFICES ASSUME NEW b \in Barriers, Before(b, z), b.at \in {"leave", "end"}
               PROVE  /\ b.at = "leave" => z.at = "post" /\ b.idx = z.idx /\ b.remaining = z.remaining
                      /\ b.at = "end" => z.at = "finish"
    OBVIOUS
  <2>1. ~Before(b, a)
    BY DEF OnTheWay, Meets
  <2>2. b.idx = a.idx /\ b.remaining = a.remaining /\ b.at = a.at
    BY <2>1, PassesOne
  <2> QED
    BY <2>2, Beyond
<1>2. CASE a.at # "tasks"
  <2>1. /\ z.idx = a.idx /\ z.remaining = a.remaining /\ z.request = a.request
        /\ z.initialPhase = a.initialPhase /\ z.done = a.done
        /\ z.at = CASE a.at = "init" -> "reconfigure" [] a.at = "reconfigure" -> "start"
                    [] a.at = "start" -> "expand" [] a.at = "leave" -> "post"
                    [] a.at = "phase" -> "tasks" [] a.at = "end" -> "finish"
    BY <1>2, Beyond
  <2> HIDE DEF z
  <2>2. PlaceAt(z, "leave") = PlaceAt(a, "leave") /\ PlaceAt(z, "end") = PlaceAt(a, "end")
    BY <2>1 DEF PlaceAt
  <2>3. a.at \in {"init", "reconfigure", "start", "leave", "phase", "end"}
    BY <1>2 DEF Meets
  <2>4. OnTheWay(z, phases, Barriers)
    BY <1>1, <2>1, <2>2, <2>3 DEF OnTheWay, Entry
  <2> QED
    BY <2>4 DEF z
<1>3. CASE a.at = "tasks"
  <2>1. /\ z \in Actor /\ z.done = a.done + 1 /\ z.initialPhase = FALSE /\ z.request = "none"
        /\ \/ a.remaining > 1 /\ z.at = "head" /\ z.idx = a.idx /\ z.remaining = a.remaining - 1
           \/ /\ a.remaining = 1 /\ a.idx = Len(phases) /\ z.at = "end"
              /\ z.idx = a.idx /\ z.remaining = 0
           \/ /\ a.remaining = 1 /\ a.idx < Len(phases) /\ z.at = "head"
              /\ z.idx = a.idx + 1 /\ z.remaining = phases[a.idx + 1].iterations
    BY <1>3, AfterIteration
  <2> HIDE DEF z
  <2>2. LoopPlace(z)
    BY <1>3, IterationPlace DEF z
  <2>3. OnTheWay(z, phases, Barriers)
    BY <1>1, <2>1, <2>2 DEF OnTheWay, Entry, LoopPlace
  <2> QED
    BY <2>3 DEF z
<1> QED
  BY <1>2, <1>3

\* Actors that are at one place come to one place.
LEMMA SameWayOn ==
  ASSUME Typed, NEW a \in Actor, NEW c \in Actor, NEW m \in Ranks, NEW n \in Ranks,
         OnTheWay(a, phases, Barriers), OneTime(a, Due(m)), Meets(a),
         OnTheWay(c, phases, Barriers), OneTime(c, Due(n)), Meets(c), Place(a) = Place(c)
  PROVE  SameSide(Proceed(a), Proceed(c), Barriers)
<1> DEFINE y == Proceed(a)
           z == Proceed(c)
<1>1. a.idx = c.idx /\ a.remaining = c.remaining /\ a.at = c.at
  BY DEF Place
<1>2. y.idx = z.idx /\ y.remaining = z.remaining /\ y.at = z.at
  <2>1. CASE a.at # "tasks"
    BY <1>1, <2>1, Beyond
  <2>2. CASE a.at = "tasks"
    <3>1. \/ a.remaining > 1 /\ y.at = "head" /\ y.idx = a.idx /\ y.remaining = a.remaining - 1
          \/ a.remaining = 1 /\ a.idx = Len(phases) /\ y.at = "end" /\ y.idx = a.idx /\ y.remaining = 0
          \/ /\ a.remaining = 1 /\ a.idx < Len(phases) /\ y.at = "head"
             /\ y.idx = a.idx + 1 /\ y.remaining = phases[a.idx + 1].iterations
      BY <2>2, AfterIteration
    <3>2. c.at = "tasks"
      BY <1>1, <2>2
    <3>3. \/ c.remaining > 1 /\ z.at = "head" /\ z.idx = c.idx /\ z.remaining = c.remaining - 1
          \/ c.remaining = 1 /\ c.idx = Len(phases) /\ z.at = "end" /\ z.idx = c.idx /\ z.remaining = 0
          \/ /\ c.remaining = 1 /\ c.idx < Len(phases) /\ z.at = "head"
             /\ z.idx = c.idx + 1 /\ z.remaining = phases[c.idx + 1].iterations
      BY <3>2, AfterIteration
    <3>4. a.idx \in Nat /\ a.remaining \in Nat /\ Len(phases) \in Nat
      BY ActorFacts, PhaseFacts DEF Typed
    <3> HIDE DEF y, z
    <3> QED
      BY <1>1, <3>1, <3>3, <3>4
  <2> QED
    BY <2>1, <2>2
<1> HIDE DEF y, z
<1>3. SameSide(y, z, Barriers)
  BY <1>2 DEF SameSide, Before
<1> QED
  BY <1>3 DEF y, z

-----------------------------------------------------------------------------
(* Steps within an incarnation.                                            *)

LEMMA SameIncarnation ==
  ASSUME UNCHANGED <<exec, phases, gained, argVars, kind>>
  PROVE  Barriers' = Barriers /\ Ranks' = Ranks /\ \A n : Due(n)' = Due(n)
<1>1. exec' = exec /\ phases' = phases /\ gained' = gained /\ argument' = argument /\ kind' = kind
  BY DEF argVars
<1>2. \A i, r : Request(i, r)' = Request(i, r)
  BY <1>1 DEF Request, RequestOf, Evaluates, EvolvingRequest, First
<1>3. \A b : Blocks(b)' <=> Blocks(b)
  BY <1>1, <1>2 DEF Blocks
<1> QED
  BY <1>1, <1>3 DEF Barriers, Ranks, Due

\* What a step of the actors has to keep as long as the job has not reported.
LEMMA KeepsOn ==
  ASSUME ApplicationInv, mail = "none", UNCHANGED <<exec, phases, gained, argVars, mail, kind>>,
         fault' \in {"none", "model", "request"},
         actor' \in [Nodes -> Actor], \A n \in Nodes \ Ranks : actor'[n] = actor[n],
         \A n \in Ranks : OnTheWay(actor'[n], phases, Barriers) /\ OneTime(actor'[n], Due(n)),
         \A m, n \in Ranks : SameSide(actor'[m], actor'[n], Barriers),
         actor'[exec[1]].at # "none",
         waiting' \subseteq Ranks, \A n \in waiting' : Meets(actor'[n]),
         expanding' \subseteq gained, \A n \in expanding' : MeetsExpanding(actor'[n])
  PROVE  ApplicationInv'
<1>1. Barriers' = Barriers /\ Ranks' = Ranks /\ \A n : Due(n)' = Due(n)
  BY SameIncarnation
<1>2. /\ exec' = exec /\ phases' = phases /\ gained' = gained /\ argument' = argument
      /\ cleared' = cleared /\ mail' = mail /\ kind' = kind
  BY DEF argVars
<1>3. Typed'
  BY <1>1, <1>2 DEF ApplicationInv, Typed, TypeOK
<1>4. Phased'
  BY <1>1 DEF Phased
<1>5. Waits'
  BY <1>2 DEF Waits, Meets, MeetsExpanding
<1>6. Progress'
  <2>1. (\A n \in Ranks : OnTheWay(actor[n], phases, Barriers))'
    BY <1>1, <1>2
  <2>2. (\A m, n \in Ranks : SameSide(actor[m], actor[n], Barriers))'
    BY <1>1
  <2>3. Leader'.at # "none" /\ mail' = "none"
    BY <1>2 DEF Leader
  <2> QED
    BY <2>1, <2>2, <2>3 DEF Progress, Aligned, Requests
<1> QED
  BY <1>3, <1>4, <1>5, <1>6 DEF ApplicationInv

LEMMA RankFacts ==
  ASSUME Typed
  PROVE  /\ Ranks \subseteq Nodes /\ exec[1] \in Ranks /\ IsFiniteSet(Ranks)
         /\ Cardinality(Ranks) = Len(exec)
         /\ \A n \in Nodes : actor[n] \in Actor
         /\ \A n \in Nodes : actor[n].at # "none" => n \in Ranks
BY NodeListRanks DEF Typed, TypeOK, Ranks

\* Some ranks that are at no barrier of the job move on.
LEMMA SomeMove ==
  ASSUME ApplicationInv, mail = "none", NEW S \in SUBSET Ranks,
         \A n \in S : CanMove(actor[n]),
         actor' \in [Nodes -> Actor], \A n \in S : actor'[n] = Proceed(actor[n]),
         \A n \in Nodes \ S : actor'[n] = actor[n],
         UNCHANGED <<exec, phases, gained, argVars, mail, kind, waiting>>,
         fault' \in {"none", "model", "request"},
         expanding' \subseteq expanding, expanding' \cap S = {}
  PROVE  ApplicationInv'
<1>1. Typed /\ Phased /\ Waits /\ Aligned
  BY DEF ApplicationInv, Progress
<1>2. \A n \in S : GoodMove(actor[n], actor'[n], n)
  BY <1>1, RankFacts, Moves DEF Aligned, Phased
<1>3. \A n \in Ranks : OnTheWay(actor'[n], phases, Barriers) /\ OneTime(actor'[n], Due(n))
  BY <1>1, <1>2, RankFacts DEF GoodMove, Aligned, Phased
<1>4. \A n \in Ranks : SameSide(actor[n], actor'[n], Barriers)
  BY <1>2, <1>1, RankFacts DEF GoodMove, SameSide
<1>5. \A m, n \in Ranks : SameSide(actor'[m], actor'[n], Barriers)
  BY <1>1, <1>4 DEF Aligned, SameSide
<1>6. actor'[exec[1]].at # "none"
  BY <1>1, <1>2, RankFacts DEF GoodMove, Aligned, Leader
<1>7. \A n \in waiting : n \notin S
  BY <1>1 DEF Waits, CanMove
<1>8. waiting' \subseteq Ranks /\ \A n \in waiting' : Meets(actor'[n])
  BY <1>1, <1>7, RankFacts DEF Typed, TypeOK, Waits
<1>9. expanding' \subseteq gained /\ \A n \in expanding' : MeetsExpanding(actor'[n])
  BY <1>1, RankFacts DEF Typed, TypeOK, Waits
<1>10. \A n \in Nodes \ Ranks : actor'[n] = actor[n]
  OBVIOUS
<1> QED
  BY <1>3, <1>5, <1>6, <1>8, <1>9, <1>10, KeepsOn

\* An actor that moves or waits belongs to a job that has not reported.
LEMMA StillWorks ==
  ASSUME ApplicationInv, NEW n \in Nodes, actor[n].at \notin {"none", "post", "finish"}
  PROVE  mail = "none" /\ n \in Ranks
<1>1. n \in Ranks /\ mail \in Requests \cup {"none", "WORKLOAD_PROCESSED"}
  BY RankFacts DEF ApplicationInv, Typed, TypeOK
<1> QED
  BY <1>1 DEF ApplicationInv, Progress

LEMMA StepKeeps == ASSUME ApplicationInv, NEW n \in Nodes, Step(n) PROVE ApplicationInv'
<1>1. mail = "none" /\ n \in Ranks /\ actor[n] \in Actor /\ actor \in [Nodes -> Actor]
  BY StillWorks, RankFacts DEF Step, ApplicationInv, Typed, TypeOK
<1>2. CanMove(actor[n])
  BY <1>1 DEF Step, Meets, CanMove, Actor, Places
<1>3. fault' \in {"none", "model", "request"}
  BY DEF Step, RequestFault
<1>4. Proceed(actor[n]) \in Actor
  BY <1>1, <1>2, Moves DEF GoodMove, ApplicationInv, Progress, Aligned, Phased
<1>5. /\ actor' \in [Nodes -> Actor] /\ actor'[n] = Proceed(actor[n])
      /\ \A m \in Nodes \ {n} : actor'[m] = actor[m]
  BY <1>1, <1>4 DEF Step
<1>6. n \notin expanding
  BY DEF ApplicationInv, Waits, Step
<1>7. /\ UNCHANGED <<exec, phases, gained, argVars, mail, kind, waiting>>
      /\ expanding' \subseteq expanding /\ expanding' \cap {n} = {}
  BY <1>6 DEF Step
<1> QED
  BY <1>1, <1>2, <1>3, <1>5, <1>7, SomeMove

LEMMA WaitExpandingKeeps ==
  ASSUME ApplicationInv, NEW n \in Nodes, WaitExpanding(n)
  PROVE  ApplicationInv'
<1> DEFINE S == expanding \cup {n}
<1>1. actor[n].at = "expand" /\ mail = "none" /\ n \in Ranks /\ actor \in [Nodes -> Actor]
  BY StillWorks DEF WaitExpanding, MeetsExpanding, ApplicationInv, Typed, TypeOK
<1>2. /\ S \in SUBSET Ranks /\ n \in gained
      /\ \A m \in S : MeetsExpanding(actor[m]) /\ CanMove(actor[m])
  <2>1. \A m \in S : MeetsExpanding(actor[m])
    BY DEF ApplicationInv, Waits, WaitExpanding
  <2>2. \A m \in S : CanMove(actor[m])
    BY <2>1 DEF MeetsExpanding, CanMove, Meets
  <2>3. n \in gained
    BY <1>1 DEF ApplicationInv, Phased, OneTime, Due, WaitExpanding, MeetsExpanding, Typed, TypeOK
  <2> QED
    BY <1>1, <2>1, <2>2, <2>3 DEF ApplicationInv, Typed, TypeOK
<1>3. /\ UNCHANGED <<exec, phases, gained, argVars, mail, kind, waiting, fault>>
      /\ fault' \in {"none", "model", "request"}
  BY DEF WaitExpanding, ApplicationInv, Typed, TypeOK
<1>4. CASE Cardinality(S) = Cardinality(gained)
  <2>1. actor' = [m \in Nodes |-> IF m \in S THEN Proceed(actor[m]) ELSE actor[m]] /\ expanding' = {}
    BY <1>4 DEF WaitExpanding, Barrier, After
  <2>2. \A m \in S : Proceed(actor[m]) \in Actor
    BY <1>1, <1>2, RankFacts, Moves DEF GoodMove, ApplicationInv, Progress, Aligned, Phased
  <2>3. /\ actor' \in [Nodes -> Actor]
        /\ \A m \in S : actor'[m] = Proceed(actor[m])
        /\ \A m \in Nodes \ S : actor'[m] = actor[m]
    BY <1>1, <1>2, <2>1, <2>2, RankFacts DEF ApplicationInv
  <2> HIDE DEF S
  <2> QED
    BY <1>1, <1>2, <1>3, <2>1, <2>3, SomeMove
<1>5. CASE Cardinality(S) # Cardinality(gained)
  <2>1. actor' = actor /\ expanding' = S
    BY <1>5 DEF WaitExpanding, Barrier, After
  <2>2. Typed /\ Phased /\ Waits /\ Aligned
    BY <1>1 DEF ApplicationInv, Progress
  <2>3. expanding' \subseteq gained /\ \A m \in expanding' : MeetsExpanding(actor'[m])
    BY <1>2, <2>1, <2>2 DEF Typed, TypeOK
  <2>4. waiting' \subseteq Ranks /\ \A m \in waiting' : Meets(actor'[m])
    BY <1>3, <2>1, <2>2 DEF Typed, TypeOK, Waits
  <2>5. \A m \in Ranks : OnTheWay(actor'[m], phases, Barriers) /\ OneTime(actor'[m], Due(m))
    BY <2>1, <2>2 DEF Aligned, Phased
  <2>6. (\A l, m \in Ranks : SameSide(actor'[l], actor'[m], Barriers)) /\ actor'[exec[1]].at # "none"
    BY <2>1, <2>2 DEF Aligned, Leader
  <2>7. actor' \in [Nodes -> Actor] /\ \A m \in Nodes \ Ranks : actor'[m] = actor[m]
    BY <1>1, <2>1
  <2> QED
    BY <1>1, <1>3, <2>3, <2>4, <2>5, <2>6, <2>7, KeepsOn
<1> QED
  BY <1>4, <1>5

\* The barrier lets go all ranks, which wait at one place, or keeps one more.
LEMMA WaitKeeps == ASSUME ApplicationInv, NEW n \in Nodes, Wait(n) PROVE ApplicationInv'
<1> DEFINE S == waiting \cup {n}
<1>1. /\ Meets(actor[n]) /\ mail = "none" /\ n \in Ranks
      /\ actor \in [Nodes -> Actor]
  BY StillWorks DEF Wait, Meets, ApplicationInv, Typed, TypeOK
<1>2. Typed /\ Phased /\ Waits /\ Aligned
  BY <1>1 DEF ApplicationInv, Progress
<1>3. S \in SUBSET Ranks /\ \A m \in S : Meets(actor[m])
  BY <1>1, <1>2 DEF Typed, TypeOK, Waits
<1>4. /\ UNCHANGED <<exec, phases, gained, argVars, mail, kind, expanding, fault>>
      /\ fault' \in {"none", "model", "request"}
  BY <1>2 DEF Wait, Typed, TypeOK
<1>5. CASE Cardinality(S) = Len(exec)
  <2>1. S = Ranks
    BY <1>2, <1>3, <1>5, RankFacts, FS_Subset
  <2>2. /\ actor' = [m \in Nodes |-> IF m \in S THEN Proceed(actor[m]) ELSE actor[m]]
        /\ waiting' = {}
    BY <1>5 DEF Wait, Barrier, After
  <2>3. \A m \in Ranks : /\ actor[m] \in Actor /\ OnTheWay(actor[m], phases, Barriers)
                         /\ OneTime(actor[m], Due(m)) /\ Meets(actor[m])
    BY <1>2, <1>3, <2>1, RankFacts DEF Aligned, Phased
  <2>4. \A m \in Ranks : /\ actor'[m] = Proceed(actor[m]) /\ Proceed(actor[m]) \in Actor
                         /\ Proceed(actor[m]).at \notin {"none", "init"}
                         /\ OneTime(Proceed(actor[m]), Due(m))
    BY <1>2, <2>1, <2>2, <2>3, Beyond, RankFacts
  <2>5. actor' \in [Nodes -> Actor] /\ \A m \in Nodes \ Ranks : actor'[m] = actor[m]
    BY <1>1, <1>2, <2>1, <2>2, <2>4, RankFacts
  <2>6. \A m \in Ranks : OnTheWay(actor'[m], phases, Barriers) /\ OneTime(actor'[m], Due(m))
    BY <1>2, <2>3, <2>4, BeyondIsOnTheWay
  <2>7. \A l, m \in Ranks : SameSide(actor'[l], actor'[m], Barriers)
    <3> SUFFICES ASSUME NEW l \in Ranks, NEW m \in Ranks
                 PROVE  SameSide(actor'[l], actor'[m], Barriers)
      OBVIOUS
    <3>1. Place(actor[l]) = Place(actor[m])
      BY <1>2, <2>3, SameBarrier
    <3>2. SameSide(Proceed(actor[l]), Proceed(actor[m]), Barriers)
      BY <1>2, <2>3, <3>1, SameWayOn
    <3> QED
      BY <2>4, <3>2
  <2>8. actor'[exec[1]].at # "none"
    BY <1>2, <2>4, RankFacts
  <2>9. expanding = {}
    <3>1. \A m \in expanding : m \in Ranks /\ actor[m].at = "expand"
      BY <1>2 DEF Typed, TypeOK, Waits, MeetsExpanding
    <3> QED
      BY <2>3, <3>1 DEF Meets
  <2> HIDE DEF S
  <2> QED
    BY <1>1, <1>4, <2>2, <2>5, <2>6, <2>7, <2>8, <2>9, KeepsOn
<1>6. CASE Cardinality(S) # Len(exec)
  <2>1. actor' = actor /\ waiting' = S
    BY <1>6 DEF Wait, Barrier, After
  <2>2. waiting' \subseteq Ranks /\ \A m \in waiting' : Meets(actor'[m])
    BY <1>3, <2>1
  <2>3. expanding' \subseteq gained /\ \A m \in expanding' : MeetsExpanding(actor'[m])
    BY <1>2, <1>4, <2>1 DEF Typed, TypeOK, Waits
  <2>4. \A m \in Ranks : OnTheWay(actor'[m], phases, Barriers) /\ OneTime(actor'[m], Due(m))
    BY <1>2, <2>1 DEF Aligned, Phased
  <2>5. (\A l, m \in Ranks : SameSide(actor'[l], actor'[m], Barriers)) /\ actor'[exec[1]].at # "none"
    BY <1>2, <2>1 DEF Aligned, Leader
  <2>6. actor' \in [Nodes -> Actor] /\ \A m \in Nodes \ Ranks : actor'[m] = actor[m]
    BY <1>1, <2>1
  <2> QED
    BY <1>1, <1>4, <2>2, <2>3, <2>4, <2>5, <2>6, KeepsOn
<1> QED
  BY <1>5, <1>6

-----------------------------------------------------------------------------
(* The end of an incarnation.                                              *)

\* When rank 0 is about to ask, or to report the end, every rank is past the barrier before
\* that, and past it there is nothing else to do.
LEMMA AllHaveLeft ==
  ASSUME Typed, Aligned, NEW s \in {"post", "finish"}, Leader.at = s
  PROVE  \A n \in Ranks : actor[n].at \in {s, "none"}
<1> DEFINE b == PlaceAt(Leader, IF s = "post" THEN "leave" ELSE "end")
<1>1. Leader \in Actor /\ exec[1] \in Ranks
  BY RankFacts DEF Leader
<1>2. OnTheWay(Leader, phases, Barriers)
  BY <1>1 DEF Aligned, Leader
<1>3. /\ b \in Barriers /\ b.idx = Leader.idx /\ b.remaining = Leader.remaining
      /\ b.at = IF s = "post" THEN "leave" ELSE "end"
  BY <1>2 DEF OnTheWay, PlaceAt
<1> HIDE DEF b
<1>4. Before(b, Leader)
  BY <1>3 DEF Before, Order
<1>5. \A n \in Ranks : Before(b, actor[n])
  BY <1>1, <1>3, <1>4 DEF Aligned, SameSide, Leader
<1> QED
  BY <1>3, <1>5 DEF Aligned, OnTheWay

\* An actor that ends after its barrier stays on the same side of every other.
LEMMA EndMoves ==
  ASSUME Typed, NEW n \in Ranks, NEW a \in Actor, OnTheWay(a, phases, Barriers), OneTime(a, Due(n)),
         a.at \in {"post", "finish"}, NEW z, z = [a EXCEPT !.at = "none"]
  PROVE  /\ z \in Actor /\ OnTheWay(z, phases, Barriers) /\ OneTime(z, Due(n))
         /\ SameSide(a, z, Barriers)
<1>1. /\ z \in Actor /\ z.at = "none" /\ z.idx = a.idx /\ z.remaining = a.remaining
      /\ z.initialPhase = a.initialPhase /\ z.done = a.done /\ z.expands = a.expands
      /\ z.initializing = a.initializing /\ z.reconfiguring = a.reconfiguring
  BY DEF Actor, Places
<1>2. SameSide(a, z, Barriers)
  <2> SUFFICES ASSUME NEW b \in Barriers PROVE Before(b, a) <=> Before(b, z)
    BY DEF SameSide
  <2>1. a.idx # 0
    BY PhaseFacts DEF Typed, OnTheWay, Entry
  <2>2. b.idx = a.idx => Order(b.at) # 2
    BY <2>1, BarrierFacts DEF Order
  <2>3. Order(a.at) = 2 /\ Order(z.at) = 3 /\ Order(b.at) \in 0 .. 5
    BY <1>1, BarrierFacts DEF Order
  <2> QED
    BY <1>1, <2>2, <2>3 DEF Before
<1>3. \A b \in Barriers :
        Before(b, z) /\ b.at = "leave" => b.idx = z.idx /\ b.remaining = z.remaining
  BY <1>1, <1>2 DEF OnTheWay, SameSide
<1>4. OnTheWay(z, phases, Barriers)
  BY <1>1, <1>3 DEF OnTheWay, Entry
<1>5. OneTime(z, Due(n))
  BY <1>1 DEF OneTime, Entry
<1> QED
  BY <1>1, <1>2, <1>4, <1>5

\* ... and, unless it is that of rank 0, changes nothing else.
LEMMA OtherEnds ==
  ASSUME ApplicationInv, NEW n \in Ranks, n # exec[1], actor[n].at \in {"post", "finish"}, End(n),
         UNCHANGED <<exec, phases, waiting, expanding, gained, argVars, mail, fault, kind>>
  PROVE  ApplicationInv'
<1>0. /\ Typed /\ Phased /\ Waits /\ actor \in [Nodes -> Actor] /\ n \in Nodes /\ actor[n] \in Actor
  BY RankFacts DEF ApplicationInv, Typed, TypeOK
<1>1. /\ actor'[n] = [actor[n] EXCEPT !.at = "none"] /\ \A m \in Nodes \ {n} : actor'[m] = actor[m]
      /\ actor' \in [Nodes -> Actor]
  BY <1>0 DEF End, Actor, Places
<1>2. n \notin waiting /\ n \notin expanding
  BY <1>0 DEF Waits, Meets, MeetsExpanding
<1>3. CASE mail = "none"
  <2>1. Aligned
    BY <1>3 DEF ApplicationInv, Progress
  <2>2. /\ OnTheWay(actor'[n], phases, Barriers) /\ OneTime(actor'[n], Due(n))
        /\ SameSide(actor[n], actor'[n], Barriers)
    BY <1>0, <1>1, <2>1, EndMoves DEF Aligned, Phased
  <2>3. \A m \in Ranks : /\ OnTheWay(actor'[m], phases, Barriers) /\ OneTime(actor'[m], Due(m))
                         /\ SameSide(actor[m], actor'[m], Barriers)
    BY <1>0, <1>1, <2>1, <2>2, RankFacts DEF Aligned, Phased, SameSide
  <2>4. \A l, m \in Ranks : SameSide(actor'[l], actor'[m], Barriers)
    BY <2>1, <2>3 DEF Aligned, SameSide
  <2>5. actor'[exec[1]].at # "none"
    BY <1>0, <1>1, <2>1, RankFacts DEF Aligned, Leader
  <2>6. /\ waiting' \subseteq Ranks /\ \A m \in waiting' : Meets(actor'[m])
        /\ expanding' \subseteq gained /\ \A m \in expanding' : MeetsExpanding(actor'[m])
    BY <1>0, <1>1, <1>2, RankFacts DEF Typed, TypeOK, Waits
  <2>7. fault' \in {"none", "model", "request"} /\ \A m \in Nodes \ Ranks : actor'[m] = actor[m]
    BY <1>0, <1>1 DEF Typed, TypeOK
  <2> QED
    BY <1>1, <1>3, <2>3, <2>4, <2>5, <2>6, <2>7, KeepsOn
<1>4. CASE mail # "none"
  <2>1. Ranks' = Ranks /\ \A m : Due(m)' = Due(m)
    BY SameIncarnation
  <2>2. /\ exec' = exec /\ phases' = phases /\ gained' = gained /\ argument' = argument
        /\ cleared' = cleared /\ mail' = mail /\ kind' = kind /\ fault' = fault
        /\ waiting' = waiting /\ expanding' = expanding
    BY DEF argVars
  <2>3. OneTime(actor'[n], Due(n))
    <3>1. OneTime(actor[n], Due(n))
      BY <1>0 DEF Phased
    <3> QED
      BY <1>0, <1>1, <3>1 DEF OneTime, Entry, Actor
  <2>4. Phased'
    BY <1>0, <1>1, <2>1, <2>3, RankFacts DEF Phased
  <2>5. Typed'
    BY <1>0, <1>1, <2>1, <2>2, RankFacts DEF Typed, TypeOK
  <2>6. Waits'
    BY <1>0, <1>1, <1>2, <2>2, RankFacts DEF Waits, Meets, MeetsExpanding, Typed, TypeOK
  <2>7. Progress'
    <3>1. \A m \in Ranks : m \in Nodes /\ (actor'[m].at = actor[m].at \/ actor'[m].at = "none")
      BY ZenonT(60), <1>0, <1>1, RankFacts DEF Actor
    <3>2. Leader' = Leader /\ mail' = mail
      BY <1>0, <1>1, <2>2, RankFacts DEF Leader
    <3> QED
      BY <1>4, <2>1, <3>1, <3>2 DEF ApplicationInv, Progress
  <2> QED
    BY <2>4, <2>5, <2>6, <2>7 DEF ApplicationInv
<1> QED
  BY <1>3, <1>4

\* Once the job has reported nobody waits, and no node has a flag left.
LEMMA Reported ==
  ASSUME ApplicationInv, \A n \in Ranks : actor[n].at \in {"post", "finish", "none"}
  PROVE  /\ waiting = {} /\ expanding = {}
         /\ \A n \in Ranks : ~actor[n].initializing /\ ~actor[n].reconfiguring /\ ~actor[n].expands
<1>1. \A n \in Ranks : ~Meets(actor[n]) /\ ~MeetsExpanding(actor[n])
  BY DEF Meets, MeetsExpanding
<1>2. waiting = {} /\ expanding = {}
  BY <1>1 DEF ApplicationInv, Waits, Typed, TypeOK
<1>3. \A n \in Ranks : ~actor[n].initializing /\ ~actor[n].reconfiguring /\ ~actor[n].expands
  <2> SUFFICES ASSUME NEW n \in Ranks
               PROVE  ~actor[n].initializing /\ ~actor[n].reconfiguring /\ ~actor[n].expands
    OBVIOUS
  <2>1. OneTime(actor[n], Due(n)) /\ actor[n].at \notin Entry
    BY DEF ApplicationInv, Phased, Entry
  <2> QED
    BY <2>1 DEF OneTime, Entry
<1> QED
  BY <1>2, <1>3

\* Rank 0 keeps the progress and speaks for the job.
LEMMA LeaderEnds ==
  ASSUME ApplicationInv, NEW n, n = exec[1], NEW s \in {"post", "finish"}, actor[n].at = s, End(n),
         UNCHANGED <<exec, waiting, expanding, gained, argVars, fault, kind>>,
         s = "post" => /\ phases' = Advance(phases, actor[n].idx - 1, actor[n].remaining)
                       /\ mail' = actor[n].request,
         s = "finish" => phases' = phases /\ mail' = "WORKLOAD_PROCESSED"
  PROVE  ApplicationInv'
<1>0. /\ Typed /\ Phased /\ Waits /\ n \in Ranks /\ n \in Nodes
      /\ actor[n] \in Actor /\ actor \in [Nodes -> Actor]
  BY RankFacts DEF ApplicationInv, Typed, TypeOK
<1>1. mail = "none" /\ Aligned
  BY DEF ApplicationInv, Progress, Leader
<1>2. \A m \in Ranks : actor[m].at \in {s, "none"}
  BY <1>0, <1>1, AllHaveLeft DEF Leader
<1>3. waiting = {} /\ expanding = {}
  BY <1>2, Reported
<1>4. /\ actor'[n] = [actor[n] EXCEPT !.at = "none"] /\ \A m \in Nodes \ {n} : actor'[m] = actor[m]
      /\ actor' \in [Nodes -> Actor] /\ actor'[n].at = "none"
  BY <1>0 DEF End, Actor, Places
<1>5. OneTime(actor'[n], Due(n))
  BY <1>0, <1>1, <1>4, EndMoves DEF Aligned, Phased
<1>6. /\ exec' = exec /\ gained' = gained /\ argument' = argument /\ cleared' = cleared
      /\ kind' = kind /\ fault' = fault /\ waiting' = {} /\ expanding' = {}
  BY <1>3 DEF argVars
<1>7. Ranks' = Ranks /\ \A m : Due(m)' = Due(m)
  BY <1>6 DEF Ranks, Due
<1>8. ~cleared
  BY <1>0, <1>1 DEF Typed, Requests
<1>9. /\ IsPhases(phases') /\ Len(phases') <= Len(phases)
      /\ mail' = IF s = "post" THEN actor[n].request ELSE "WORKLOAD_PROCESSED"
      /\ s = "post" => mail' \in Requests
  <2>1. CASE s = "post"
    <3>1. PlaceAt(actor[n], "leave") \in Barriers
      BY <1>0, <1>1, <2>1 DEF Aligned, OnTheWay
    <3>2. /\ actor[n].request # "none" /\ actor[n].idx \in 1 .. Len(phases)
          /\ actor[n].remaining \in Nat /\ actor[n].request \in Requests \cup {"none"}
      BY <1>0, <3>1, ActorFacts DEF Barriers, Blocks, PlaceAt
    <3>3. IsPhases(phases') /\ Len(phases') <= Len(phases)
      <4> DEFINE i == actor[n].idx
                 r == actor[n].remaining
      <4>1. IsPhases(phases) /\ i \in 1 .. Len(phases) /\ r \in Nat /\ phases' = Advance(phases, i - 1, r)
        BY <1>0, <2>1, <3>2 DEF Typed
      <4> HIDE DEF i, r
      <4> QED
        BY <4>1, AdvancedPhases
    <3> QED
      BY <2>1, <3>2, <3>3
  <2>2. CASE s = "finish"
    BY <1>0, <2>2, PhaseFacts DEF Typed
  <2> QED
    BY <2>1, <2>2
<1>10. \E w \in Workloads : Len(phases') <= Len(w)
  <2>1. PICK w \in Workloads : Len(phases) <= Len(w)
    BY <1>0 DEF Typed, TypeOK
  <2>2. Len(phases) \in Nat /\ Len(phases') \in Nat /\ Len(w) \in Nat
    BY <1>0, <1>9, ApplicationSpecification, LenProperties DEF Typed, IsPhases
  <2> QED
    BY <1>9, <2>1, <2>2
<1>11. TypeOK'
  BY <1>0, <1>4, <1>6, <1>7, <1>9, <1>10 DEF Typed, TypeOK
<1>12. Typed'
  BY <1>0, <1>4, <1>6, <1>7, <1>8, <1>9, <1>11 DEF Typed
<1>13. Phased'
  BY <1>0, <1>4, <1>5, <1>7, RankFacts DEF Phased
<1>14. Waits'
  BY <1>6 DEF Waits
<1>15. Progress'
  <2>1. \A m \in Ranks : m \in Nodes /\ actor'[m].at \in {s, "none"}
    BY <1>0, <1>2, <1>4, RankFacts
  <2>2. Leader'.at = "none"
    BY <1>4, <1>6 DEF Leader
  <2>3. /\ mail' # "none" /\ (mail' \in Requests <=> s = "post")
        /\ mail' = "WORKLOAD_PROCESSED" <=> s = "finish"
    BY <1>9 DEF Requests
  <2> QED
    BY <1>7, <2>1, <2>2, <2>3 DEF Progress
<1> QED
  BY <1>12, <1>13, <1>14, <1>15 DEF ApplicationInv

LEMMA PostKeeps ==
  ASSUME ApplicationInv, NEW n \in Nodes, PostRequest(n) \/ PostProcessed(n)
  PROVE  ApplicationInv'
<1>1. n \in Ranks /\ exec \in NodeLists
  BY RankFacts DEF PostRequest, PostProcessed, ApplicationInv, Typed, TypeOK
<1>2. CASE n = exec[1]
  <2>1. Rank(n) = 0
    BY <1>1, <1>2, RankZero
  <2>2. CASE PostRequest(n)
    BY <1>2, <2>1, <2>2, LeaderEnds DEF PostRequest
  <2>3. CASE PostProcessed(n)
    BY <1>2, <2>1, <2>3, LeaderEnds DEF PostProcessed
  <2> QED
    BY <2>2, <2>3
<1>3. CASE n # exec[1]
  <2>1. Rank(n) # 0
    BY <1>1, <1>3, RankZero
  <2> QED
    BY <1>1, <1>3, <2>1, OtherEnds DEF PostRequest, PostProcessed
<1> QED
  BY <1>2, <1>3

-----------------------------------------------------------------------------
(* A new incarnation.                                                      *)

LEMMA FreshFacts ==
  ASSUME NEW a \in Actor
  PROVE  /\ Fresh(a) \in Actor
         /\ Fresh(a).at = "init" /\ Fresh(a).idx = 0 /\ Fresh(a).remaining = 0
         /\ Fresh(a).initialPhase /\ Fresh(a).request = "none" /\ Fresh(a).done = 0
         /\ Fresh(a).once = {} /\ Fresh(a).initializing = a.initializing
         /\ Fresh(a).reconfiguring = a.reconfiguring /\ Fresh(a).expands = a.expands
BY DEF Fresh, Actor, Places

\* Nothing lies before its first place.
LEMMA FreshIsOnTheWay ==
  ASSUME NEW a \in Actor, NEW p, NEW B, \A b \in B : ~Before(b, Fresh(a))
  PROVE  OnTheWay(Fresh(a), p, B)
BY FreshFacts DEF OnTheWay, Entry

LEMMA NothingBefore ==
  ASSUME NEW a \in Actor, NEW b, b.idx \in Nat, b.remaining \in Nat, b.at \in Places,
         b.idx = 0 => b.remaining = 0
  PROVE  ~Before(b, Fresh(a))
<1>1. Order(b.at) \in 0 .. 5 /\ Order(Fresh(a).at) = 0
  BY FreshFacts DEF Order, Places
<1> QED
  BY <1>1, FreshFacts DEF Before

\* All actors of the job are new, with the flags their incarnation calls for.
LEMMA Begins ==
  ASSUME Typed', mail' = "none", waiting' = {}, expanding' = {},
         \A n \in Ranks' : \E a \in Actor : /\ actor'[n] = Fresh(a)
                                            /\ a.initializing <=> "init" \in Due(n)'
                                            /\ a.reconfiguring <=> "reconfigure" \in Due(n)'
                                            /\ a.expands <=> "expand" \in Due(n)'
  PROVE  ApplicationInv'
<1>1. Phased'
  <2> SUFFICES ASSUME NEW n \in Ranks' PROVE OneTime(actor'[n], Due(n)')
    BY DEF Phased
  <2>1. PICK a \in Actor : /\ actor'[n] = Fresh(a)
                           /\ a.initializing <=> "init" \in Due(n)'
                           /\ a.reconfiguring <=> "reconfigure" \in Due(n)'
                           /\ a.expands <=> "expand" \in Due(n)'
    OBVIOUS
  <2> QED
    BY ZenonT(60), <2>1, FreshFacts DEF OneTime, Entry
<1>2. \A b \in Barriers' : /\ b.idx \in Nat /\ b.remaining \in Nat /\ b.at \in Places
                           /\ b.idx = 0 => b.remaining = 0
  BY DEF Barriers, Blocks
<1>3. \A n \in Ranks' : OnTheWay(actor'[n], phases', Barriers') /\ actor'[n].at = "init"
                        /\ \A b \in Barriers' : ~Before(b, actor'[n])
  BY <1>2, NothingBefore, FreshIsOnTheWay, FreshFacts
<1>4. \A m, n \in Ranks' : SameSide(actor'[m], actor'[n], Barriers')
  BY <1>3 DEF SameSide
<1>5. exec'[1] \in Ranks'
  <2>1. exec' \in NodeLists
    BY DEF Typed, TypeOK
  <2> QED
    BY <2>1, NodeListRanks DEF Ranks
<1>6. Leader'.at # "none"
  BY <1>3, <1>5 DEF Leader
<1>7. Progress'
  BY <1>3, <1>4, <1>6 DEF Progress, Aligned, Requests
<1>8. Waits'
  BY DEF Waits
<1> QED
  BY <1>1, <1>7, <1>8 DEF ApplicationInv

LEMMA ContinueKeeps == ASSUME ApplicationInv, Continue PROVE ApplicationInv'
<1>1. mail \in Requests /\ \A n \in Ranks : actor[n].at \in {"post", "none"}
  BY DEF Continue, Answerable, ApplicationInv, Progress
<1>2. /\ waiting = {} /\ expanding = {}
      /\ \A n \in Ranks : ~actor[n].initializing /\ ~actor[n].reconfiguring /\ ~actor[n].expands
  BY <1>1, Reported
<1>3. /\ exec' = exec /\ phases' = phases /\ gained' = gained /\ argument' = argument
      /\ cleared' = cleared /\ fault' = fault /\ waiting' = {} /\ expanding' = {}
      /\ mail' = "none" /\ kind' = "continued" /\ ~cleared
      /\ actor' = [n \in Nodes |-> IF n \in Ranks THEN Fresh(actor[n]) ELSE actor[n]]
  BY <1>2 DEF Continue, Answerable, argVars
<1>4. Ranks' = Ranks /\ \A n : Due(n)' = {}
  BY <1>3 DEF Ranks, Due
<1>5. /\ \A n \in Nodes : actor[n] \in Actor
      /\ \A n \in Ranks : n \in Nodes /\ actor'[n] = Fresh(actor[n])
      /\ \A n \in Nodes \ Ranks : actor'[n] = actor[n]
      /\ actor' \in [Nodes -> Actor]
  BY <1>3, RankFacts, FreshFacts DEF ApplicationInv
<1>6. Typed'
  BY <1>3, <1>4, <1>5 DEF ApplicationInv, Typed, TypeOK
<1> QED
  BY <1>2, <1>3, <1>4, <1>5, <1>6, Begins

\* The nodes that stay have the flag of a reconfiguration, those that come that of an
\* expansion too, and the others no actor.
LEMMA ReconfigureKeeps ==
  ASSUME ApplicationInv, NEW q \in NodeLists, Reconfigure(q)
  PROVE  ApplicationInv'
<1>1. mail \in Requests /\ \A n \in Ranks : actor[n].at \in {"post", "none"}
  BY DEF Reconfigure, Answerable, ApplicationInv, Progress
<1>2. \A n \in Ranks : ~actor[n].initializing /\ ~actor[n].reconfiguring /\ ~actor[n].expands
  BY <1>1, Reported
<1>3. /\ exec' = q /\ phases' = phases /\ gained' = ToSet(q) \ Ranks /\ argument' = argument
      /\ cleared' = cleared /\ fault' = fault /\ waiting' = {} /\ expanding' = {}
      /\ mail' = "none" /\ kind' = "reconfigured" /\ ~cleared
  BY DEF Reconfigure, Answerable, argVars
<1> DEFINE flagged(n) ==
      IF n \notin Ranks
      THEN [actor[n] EXCEPT !.initializing = FALSE, !.reconfiguring = TRUE, !.expands = TRUE]
      ELSE [actor[n] EXCEPT !.reconfiguring = TRUE]
<1>4. actor' = [n \in Nodes |-> IF n \notin ToSet(q) THEN [actor[n] EXCEPT !.at = "none"]
                                ELSE Fresh(flagged(n))]
  BY DEF Reconfigure
<1>5. Ranks' = ToSet(q) /\ ToSet(q) \subseteq Nodes
  BY <1>3, NodeListRanks DEF Ranks
<1>6. \A n \in Nodes : actor[n] \in Actor
  BY RankFacts DEF ApplicationInv
<1>7. \A n \in Nodes : /\ flagged(n) \in Actor
                       /\ n \in Ranks => ~flagged(n).initializing /\ ~flagged(n).expands
                       /\ n \notin Ranks => ~flagged(n).initializing /\ flagged(n).expands
                       /\ flagged(n).reconfiguring
  BY <1>2, <1>6 DEF Actor
<1> HIDE DEF flagged
<1>8. \A n \in ToSet(q) : /\ Due(n)' = {"reconfigure"} \cup IF n \in gained' THEN {"expand"} ELSE {}
                          /\ n \in gained' <=> n \notin Ranks
  BY <1>3 DEF Due
<1>9. \A n \in Nodes : /\ n \in ToSet(q) => actor'[n] = Fresh(flagged(n))
                       /\ n \notin ToSet(q) => actor'[n].at = "none"
                       /\ actor'[n] \in Actor
  BY <1>4, <1>6, <1>7, FreshFacts DEF Actor, Places
<1>10. actor' \in [Nodes -> Actor]
  BY <1>4, <1>9
<1>11. Typed'
  BY <1>3, <1>5, <1>9, <1>10 DEF ApplicationInv, Typed, TypeOK
<1>12. \A n \in Ranks' : /\ flagged(n) \in Actor /\ actor'[n] = Fresh(flagged(n))
                         /\ flagged(n).initializing <=> "init" \in Due(n)'
                         /\ flagged(n).reconfiguring <=> "reconfigure" \in Due(n)'
                         /\ flagged(n).expands <=> "expand" \in Due(n)'
  BY <1>5, <1>7, <1>8, <1>9
<1> QED
  BY <1>3, <1>11, <1>12, Begins

\* The arguments matter to actors in their loop only, and then they do not change.
LEMMA ArgumentsKeep ==
  ASSUME ApplicationInv, mail \in Requests, argument' \in Arguments, cleared' \in BOOLEAN,
         UNCHANGED <<exec, phases, actor, waiting, expanding, gained, mail, fault, kind>>
  PROVE  ApplicationInv'
<1>1. Ranks' = Ranks /\ \A n : Due(n)' = Due(n)
  BY DEF Ranks, Due
<1>2. Typed' /\ Phased'
  BY <1>1 DEF ApplicationInv, Typed, TypeOK, Phased
<1>3. Waits'
  BY DEF ApplicationInv, Waits, Meets, MeetsExpanding
<1>4. Progress'
  BY <1>1 DEF ApplicationInv, Progress, Requests, Leader
<1> QED
  BY <1>2, <1>3, <1>4 DEF ApplicationInv

LEMMA StutterKeeps == ASSUME ApplicationInv, UNCHANGED vars PROVE ApplicationInv'
<1>1. /\ exec' = exec /\ phases' = phases /\ actor' = actor /\ waiting' = waiting
      /\ expanding' = expanding /\ gained' = gained /\ argument' = argument /\ cleared' = cleared
      /\ mail' = mail /\ fault' = fault /\ kind' = kind
  BY DEF vars, argVars
<1>2. Barriers' = Barriers /\ Ranks' = Ranks /\ \A n : Due(n)' = Due(n)
  BY <1>1, SameIncarnation DEF argVars
<1>3. Typed' /\ Phased'
  BY <1>1, <1>2 DEF ApplicationInv, Typed, TypeOK, Phased
<1>4. Waits'
  BY <1>1 DEF ApplicationInv, Waits, Meets, MeetsExpanding
<1>5. Progress'
  BY <1>1, <1>2 DEF ApplicationInv, Progress, Aligned, Leader
<1> QED
  BY <1>3, <1>4, <1>5 DEF ApplicationInv

LEMMA InitApplication == ASSUME Init PROVE ApplicationInv
<1> DEFINE a == [NoActor EXCEPT !.initializing = TRUE]
<1>1. /\ exec \in NodeLists /\ Ranks \subseteq Nodes /\ exec[1] \in Ranks
      /\ IsPhases(phases) /\ \E w \in Workloads : Len(phases) <= Len(w)
  <2>1. exec \in NodeLists
    BY ApplicationSpecification DEF Init
  <2>2. phases \in Workloads /\ IsPhases(phases) /\ Len(phases) \in Nat
    BY ApplicationSpecification, LenProperties DEF Init, IsPhases
  <2> QED
    BY <2>1, <2>2, NodeListRanks DEF Ranks
<1>2. a \in Actor /\ NoActor \in Actor /\ a.initializing /\ ~a.reconfiguring /\ ~a.expands
      /\ NoActor.at = "none"
  BY DEF NoActor, Actor, Places
<1> HIDE DEF a
<1>3. \A n \in Ranks : n \in Nodes /\ actor[n] = Fresh(a) /\ Due(n) = {"init"}
  BY <1>1 DEF Init, Due, a
<1>4. \A n \in Nodes \ Ranks : actor[n] = NoActor
  BY DEF Init
<1>5. actor \in [Nodes -> Actor]
  BY <1>2, FreshFacts DEF Init, a
<1>6. Typed
  BY <1>1, <1>2, <1>4, <1>5 DEF Init, Typed, TypeOK
<1>7. Phased
  <2> SUFFICES ASSUME NEW n \in Ranks PROVE OneTime(actor[n], Due(n))
    BY DEF Phased
  <2>1. actor[n] = Fresh(a) /\ Due(n) = {"init"}
    BY <1>3
  <2> QED
    BY <1>2, <2>1, FreshFacts DEF OneTime, Entry
<1>8. Waits
  BY DEF Init, Waits
<1>9. \A b \in Barriers : /\ b.idx \in Nat /\ b.remaining \in Nat /\ b.at \in Places
                          /\ b.idx = 0 => b.remaining = 0
  BY DEF Barriers, Blocks
<1>10. \A n \in Ranks : OnTheWay(actor[n], phases, Barriers) /\ actor[n].at = "init"
                        /\ \A b \in Barriers : ~Before(b, actor[n])
  BY <1>2, <1>3, <1>9, NothingBefore, FreshIsOnTheWay, FreshFacts
<1>11. Aligned
  BY <1>1, <1>10 DEF Aligned, SameSide, Leader
<1> QED
  BY <1>6, <1>7, <1>8, <1>11 DEF ApplicationInv, Progress, Requests, Init

-----------------------------------------------------------------------------
(* The invariant of every behaviour.                                       *)

LEMMA NextKeeps == ASSUME Polite, ApplicationInv, [Next]_vars PROVE ApplicationInv'
<1>1. CASE UNCHANGED vars
  BY <1>1, StutterKeeps
<1>2. ASSUME NEW n \in Nodes, Actors(n)
      PROVE  ApplicationInv'
  BY <1>2, StepKeeps, WaitKeeps, WaitExpandingKeeps, PostKeeps DEF Actors
<1>3. CASE Continue
  BY <1>3, ContinueKeeps
<1>4. CASE ClearArguments
  BY <1>4, ArgumentsKeep DEF ClearArguments, ApplicationInv, Typed, TypeOK
<1>5. CASE UpdateArguments
  BY <1>5, ArgumentsKeep DEF UpdateArguments, ApplicationInv, Typed
<1>6. ASSUME NEW q \in NodeLists, Reconfigure(q)
      PROVE  ApplicationInv'
  BY <1>6, ReconfigureKeeps
<1> QED
  BY <1>1, <1>2, <1>3, <1>4, <1>5, <1>6 DEF Next

\* The ranks of a job never part ways (see ApplicationInv): every barrier of an incarnation
\* is behind all of them or ahead of all of them, whatever the workload, the node lists the
\* job is reconfigured to and the arguments it is answered with.
THEOREM RanksStayInStep == ASSUME Polite PROVE Spec => []ApplicationInv
<1>1. Init => ApplicationInv
  BY InitApplication
<1>2. ApplicationInv /\ [Next]_vars => ApplicationInv'
  BY NextKeeps
<1> QED
  BY <1>1, <1>2, PTL DEF Spec

\* The type invariant of the application: the workload only gets shorter, and only the nodes
\* of the job wait, at the expand barrier only those it gained.
THEOREM ApplicationTypeCorrect == ASSUME Polite PROVE Spec => []TypeOK
<1>1. ApplicationInv => TypeOK
  BY DEF ApplicationInv, Typed
<1> QED
  BY <1>1, RanksStayInStep, PTL

\* The ranks that meet at the barrier of the job come from the same place of the same
\* iteration: none waits before a request where another waits at the end of the job.
THEOREM RanksMeetAtOnePlace == ASSUME Polite PROVE Spec => []SamePlace
<1>1. ASSUME ApplicationInv
      PROVE  SamePlace
  <2> SUFFICES ASSUME NEW m \in waiting, NEW n \in waiting
               PROVE  /\ actor[m].at = actor[n].at /\ actor[m].done = actor[n].done
                      /\ actor[m].request = actor[n].request
    BY DEF SamePlace
  <2>1. /\ Typed /\ m \in Ranks /\ n \in Ranks /\ m \in Nodes /\ n \in Nodes
        /\ Meets(actor[m]) /\ Meets(actor[n])
    BY <1>1, RankFacts DEF ApplicationInv, Typed, TypeOK, Waits
  <2>2. Aligned
    BY <1>1, <2>1, StillWorks DEF Meets, ApplicationInv, Progress
  <2>3. /\ OnTheWay(actor[m], phases, Barriers) /\ OneTime(actor[m], Due(m))
        /\ OnTheWay(actor[n], phases, Barriers) /\ OneTime(actor[n], Due(n))
    BY <1>1, <2>1, <2>2 DEF ApplicationInv, Phased, Aligned
  <2>4. Place(actor[m]) = Place(actor[n])
    BY <1>1, <2>1, <2>2, SameBarrier DEF ApplicationInv
  <2>5. /\ actor[m].idx = actor[n].idx /\ actor[m].remaining = actor[n].remaining
        /\ actor[m].at = actor[n].at /\ actor[m].request = actor[n].request
    BY <2>4 DEF Place
  <2>6. actor[m].done = actor[n].done
    BY <2>3, <2>5 DEF OnTheWay
  <2> QED
    BY <2>5, <2>6
<1> QED
  BY <1>1, RanksStayInStep, PTL

\* A rank in its loop has executed the one-time phases that the start of its incarnation
\* calls for, each once, and no others.
THEOREM OneTimePhasesAreDue == ASSUME Polite PROVE Spec => []OneTimePhases
<1>1. ApplicationInv => OneTimePhases
  BY DEF ApplicationInv, Phased, OneTime, OneTimePhases, Due
<1> QED
  BY <1>1, RanksStayInStep, PTL

\* Rank 0 shortens the workload only when every other rank has passed the barrier of the
\* request and will not read a phase again.
THEOREM PhasesAreDroppedLast == ASSUME Polite PROVE Spec => NoDanglingPhase
<1>1. ASSUME ApplicationInv, [Next]_vars, phases' # phases
      PROVE  \A n \in Ranks : actor[n].at \in {"post", "none"}
  <2>1. PICK n \in Nodes : PostRequest(n) /\ Rank(n) = 0
    BY <1>1 DEF vars, Next, Actors, Step, Wait, WaitExpanding, PostRequest, PostProcessed,
                Continue, ClearArguments, UpdateArguments, Reconfigure
  <2>2. n = exec[1] /\ Leader.at = "post"
    BY <1>1, <2>1, RankFacts, RankZero DEF PostRequest, ApplicationInv, Typed, TypeOK, Leader
  <2> QED
    BY <1>1, <2>2, AllHaveLeft DEF ApplicationInv, Progress
<1>2. ApplicationInv /\ [Next]_vars =>
        [phases' # phases => \A n \in Ranks : actor[n].at \in {"post", "none"}]_vars
  BY <1>1
<1> QED
  BY <1>2, RanksStayInStep, PTL DEF Spec, NoDanglingPhase

\* With an algorithm that changes the arguments of a job only in its answer to the job, no
\* rank evaluates a model while the arguments are being replaced.
THEOREM ModelsAreValid == ASSUME Polite PROVE Spec => []ModelsValid
<1>1. Init => ModelsValid
  BY DEF Init, ModelsValid
<1>2. ASSUME ApplicationInv, ModelsValid, [Next]_vars
      PROVE  ModelsValid'
  <2>1. ASSUME NEW n \in Nodes, Step(n)
        PROVE  fault' # "model"
    <3>1. mail = "none"
      BY <1>2, <2>1, StillWorks DEF Step
    <3>2. ~cleared
      BY <1>2, <3>1 DEF ApplicationInv, Typed, Requests
    <3> QED
      BY <2>1, <3>2 DEF Step, RequestFault
  <2> QED
    BY <1>2, <2>1 DEF ModelsValid, vars, Next, Actors, Wait, WaitExpanding, PostRequest,
       PostProcessed, Continue, ClearArguments, UpdateArguments, Reconfigure
<1> QED
  BY <1>1, <1>2, RanksStayInStep, PTL DEF Spec

-----------------------------------------------------------------------------
(* What the reports of the job rest on: the fairness of JobReports apart,  *)
(* some rank can go on until the job reports, and whoever goes on comes     *)
(* closer to it.                                                           *)

\* The guards of Actors.
Ready(n) ==
  \/ /\ actor[n].at \notin {"none", "post", "finish", "lost"}
     /\ ~Meets(actor[n]) /\ ~MeetsExpanding(actor[n])
  \/ Meets(actor[n]) /\ n \notin waiting
  \/ MeetsExpanding(actor[n]) /\ n \notin expanding
  \/ actor[n].at \in {"post", "finish"}

\* Behind an actor lie phases with iterations only; at one without it is about to be lost.
\* The actors that have ended have been at the barrier before that.
Behind(a) ==
  /\ \A i \in 1 .. a.idx - 1 : phases[i].iterations > 0
  /\ a.at = "head" => a.remaining > 0 \/ phases[a.idx].iterations = 0
  /\ a.at = "lost" => a.remaining = 0 /\ phases[a.idx].iterations = 0
  /\ a.at = "none" => PlaceAt(a, "leave") \in Barriers \/ PlaceAt(a, "end") \in Barriers

\* The last one to come to a barrier does not wait; the gained nodes pass theirs together.
Pending ==
  /\ waiting # Ranks
  /\ gained # {} => expanding # gained
  /\ mail = "none" => \A n \in Ranks : Behind(actor[n])
  /\ Synchronized /\ kind = "reconfigured" =>
       \A m, n \in gained : actor[m].at \in Entry <=> actor[n].at \in Entry

LEMMA BehindOn ==
  ASSUME Typed, NEW a \in Actor, OnTheWay(a, phases, Barriers), Behind(a),
         a.at \notin {"none", "post", "finish", "lost"}
  PROVE  Behind(Proceed(a))
<1>0. /\ Len(phases) \in Nat \ {0} /\ \A i \in 1 .. Len(phases) : phases[i].iterations \in Nat
  BY PhaseFacts DEF Typed
<1>1. a.idx \in Nat /\ a.remaining \in Nat /\ a.at \in Places
  BY ActorFacts
<1>2. CASE a.at \in {"init", "reconfigure", "start"}
  <2>1. Proceed(a).idx = 0 /\ Proceed(a).at \in {"reconfigure", "start", "expand"}
    BY <1>2 DEF Proceed, OneTimePhase, OnTheWay, Entry, Actor
  <2> QED
    BY <2>1 DEF Behind
<1>3. CASE a.at = "expand"
  <2>1. Proceed(a).idx = 1 /\ Proceed(a).at = "head" /\ Proceed(a).remaining = phases[1].iterations
    BY <1>3 DEF Proceed, OneTimePhase, Actor
  <2> QED
    BY <1>0, <2>1 DEF Behind
<1>4. CASE a.at = "head"
  <2>1. /\ Proceed(a).idx = a.idx /\ Proceed(a).remaining = a.remaining
        /\ Proceed(a).at = IF a.remaining = 0 THEN "lost"
                           ELSE IF RequestOf(a) = "none" THEN "phase" ELSE "leave"
    BY <1>4 DEF Proceed, AtHead, Actor
  <2> QED
    BY <1>1, <1>4, <2>1 DEF Behind
<1>5. CASE a.at \in {"leave", "phase", "end"}
  <2>1. Proceed(a).idx = a.idx /\ Proceed(a).at \in {"post", "tasks", "finish"}
    BY <1>5 DEF Proceed, Actor
  <2> QED
    BY <2>1 DEF Behind
<1>6. CASE a.at = "tasks"
  <2>1. a.idx \in 1 .. Len(phases) /\ a.remaining > 0 /\ a.remaining <= phases[a.idx].iterations
    BY <1>0, <1>6 DEF OnTheWay, Entry
  <2>2. phases[a.idx].iterations > 0
    BY <1>0, <1>1, <2>1
  <2>3. \/ a.remaining > 1 /\ Proceed(a).at = "head" /\ Proceed(a).idx = a.idx /\ Proceed(a).remaining = a.remaining - 1
        \/ Proceed(a).at = "end" /\ Proceed(a).idx = a.idx
        \/ /\ Proceed(a).at = "head" /\ a.idx < Len(phases)
           /\ Proceed(a).idx = a.idx + 1 /\ Proceed(a).remaining = phases[a.idx + 1].iterations
    BY <1>6, AfterIteration
  <2>4. a.idx < Len(phases) => a.idx + 1 \in 1 .. Len(phases)
    BY <1>0, <2>1
  <2> QED
    BY <1>0, <1>1, <2>1, <2>2, <2>3, <2>4 DEF Behind
<1> QED
  BY <1>1, <1>2, <1>3, <1>4, <1>5, <1>6 DEF Places

\* Where a rank comes to, it is in the entry of its incarnation unless it has passed the
\* barrier of the gained nodes.
LEMMA EntryOn ==
  ASSUME NEW a \in Actor, a.at \notin {"none", "post", "finish", "lost"}
  PROVE  Proceed(a).at \in Entry <=> a.at \in Entry /\ a.at # "expand"
<1>1. a.at \in Places
  BY ActorFacts
<1>2. CASE a.at \in {"init", "reconfigure", "start"}
  BY <1>2 DEF Proceed, OneTimePhase, Entry, Actor
<1>3. CASE a.at \in {"expand", "head", "leave", "phase", "end"}
  BY <1>3 DEF Proceed, OneTimePhase, AtHead, Entry, Actor
<1>4. CASE a.at = "tasks"
  BY <1>4 DEF Proceed, AfterTasks, Entry, Actor
<1> QED
  BY <1>1, <1>2, <1>3, <1>4 DEF Places

\* Ranks that go on from where they are and pass the barrier of the gained nodes together.
LEMMA GoingOnPends ==
  ASSUME ApplicationInv, Pending, NEW S \in SUBSET Ranks,
         mail = "none", actor' \in [Nodes -> Actor],
         \A n \in S : actor[n].at \notin {"none", "post", "finish", "lost"} /\ actor'[n] = Proceed(actor[n]),
         \/ S = gained /\ \A n \in S : actor[n].at = "expand"
         \/ Synchronized /\ kind = "reconfigured" => \A n \in gained \cap S : actor[n].at # "expand",
         \A n \in Nodes \ S : actor'[n] = actor[n],
         UNCHANGED <<exec, phases, gained, argVars, mail, kind>>,
         waiting' # Ranks, gained # {} => expanding' # gained
  PROVE  Pending'
<1>0. Typed /\ Aligned /\ Ranks \subseteq Nodes /\ gained \subseteq Ranks
  BY RankFacts DEF ApplicationInv, Progress, Typed
<1>1. Barriers' = Barriers /\ Ranks' = Ranks /\ phases' = phases /\ gained' = gained /\ kind' = kind
  BY SameIncarnation
<1>2. \A n \in Ranks : Behind(actor'[n])
  <2> SUFFICES ASSUME NEW n \in Ranks PROVE Behind(actor'[n])
    OBVIOUS
  <2>1. actor[n] \in Actor /\ OnTheWay(actor[n], phases, Barriers) /\ Behind(actor[n])
    BY <1>0, RankFacts DEF Aligned, Pending
  <2> QED
    BY <1>0, <2>1, BehindOn
<1>3. \A n \in Ranks : Behind(actor[n])'
  BY <1>1, <1>2 DEF Behind
<1>4. \A n \in S : actor'[n].at \in Entry <=> actor[n].at \in Entry /\ actor[n].at # "expand"
  BY <1>0, EntryOn, RankFacts
<1>5. ASSUME Synchronized, kind = "reconfigured", NEW m \in gained, NEW n \in gained
      PROVE  actor'[m].at \in Entry <=> actor'[n].at \in Entry
  <2>1. actor[m].at \in Entry <=> actor[n].at \in Entry
    BY <1>5 DEF Pending
  <2>2. \A l \in gained : l \notin S => actor'[l].at = actor[l].at
    BY <1>0
  <2>3. CASE S = gained /\ \A l \in S : actor[l].at = "expand"
    BY <1>4, <1>5, <2>3
  <2>4. CASE \A l \in gained \cap S : actor[l].at # "expand"
    BY <1>4, <1>5, <2>1, <2>2, <2>4
  <2> QED
    BY <1>5, <2>3, <2>4
<1> QED
  BY <1>1, <1>3, <1>5 DEF Pending

LEMMA NoneGoesPends ==
  ASSUME Pending, UNCHANGED <<exec, phases, actor, gained, argVars, mail, kind>>,
         waiting' # Ranks, gained # {} => expanding' # gained
  PROVE  Pending'
<1>1. Barriers' = Barriers /\ Ranks' = Ranks
  BY SameIncarnation
<1>2. \A n \in Ranks : Behind(actor[n])' <=> Behind(actor[n])
  BY <1>1 DEF Behind
<1> QED
  BY <1>1, <1>2 DEF Pending

\* A rank that is not at a barrier is not at that of the gained nodes either.
LEMMA StepPends == ASSUME ApplicationInv, Pending, NEW n \in Nodes, Step(n) PROVE Pending'
<1>1. mail = "none" /\ n \in Ranks /\ actor \in [Nodes -> Actor]
  BY StillWorks DEF Step, ApplicationInv, Typed, TypeOK
<1>2. ApplicationInv'
  BY StepKeeps
<1>3. actor' \in [Nodes -> Actor]
  BY <1>2 DEF ApplicationInv, Typed, TypeOK
<1>4. /\ actor[n].at \notin {"none", "post", "finish", "lost"} /\ ~MeetsExpanding(actor[n])
      /\ actor'[n] = Proceed(actor[n]) /\ \A m \in Nodes \ {n} : actor'[m] = actor[m]
      /\ UNCHANGED <<exec, phases, gained, argVars, mail, kind, waiting, expanding>>
  BY <1>1 DEF Step
<1>5. Synchronized /\ kind = "reconfigured" => \A m \in gained \cap {n} : actor[m].at # "expand"
  BY <1>1, <1>4 DEF MeetsExpanding, ApplicationInv, Phased, OneTime, Due, Entry
<1>6. waiting' # Ranks /\ (gained # {} => expanding' # gained)
  BY <1>4 DEF Pending
<1>7. {n} \in SUBSET Ranks
  BY <1>1
<1> DEFINE S == {n}
<1>8. /\ \A m \in S : actor[m].at \notin {"none", "post", "finish", "lost"} /\ actor'[m] = Proceed(actor[m])
      /\ \A m \in Nodes \ S : actor'[m] = actor[m]
      /\ Synchronized /\ kind = "reconfigured" => \A m \in gained \cap S : actor[m].at # "expand"
      /\ S \in SUBSET Ranks /\ UNCHANGED <<exec, phases, gained, argVars, mail, kind>>
  BY <1>4, <1>5, <1>7
<1> HIDE DEF S
<1> QED
  BY <1>1, <1>3, <1>6, <1>8, GoingOnPends

LEMMA WaitPends == ASSUME ApplicationInv, Pending, NEW n \in Nodes, Wait(n) PROVE Pending'
<1> DEFINE S == waiting \cup {n}
<1>1. mail = "none" /\ n \in Ranks /\ actor \in [Nodes -> Actor] /\ Ranks # {}
  BY StillWorks, RankFacts DEF Wait, Meets, ApplicationInv, Typed, TypeOK
<1>2. ApplicationInv'
  BY WaitKeeps
<1>3. actor' \in [Nodes -> Actor]
  BY <1>2 DEF ApplicationInv, Typed, TypeOK
<1>4. S \in SUBSET Ranks /\ \A m \in S : Meets(actor[m])
  BY <1>1 DEF ApplicationInv, Waits, Typed, TypeOK, Wait
<1>5. UNCHANGED <<exec, phases, gained, argVars, mail, kind, expanding>>
  BY DEF Wait
<1>6. \A m \in S : actor[m].at \notin {"none", "post", "finish", "lost", "expand"}
  BY <1>4 DEF Meets
<1>7. CASE Cardinality(S) = Len(exec)
  <2>1. waiting' = {} /\ actor' = [m \in Nodes |-> IF m \in S THEN Proceed(actor[m]) ELSE actor[m]]
    BY <1>7 DEF Wait, Barrier, After
  <2>2. /\ \A m \in S : actor'[m] = Proceed(actor[m])
        /\ \A m \in Nodes \ S : actor'[m] = actor[m]
    BY <1>1, <1>4, <2>1, RankFacts DEF ApplicationInv
  <2>3. waiting' # Ranks /\ (gained # {} => expanding' # gained)
    BY <1>1, <1>5, <2>1 DEF Pending
  <2>4. Synchronized /\ kind = "reconfigured" => \A m \in gained \cap S : actor[m].at # "expand"
    BY <1>6
  <2> HIDE DEF S
  <2> QED
    BY <1>1, <1>3, <1>4, <1>5, <1>6, <2>2, <2>3, <2>4, GoingOnPends
<1>8. CASE Cardinality(S) # Len(exec)
  <2>1. waiting' = S /\ actor' = actor
    BY <1>8 DEF Wait, Barrier, After
  <2>2. S # Ranks
    BY <1>8, RankFacts DEF ApplicationInv
  <2>3. waiting' # Ranks /\ (gained # {} => expanding' # gained)
    BY <1>5, <2>1, <2>2 DEF Pending
  <2> QED
    BY <1>1, <1>3, <1>5, <2>1, <2>3, NoneGoesPends
<1> QED
  BY <1>7, <1>8

LEMMA WaitExpandingPends ==
  ASSUME ApplicationInv, Pending, NEW n \in Nodes, WaitExpanding(n)
  PROVE  Pending'
<1> DEFINE S == expanding \cup {n}
<1>1. mail = "none" /\ n \in Ranks /\ actor \in [Nodes -> Actor]
  BY StillWorks DEF WaitExpanding, MeetsExpanding, ApplicationInv, Typed, TypeOK
<1>2. ApplicationInv'
  BY WaitExpandingKeeps
<1>3. actor' \in [Nodes -> Actor]
  BY <1>2 DEF ApplicationInv, Typed, TypeOK
<1>4. \A m \in S : MeetsExpanding(actor[m])
  BY DEF ApplicationInv, Waits, WaitExpanding
<1>5. n \in gained
  BY <1>1, <1>4 DEF ApplicationInv, Phased, OneTime, Due, MeetsExpanding, Typed, TypeOK
<1>6. S \subseteq gained /\ gained \subseteq Ranks /\ IsFiniteSet(gained)
  <2>1. gained \subseteq Ranks /\ IsFiniteSet(Ranks)
    BY RankFacts DEF ApplicationInv, Typed
  <2>2. IsFiniteSet(gained)
    BY <2>1, FS_Subset
  <2> QED
    BY <1>5, <2>1, <2>2 DEF ApplicationInv, Typed, TypeOK
<1>7. UNCHANGED <<exec, phases, gained, argVars, mail, kind, waiting>>
  BY DEF WaitExpanding
<1>8. CASE Cardinality(S) = Cardinality(gained)
  <2>1. expanding' = {} /\ actor' = [m \in Nodes |-> IF m \in S THEN Proceed(actor[m]) ELSE actor[m]]
    BY <1>8 DEF WaitExpanding, Barrier, After
  <2>2. S = gained
    BY <1>6, <1>8, FS_Subset
  <2>3. /\ \A m \in S : actor'[m] = Proceed(actor[m]) /\ actor[m].at = "expand"
        /\ \A m \in Nodes \ S : actor'[m] = actor[m]
    BY <1>1, <1>4, <1>6, <2>1, RankFacts DEF ApplicationInv, MeetsExpanding
  <2> HIDE DEF S
  <2> QED
    BY <1>1, <1>3, <1>6, <1>7, <2>1, <2>2, <2>3, GoingOnPends DEF Pending
<1>9. CASE Cardinality(S) # Cardinality(gained)
  <2>1. expanding' = S /\ actor' = actor
    BY <1>9 DEF WaitExpanding, Barrier, After
  <2>2. S # gained
    BY <1>9
  <2>3. waiting' # Ranks /\ (gained # {} => expanding' # gained)
    BY <1>7, <2>1, <2>2 DEF Pending
  <2> QED
    BY <1>1, <1>3, <1>7, <2>1, <2>3, NoneGoesPends
<1> QED
  BY <1>8, <1>9

\* An actor that ends was at the barrier before that, and is no longer in the entry.
LEMMA PostPends ==
  ASSUME ApplicationInv, Pending, NEW n \in Nodes, PostRequest(n) \/ PostProcessed(n)
  PROVE  Pending'
<1>1. /\ n \in Ranks /\ exec \in NodeLists /\ actor \in [Nodes -> Actor] /\ Typed
      /\ actor[n].at \in {"post", "finish"} /\ actor[n] \in Actor /\ gained \subseteq Nodes
  BY RankFacts DEF PostRequest, PostProcessed, ApplicationInv, Typed, TypeOK
<1>2. /\ actor'[n] = [actor[n] EXCEPT !.at = "none"] /\ actor'[n].at = "none"
      /\ \A m \in Nodes \ {n} : actor'[m] = actor[m]
      /\ UNCHANGED <<exec, waiting, expanding, gained, argVars, kind>>
  BY <1>1 DEF PostRequest, PostProcessed, End, Actor
<1>3. \A m \in gained : actor'[m].at \in Entry <=> actor[m].at \in Entry
  BY <1>1, <1>2 DEF Entry
<1>4. waiting' # Ranks' /\ (gained' # {} => expanding' # gained')
  BY <1>2 DEF Pending, Ranks
<1>5. ASSUME mail' = "none"
      PROVE  (\A m \in Ranks : Behind(actor[m]))'
  <2>1. ApplicationInv'
    BY PostKeeps
  <2>2. n # exec[1]
    BY <1>2, <1>5, <2>1 DEF ApplicationInv, Progress, Aligned, Leader
  <2>3. Rank(n) # 0
    BY <1>1, <2>2, RankZero
  <2>4. phases' = phases /\ mail = "none"
    BY <1>5, <2>3 DEF PostRequest, PostProcessed
  <2>5. Barriers' = Barriers /\ Ranks' = Ranks
    BY <1>2, <2>4, SameIncarnation
  <2>6. Behind(actor'[n])
    <3>1. OnTheWay(actor[n], phases, Barriers) /\ Behind(actor[n])
      BY <1>1, <2>4 DEF ApplicationInv, Progress, Aligned, Pending
    <3>2. actor'[n].idx = actor[n].idx /\ \A s : PlaceAt(actor'[n], s) = PlaceAt(actor[n], s)
      BY <1>1, <1>2 DEF PlaceAt, Actor
    <3> QED
      BY <1>1, <1>2, <3>1, <3>2 DEF OnTheWay, Behind
  <2>7. \A m \in Ranks : Behind(actor'[m])
    BY <1>1, <1>2, <2>4, <2>6, RankFacts DEF Pending
  <2> QED
    BY <2>4, <2>5, <2>7 DEF Behind
<1> QED
  BY <1>2, <1>3, <1>4, <1>5 DEF Pending

\* A new incarnation has everything before it.
LEMMA AnswerPends ==
  ASSUME ApplicationInv, Pending, Continue \/ \E q \in NodeLists : Reconfigure(q)
  PROVE  Pending'
<1>1. ApplicationInv'
  BY ContinueKeeps, ReconfigureKeeps
<1>2. /\ \A n \in Ranks' : actor'[n].at = "init" /\ actor'[n].idx = 0
      /\ waiting' # Ranks' /\ (gained' # {} => expanding' # gained')
      /\ kind' # "continued" => \A n \in gained' : actor'[n].at = "init"
  <2>1. CASE Continue
    <3>1. \A n \in Ranks : n \in Nodes /\ actor'[n] = Fresh(actor[n]) /\ actor[n] \in Actor
      BY <2>1, RankFacts DEF Continue, ApplicationInv
    <3> QED
      BY <2>1, <3>1, FreshFacts DEF Continue, Pending, Ranks
  <2>2. ASSUME NEW q \in NodeLists, Reconfigure(q)
        PROVE  /\ \A n \in Ranks' : actor'[n].at = "init" /\ actor'[n].idx = 0
               /\ waiting' = {} /\ expanding' = {}
    <3>1. exec' = q /\ waiting' = {} /\ expanding' = {} /\ Ranks' = ToSet(q) /\ ToSet(q) \subseteq Nodes
      BY <2>2, NodeListRanks DEF Reconfigure, Ranks
    <3>2. \A n \in Ranks' : \E a : actor'[n] = Fresh(a)
      BY <2>2, <3>1 DEF Reconfigure
    <3>3. \A n \in Ranks' : actor'[n] \in Actor
      BY <1>1, <3>1 DEF ApplicationInv, Typed, TypeOK
    <3>4. \A a : Fresh(a) \in Actor => Fresh(a).at = "init" /\ Fresh(a).idx = 0
      BY DEF Fresh, Actor
    <3> QED
      BY <3>1, <3>2, <3>3, <3>4
  <2>3. exec'[1] \in Ranks' /\ gained' \subseteq Ranks'
    <3>1. exec' \in NodeLists /\ gained' \subseteq Ranks'
      BY <1>1 DEF ApplicationInv, Typed, TypeOK
    <3> QED
      BY <3>1, NodeListRanks DEF Ranks
  <2> QED
    BY <2>1, <2>2, <2>3
<1>3. (\A n \in Ranks : Behind(actor[n]))'
  BY <1>2 DEF Behind
<1> QED
  BY <1>2, <1>3 DEF Pending

LEMMA NextPends == ASSUME Polite, ApplicationInv, Pending, [Next]_vars PROVE Pending'
<1>1. CASE UNCHANGED vars
  <2>1. Barriers' = Barriers /\ Ranks' = Ranks
    BY <1>1, SameIncarnation DEF vars
  <2> QED
    BY <1>1, <2>1 DEF vars, argVars, Pending, Behind
<1>2. ASSUME NEW n \in Nodes, Actors(n)
      PROVE  Pending'
  BY <1>2, StepPends, WaitPends, WaitExpandingPends, PostPends DEF Actors
<1>3. CASE Continue \/ \E q \in NodeLists : Reconfigure(q)
  BY <1>3, AnswerPends
<1>4. CASE ClearArguments \/ UpdateArguments
  <2>1. mail' = mail /\ mail # "none"
    BY <1>4 DEF ClearArguments, UpdateArguments, ApplicationInv, Typed, Requests
  <2> QED
    BY <1>4, <2>1 DEF ClearArguments, UpdateArguments, Pending, Ranks
<1> QED
  BY <1>1, <1>2, <1>3, <1>4 DEF Next

LEMMA AlwaysPending == ASSUME Polite PROVE Spec => []Pending
<1>1. Init => Pending
  <2> SUFFICES ASSUME Init PROVE Pending
    OBVIOUS
  <2>1. \A n \in Ranks : n \in Nodes /\ actor[n] = Fresh([NoActor EXCEPT !.initializing = TRUE])
    BY InitApplication, RankFacts DEF Init, ApplicationInv
  <2>2. \A n \in Ranks : actor[n].at = "init" /\ actor[n].idx = 0
    BY <2>1 DEF Fresh, NoActor
  <2>3. waiting = {} /\ Ranks # {} /\ gained = {}
    BY InitApplication, RankFacts DEF Init, ApplicationInv
  <2> QED
    BY <2>2, <2>3 DEF Pending, Behind
<1> QED
  BY <1>1, NextPends, RanksStayInStep, PTL DEF Spec

\* Where a rank waits at the barrier of the job, no rank has been that is not past it.
LEMMA WaitsAhead ==
  ASSUME Typed, Phased, Aligned, NEW m \in Ranks, Meets(actor[m]), NEW n \in Ranks
  PROVE  Place(actor[m]) \in Barriers /\ ~Before(Place(actor[m]), actor[n])
<1>1. actor[m] \in Actor /\ Place(actor[m]) \in Barriers
  BY RankFacts, BarrierPlaces DEF Aligned, Phased
<1>2. ~Before(Place(actor[m]), actor[m])
  BY <1>1, ActorFacts, BarrierFacts DEF Before, Place
<1> QED
  BY <1>1, <1>2 DEF Aligned, SameSide

\* Who waits for the gained nodes waits for one that is to come.
LEMMA ExpandingEnds ==
  ASSUME ApplicationInv, Pending, mail = "none", NEW c \in expanding
  PROVE  \E n \in Ranks : Ready(n)
<1>1. Typed /\ Phased /\ Waits /\ Aligned /\ gained \subseteq Ranks /\ expanding \subseteq gained
  BY DEF ApplicationInv, Progress, Typed, TypeOK
<1>2. actor[c].at = "expand" /\ actor[c].expands /\ Synchronized /\ c \in gained /\ c \in Ranks
  BY <1>1 DEF Waits, MeetsExpanding
<1>3. kind = "reconfigured"
  BY <1>1, <1>2 DEF Phased, OneTime, Due, Typed, TypeOK
<1>4. PICK m \in gained : m \notin expanding
  BY <1>1, <1>2 DEF Pending
<1>5. actor[m].at \in Entry
  BY <1>2, <1>3, <1>4 DEF Pending, Entry
<1>6. m \in Ranks /\ actor[m] \in Actor /\ OnTheWay(actor[m], phases, Barriers)
  BY <1>1, <1>4, RankFacts DEF Aligned
<1>7. ~Meets(actor[m])
  <2> SUFFICES ASSUME Meets(actor[m]) PROVE FALSE
    OBVIOUS
  <2>1. Place(actor[m]) \in Barriers /\ ~Before(Place(actor[m]), actor[c])
    BY <1>1, <1>2, <1>6, WaitsAhead
  <2>2. actor[c].idx = 0 /\ actor[c].remaining = 0 /\ actor[m].idx = 0 /\ actor[m].remaining = 0
    BY <1>1, <1>2, <1>5, <1>6 DEF Aligned, OnTheWay, Entry
  <2>3. Order(actor[c].at) = 3 /\ Order(actor[m].at) \in 0 .. 2
    BY <1>2, <1>5 DEF Order, Entry, Meets
  <2> QED
    BY <2>1, <2>2, <2>3 DEF Before, Place
<1> QED
  BY <1>4, <1>5, <1>6, <1>7 DEF Ready, Entry

\* Who has ended has rank 0 at the end of its incarnation too.
LEMMA EndedEnds ==
  ASSUME ApplicationInv, Pending, mail = "none", NEW n \in Ranks, actor[n].at = "none"
  PROVE  \E m \in Ranks : Ready(m)
<1>1. Typed /\ Aligned /\ exec[1] \in Ranks /\ Leader.at # "none"
  BY RankFacts DEF ApplicationInv, Progress, Aligned
<1>2. PICK s \in {"leave", "end"} : PlaceAt(actor[n], s) \in Barriers
  BY DEF Pending, Behind
<1>3. Before(PlaceAt(actor[n], s), actor[n])
  BY DEF PlaceAt, Before, Order
<1>4. Before(PlaceAt(actor[n], s), Leader)
  BY <1>1, <1>2, <1>3 DEF Aligned, SameSide, Leader
<1>5. PlaceAt(actor[n], s).at = s
  BY DEF PlaceAt
<1>6. Leader.at \in {"post", "finish"}
  BY <1>1, <1>2, <1>4, <1>5 DEF Aligned, OnTheWay, Leader
<1> QED
  BY <1>1, <1>6 DEF Ready, Leader

\* Nobody gets past a phase without iterations.
LEMMA LostTogether ==
  ASSUME ApplicationInv, Pending, mail = "none", NEW l \in Ranks, actor[l].at = "lost", NEW n \in Ranks
  PROVE  ~Meets(actor[n])
<1> SUFFICES ASSUME Meets(actor[n]) PROVE FALSE
  OBVIOUS
<1> DEFINE a == actor[l]
           c == actor[n]
<1>1. Typed /\ Phased /\ Aligned /\ a \in Actor /\ c \in Actor
  BY RankFacts DEF ApplicationInv, Progress
<1>2. /\ Place(c) \in Barriers /\ ~Before(Place(c), a)
      /\ Place(c).idx = c.idx /\ Place(c).remaining = c.remaining /\ Place(c).at = c.at
  BY <1>1, WaitsAhead DEF Place
<1>3. a.idx \in 1 .. Len(phases) /\ a.remaining = 0 /\ phases[a.idx].iterations = 0
  BY <1>1 DEF Aligned, OnTheWay, Entry, Pending, Behind
<1>4. /\ c.idx \in Nat /\ c.remaining \in Nat /\ a.idx \in Nat /\ a.remaining \in Nat
      /\ Len(phases) \in Nat
  BY <1>1, ActorFacts, PhaseFacts DEF Typed
<1>5. ~(c.idx < a.idx)
  BY <1>2 DEF Before
<1>6. CASE c.idx = a.idx
  BY <1>2, <1>3, <1>4, <1>6 DEF Barriers, Blocks
<1>7. CASE c.idx > a.idx
  <2>1. a.idx \in 1 .. c.idx - 1
    BY <1>3, <1>4, <1>7
  <2> QED
    BY <1>3, <2>1 DEF Pending, Behind
<1> QED
  BY <1>4, <1>5, <1>6, <1>7

\* As long as the job has not reported some rank can go on, or all of them are lost in a phase
\* without iterations: no rank is left at a barrier to which another will not come (the safety
\* part of JobReports).
Unblocked ==
  mail = "none" => \/ \E n \in Ranks : Ready(n)
                   \/ /\ \E i \in DOMAIN phases : phases[i].iterations = 0
                      /\ \A n \in Ranks : actor[n].at = "lost"

THEOREM NoRankIsBlocked == ASSUME Polite PROVE Spec => []Unblocked
<1>1. ASSUME ApplicationInv, Pending, mail = "none", ~ \E n \in Ranks : Ready(n)
      PROVE  /\ \E i \in DOMAIN phases : phases[i].iterations = 0
             /\ \A n \in Ranks : actor[n].at = "lost"
  <2>1. Typed /\ Aligned /\ waiting \subseteq Ranks
    BY <1>1 DEF ApplicationInv, Progress, Typed, TypeOK
  <2>2. \A n \in Ranks : \/ actor[n].at = "lost"
                         \/ Meets(actor[n]) /\ n \in waiting
    BY <1>1, ExpandingEnds, EndedEnds DEF Ready
  <2>3. PICK l \in Ranks : l \notin waiting
    BY <1>1, <2>1 DEF Pending
  <2>4. actor[l].at = "lost"
    BY <2>2, <2>3
  <2>5. \A n \in Ranks : actor[n].at = "lost"
    BY <1>1, <2>2, <2>4, LostTogether
  <2>6. actor[l].idx \in 1 .. Len(phases) /\ DOMAIN phases = 1 .. Len(phases)
    BY <2>1, <2>4, PhaseFacts DEF Aligned, OnTheWay, Entry, Typed
  <2>7. phases[actor[l].idx].iterations = 0
    BY <1>1, <2>4 DEF Pending, Behind
  <2> QED
    BY <2>5, <2>6, <2>7
<1>2. ApplicationInv /\ Pending => Unblocked
  BY <1>1 DEF Unblocked
<1> QED
  BY <1>2, RanksStayInStep, AlwaysPending, PTL

\* In an incarnation every rank goes forward only, at its own step or from a barrier.
RanksAdvance ==
  [][mail = "none" /\ mail' = "none" =>
       \A n \in Ranks : actor'[n] = actor[n] \/ Before(Place(actor[n]), actor'[n])]_vars

LEMMA ProceedsForward ==
  ASSUME Typed, NEW a \in Actor, OnTheWay(a, phases, Barriers),
         a.at \notin {"none", "post", "finish", "lost"}
  PROVE  Before(Place(a), Proceed(a))
<1>0. Place(a).idx = a.idx /\ Place(a).remaining = a.remaining /\ Place(a).at = a.at
  BY DEF Place
<1>1. a.idx \in Nat /\ a.remaining \in Nat /\ a.at \in Places
  BY ActorFacts
<1>2. CASE a.at \in {"init", "reconfigure", "start"}
  <2>1. /\ Proceed(a).idx = a.idx /\ Proceed(a).remaining = a.remaining
        /\ Proceed(a).at = CASE a.at = "init" -> "reconfigure" [] a.at = "reconfigure" -> "start"
                             [] a.at = "start" -> "expand"
    BY <1>2 DEF Proceed, OneTimePhase, Actor
  <2> QED
    BY <1>0, <1>1, <1>2, <2>1 DEF Before, Order
<1>3. CASE a.at = "expand"
  <2>1. Proceed(a).idx = 1 /\ a.idx = 0
    BY <1>3 DEF Proceed, OneTimePhase, Actor, OnTheWay, Entry
  <2> QED
    BY <1>0, <2>1 DEF Before
<1>4. CASE a.at \in {"head", "leave", "phase", "end"}
  <2>1. /\ Proceed(a).idx = a.idx /\ Proceed(a).remaining = a.remaining
        /\ a.at = "head" => Proceed(a).at \in {"lost", "phase", "leave"}
        /\ a.at = "leave" => Proceed(a).at = "post"
        /\ a.at = "phase" => Proceed(a).at = "tasks"
        /\ a.at = "end" => Proceed(a).at = "finish"
    BY <1>4 DEF Proceed, AtHead, Actor
  <2> QED
    BY <1>0, <1>1, <1>4, <2>1 DEF Before, Order
<1>5. CASE a.at = "tasks"
  <2>1. \/ Proceed(a).idx = a.idx /\ Proceed(a).remaining < a.remaining
        \/ Proceed(a).idx = a.idx + 1
    <3>1. \/ a.remaining > 1 /\ Proceed(a).idx = a.idx /\ Proceed(a).remaining = a.remaining - 1
          \/ a.remaining = 1 /\ Proceed(a).idx = a.idx /\ Proceed(a).remaining = 0
          \/ Proceed(a).idx = a.idx + 1
      BY <1>5, AfterIteration
    <3> QED
      BY <1>1, <3>1
  <2> QED
    BY <1>0, <1>1, <2>1 DEF Before
<1> QED
  BY <1>1, <1>2, <1>3, <1>4, <1>5 DEF Places

\* No rank is ever taken back within an incarnation, whatever the others do.
THEOREM RanksOnlyAdvance == ASSUME Polite PROVE Spec => RanksAdvance
<1>1. ASSUME ApplicationInv, mail = "none", mail' = "none", [Next]_vars, NEW n \in Ranks
      PROVE  actor'[n] = actor[n] \/ Before(Place(actor[n]), actor'[n])
  <2>1. /\ Typed /\ Waits /\ n \in Nodes /\ actor[n] \in Actor /\ actor \in [Nodes -> Actor]
        /\ OnTheWay(actor[n], phases, Barriers)
    BY <1>1, RankFacts DEF ApplicationInv, Progress, Aligned, Typed, TypeOK
  <2>2. ASSUME actor[n].at \notin {"none", "post", "finish", "lost"}, actor'[n] = Proceed(actor[n])
        PROVE  Before(Place(actor[n]), actor'[n])
    BY <2>1, <2>2, ProceedsForward
  <2>3. ASSUME NEW m \in Nodes, Step(m)
        PROVE  actor'[n] = actor[n] \/ Before(Place(actor[n]), actor'[n])
    BY <2>1, <2>2, <2>3 DEF Step
  <2>4. ASSUME NEW m \in Nodes, Wait(m)
        PROVE  actor'[n] = actor[n] \/ Before(Place(actor[n]), actor'[n])
    BY <2>1, <2>2, <2>4 DEF Wait, Barrier, Waits, Meets
  <2>5. ASSUME NEW m \in Nodes, WaitExpanding(m)
        PROVE  actor'[n] = actor[n] \/ Before(Place(actor[n]), actor'[n])
    BY <2>1, <2>2, <2>5 DEF WaitExpanding, Barrier, Waits, MeetsExpanding
  <2>6. ASSUME NEW m \in Nodes, PostRequest(m) \/ PostProcessed(m)
        PROVE  actor'[n] = actor[n] \/ Before(Place(actor[n]), actor'[n])
    <3>1. CASE n = m
      <4>1. /\ actor[n].at \in {"post", "finish"} /\ actor'[n].at = "none"
            /\ actor'[n].idx = actor[n].idx /\ actor'[n].remaining = actor[n].remaining
        BY <2>1, <2>6, <3>1 DEF PostRequest, PostProcessed, End, Actor
      <4> QED
        BY <4>1 DEF Before, Place, Order
    <3>2. CASE n # m
      BY <2>1, <2>6, <3>2 DEF PostRequest, PostProcessed, End
    <3> QED
      BY <3>1, <3>2
  <2>7. ~Continue /\ ~(\E q \in NodeLists : Reconfigure(q))
    BY <1>1 DEF Continue, Reconfigure, Answerable, Requests
  <2> QED
    BY <1>1, <2>3, <2>4, <2>5, <2>6, <2>7 DEF vars, Next, Actors, ClearArguments, UpdateArguments
<1>2. ApplicationInv /\ [Next]_vars =>
        [mail = "none" /\ mail' = "none" =>
           \A n \in Ranks : actor'[n] = actor[n] \/ Before(Place(actor[n]), actor'[n])]_vars
  BY <1>1
<1> QED
  BY <1>2, RanksStayInStep, PTL DEF Spec, RanksAdvance

-----------------------------------------------------------------------------
(* The iterations of a workload.                                           *)

\* The function of which Total takes the last value.
UpTo(p) == CHOOSE f : f = [i \in 0 .. Len(p) |-> IF i = 0 THEN 0 ELSE f[i - 1] + p[i].iterations]

\* Whatever function gives the iterations that precede each phase, it gives the total.
LEMMA TotalByOffsets ==
  ASSUME NEW p, IsPhases(p), NEW f, IsOffsets(f, p, Len(p))
  PROVE  Total(p) = f[Len(p)] + p[Len(p)].iterations
<1> DEFINE u == UpTo(p)
           T == {k \in 1 .. Len(p) : u[k] # f[k] + p[k].iterations}
<1>0. /\ Len(p) \in Nat \ {0} /\ \A i \in 1 .. Len(p) : p[i].iterations \in Nat
      /\ \A i \in 1 .. Len(p) : f[i] \in Int
      /\ \A i \in 1 .. Len(p) : i < Len(p) => f[i + 1] = f[i] + p[i].iterations
  <2> HIDE DEF T, u
  <2>1. Len(p) \in Nat \ {0} /\ \A i \in 1 .. Len(p) : p[i].iterations \in Nat
    BY PhaseFacts
  <2>2. /\ f \in [1 .. Len(p) -> Int]
        /\ \A i \in 1 .. Len(p) : i + 1 \in 1 .. Len(p) => f[i + 1] = f[i] + p[i].iterations
    BY DEF IsOffsets
  <2>3. \A i \in 1 .. Len(p) : i < Len(p) => i + 1 \in 1 .. Len(p)
    BY <2>1
  <2> QED
    BY <2>1, <2>2, <2>3
<1>1. u = [i \in 0 .. Len(p) |-> IF i = 0 THEN 0 ELSE u[i - 1] + p[i].iterations]
  <2> DEFINE g == [i \in 0 .. Len(p) |-> IF i = 0 THEN 0 ELSE f[i] + p[i].iterations]
  <2>1. \A i \in 1 .. Len(p) : g[i - 1] = f[i]
    <3> SUFFICES ASSUME NEW i \in 1 .. Len(p) PROVE g[i - 1] = f[i]
      OBVIOUS
    <3>1. CASE i = 1
      BY <1>0, <3>1 DEF IsOffsets
    <3>2. CASE i # 1
      <4>1. i - 1 \in 1 .. Len(p) /\ i - 1 < Len(p) /\ (i - 1) + 1 = i
        BY <1>0, <3>2
      <4>2. f[(i - 1) + 1] = f[i - 1] + p[i - 1].iterations
        BY <1>0, <4>1
      <4> QED
        BY <1>0, <3>2, <4>1, <4>2
    <3> QED
      BY <3>1, <3>2
  <2>2. g = [i \in 0 .. Len(p) |-> IF i = 0 THEN 0 ELSE g[i - 1] + p[i].iterations]
    <3> SUFFICES ASSUME NEW i \in 0 .. Len(p), i # 0 PROVE g[i] = g[i - 1] + p[i].iterations
      OBVIOUS
    <3>1. i \in 1 .. Len(p)
      BY <1>0
    <3> QED
      BY <2>1, <3>1
  <2> HIDE DEF g
  <2> QED
    BY <2>2 DEF UpTo
<1> HIDE DEF u
<1>2. /\ u[0] = 0
      /\ \A i \in 1 .. Len(p) : u[i] = u[i - 1] + p[i].iterations
  BY <1>0, <1>1
<1>3. T = {}
  <2> SUFFICES ASSUME T # {} PROVE FALSE
    OBVIOUS
  <2>1. T \in SUBSET Nat
    BY <1>0
  <2>2. PICK k \in T : \A i \in T : k <= i
    BY <2>1, LeastNumber
  <2>3. k \in 1 .. Len(p) /\ u[k] # f[k] + p[k].iterations
    BY <2>2
  <2>4. CASE k = 1
    BY <1>0, <1>2, <2>3, <2>4 DEF IsOffsets
  <2>5. CASE k # 1
    <3>1. k - 1 \in 1 .. Len(p) /\ k - 1 < Len(p) /\ (k - 1) + 1 = k /\ k - 1 \notin T
      BY <1>0, <2>2, <2>3, <2>5
    <3>2. u[k - 1] = f[k - 1] + p[k - 1].iterations
      BY <3>1
    <3>3. f[k] = f[k - 1] + p[k - 1].iterations
      BY <1>0, <3>1
    <3> QED
      BY <1>2, <2>3, <3>2, <3>3
  <2> QED
    BY <2>4, <2>5
<1>4. Total(p) = u[Len(p)]
  BY DEF Total, UpTo, u
<1> QED
  BY <1>0, <1>3, <1>4

LEMMA NeverFalls ==
  ASSUME NEW N \in Nat, NEW u \in [1 .. N -> Int],
         \A i \in 1 .. N : i + 1 \in 1 .. N => u[i] <= u[i + 1]
  PROVE  \A k \in 1 .. N : \A i \in 1 .. k : u[i] <= u[k]
<1> DEFINE T == {k \in 1 .. N : \E i \in 1 .. k : ~(u[i] <= u[k])}
<1> SUFFICES ASSUME T # {} PROVE FALSE
  OBVIOUS
<1>1. T \in SUBSET Nat
  OBVIOUS
<1>2. PICK k \in T : \A m \in T : k <= m
  BY <1>1, LeastNumber
<1>3. PICK i \in 1 .. k : k \in 1 .. N /\ ~(u[i] <= u[k])
  BY <1>2
<1>4. i # k /\ i \in 1 .. k - 1 /\ k - 1 \in 1 .. N /\ (k - 1) + 1 = k
  BY <1>3
<1>5. k - 1 \notin T
  BY <1>2, <1>4
<1>6. u[i] <= u[k - 1]
  BY <1>4, <1>5
<1>7. u[k - 1] <= u[k]
  BY <1>3, <1>4
<1>8. i \in 1 .. N /\ u[i] \in Int /\ u[k - 1] \in Int /\ u[k] \in Int
  BY <1>3, <1>4
<1> QED
  BY <1>3, <1>6, <1>7, <1>8

\* No phase takes iterations back.
LEMMA TotalBounds ==
  ASSUME NEW p, IsPhases(p)
  PROVE  /\ Total(p) \in Nat
         /\ Total(p) = Offsets(p)[Len(p)] + p[Len(p)].iterations
         /\ \A i \in 1 .. Len(p) : /\ Offsets(p)[i] >= 0
                                   /\ Offsets(p)[i] + p[i].iterations <= Total(p)
<1>0. /\ Len(p) \in Nat \ {0} /\ \A i \in 1 .. Len(p) : p[i].iterations \in Nat
      /\ \A i \in 1 .. Len(p) : Offsets(p)[i] \in Int
      /\ \A i \in 1 .. Len(p) : i < Len(p) => Offsets(p)[i + 1] = Offsets(p)[i] + p[i].iterations
      /\ Offsets(p)[1] = 0
  BY PhaseFacts, OffsetFacts
<1>1. Total(p) = Offsets(p)[Len(p)] + p[Len(p)].iterations
  BY OffsetsExist, TotalByOffsets
<1>2. \A i \in 1 .. Len(p) : Offsets(p)[i] >= 0
  <2> DEFINE u == [i \in 1 .. Len(p) |-> Offsets(p)[i]]
  <2>1. \A i \in 1 .. Len(p) : u[i] = Offsets(p)[i] /\ u[i] \in Int
    BY <1>0
  <2>2. u \in [1 .. Len(p) -> Int]
    BY <2>1
  <2> HIDE DEF u
  <2>3. \A i \in 1 .. Len(p) : i + 1 \in 1 .. Len(p) => u[i] <= u[i + 1]
    <3> SUFFICES ASSUME NEW i \in 1 .. Len(p), i + 1 \in 1 .. Len(p) PROVE u[i] <= u[i + 1]
      OBVIOUS
    <3>1. i < Len(p) /\ Offsets(p)[i + 1] = Offsets(p)[i] + p[i].iterations
      BY <1>0
    <3>2. p[i].iterations \in Nat /\ p[i + 1].iterations \in Nat /\ Offsets(p)[i] \in Int
      BY <1>0
    <3> QED
      BY <2>1, <3>1, <3>2
  <2>4. \A k \in 1 .. Len(p) : \A i \in 1 .. k : u[i] <= u[k]
    BY <1>0, <2>2, <2>3, NeverFalls
  <2> SUFFICES ASSUME NEW i \in 1 .. Len(p) PROVE Offsets(p)[i] >= 0
    OBVIOUS
  <2>5. 1 \in 1 .. i /\ 1 \in 1 .. Len(p) /\ u[1] <= u[i]
    BY <1>0, <2>4
  <2> QED
    BY <1>0, <2>1, <2>5
<1>3. \A i \in 1 .. Len(p) : Offsets(p)[i] + p[i].iterations <= Total(p)
  <2> DEFINE u == [i \in 1 .. Len(p) |-> Offsets(p)[i] + p[i].iterations]
  <2>1. \A i \in 1 .. Len(p) : u[i] = Offsets(p)[i] + p[i].iterations /\ u[i] \in Int
    BY <1>0
  <2>2. u \in [1 .. Len(p) -> Int]
    BY <2>1
  <2> HIDE DEF u
  <2>3. \A i \in 1 .. Len(p) : i + 1 \in 1 .. Len(p) => u[i] <= u[i + 1]
    <3> SUFFICES ASSUME NEW i \in 1 .. Len(p), i + 1 \in 1 .. Len(p) PROVE u[i] <= u[i + 1]
      OBVIOUS
    <3>1. i < Len(p) /\ Offsets(p)[i + 1] = Offsets(p)[i] + p[i].iterations
      BY <1>0
    <3>2. p[i].iterations \in Nat /\ p[i + 1].iterations \in Nat /\ Offsets(p)[i] \in Int
      BY <1>0
    <3>3. /\ u[i] = Offsets(p)[i] + p[i].iterations
          /\ u[i + 1] = Offsets(p)[i + 1] + p[i + 1].iterations
      BY <2>1
    <3> QED
      BY <3>1, <3>2, <3>3
  <2>4. \A k \in 1 .. Len(p) : \A i \in 1 .. k : u[i] <= u[k]
    BY <1>0, <2>2, <2>3, NeverFalls
  <2> SUFFICES ASSUME NEW i \in 1 .. Len(p) PROVE Offsets(p)[i] + p[i].iterations <= Total(p)
    OBVIOUS
  <2>5. i \in 1 .. Len(p) /\ Len(p) \in 1 .. Len(p) /\ u[i] <= u[Len(p)]
    BY <1>0, <2>4
  <2> QED
    BY <1>1, <2>1, <2>5
<1> QED
  BY <1>0, <1>1, <1>2, <1>3

\* What remains of the workload after a request is what had not been done.
LEMMA AdvancedTotal ==
  ASSUME NEW p, IsPhases(p), NEW i \in 1 .. Len(p), NEW r \in Nat
  PROVE  Total(Advance(p, i - 1, r)) = Total(p) - (Offsets(p)[i] + p[i].iterations - r)
<1> DEFINE q == Advance(p, i - 1, r)
           D == Offsets(p)[i] + p[i].iterations - r
           f == [k \in 1 .. Len(q) |-> IF k = 1 THEN 0 ELSE Offsets(p)[i + k - 1] - D]
           rest == SubSeq(p, i - 1 + 1, Len(p))
<1>0. /\ Len(p) \in Nat \ {0} /\ \A k \in 1 .. Len(p) : p[k] \in PhaseRecord /\ p[k].iterations \in Nat
      /\ \A k \in 1 .. Len(p) : Offsets(p)[k] \in Int
      /\ \A k \in 1 .. Len(p) : k < Len(p) => Offsets(p)[k + 1] = Offsets(p)[k] + p[k].iterations
  BY PhaseFacts, OffsetFacts
<1>1. IsPhases(q)
  BY AdvancedPhases
<1>2. /\ Len(rest) = Len(p) - i + 1 /\ rest \in Seq(PhaseRecord)
      /\ \A k \in 1 .. Len(p) - i + 1 : rest[k] = p[i + k - 1]
  <2>1. i - 1 + 1 = i /\ i \in Int /\ Len(p) \in Int /\ \A k \in i .. Len(p) : p[k] \in PhaseRecord
    BY <1>0
  <2>2. /\ rest \in Seq(PhaseRecord) /\ Len(rest) = Len(p) - i + 1
        /\ \A k \in 1 .. Len(p) - i + 1 : rest[k] = p[i + k - 1]
    BY <1>0, <2>1, SubSeqProperties
  <2> QED
    BY <2>2
<1>3. DOMAIN rest = 1 .. Len(p) - i + 1 /\ 1 \in DOMAIN rest /\ rest[1] = p[i]
  <2>1. DOMAIN rest = 1 .. Len(rest)
    BY <1>2, LenProperties
  <2> QED
    BY <1>0, <1>2, <2>1
<1>4. q = [rest EXCEPT ![1].iterations = r]
  BY DEF Advance
<1> HIDE DEF rest
<1>5. /\ DOMAIN q = DOMAIN rest /\ Len(q) = Len(p) - i + 1
      /\ q[1].iterations = r
      /\ \A k \in 2 .. Len(q) : q[k].iterations = p[i + k - 1].iterations
  <2>1. DOMAIN q = DOMAIN rest
    BY <1>4
  <2>2. DOMAIN q = 1 .. Len(q) /\ Len(q) \in Nat
    BY <1>1, PhaseFacts
  <2>3. Len(q) = Len(p) - i + 1
    BY <1>0, <1>3, <2>1, <2>2
  <2>4. q[1].iterations = r
    <3>1. q[1] = [rest[1] EXCEPT !.iterations = r]
      BY <1>3, <1>4
    <3>2. rest[1] \in PhaseRecord
      BY <1>0, <1>3
    <3> QED
      BY <3>1, <3>2 DEF PhaseRecord
  <2>5. \A k \in 2 .. Len(q) : k \in DOMAIN rest /\ k # 1 /\ q[k] = rest[k] /\ rest[k] = p[i + k - 1]
    BY <1>2, <1>3, <1>4, <2>3
  <2> QED
    BY <2>1, <2>3, <2>4, <2>5
<1> HIDE DEF q
<1>6. D \in Int /\ D = Offsets(p)[i] + p[i].iterations - r
  BY <1>0
<1> HIDE DEF D
<1>7. \A k \in 1 .. Len(q) : i + k - 1 \in 1 .. Len(p)
  BY <1>0, <1>5
<1>8. /\ \A k \in 2 .. Len(q) : f[k] = Offsets(p)[i + k - 1] - D /\ f[k] \in Int
      /\ 1 \in 1 .. Len(q) /\ f[1] = 0 /\ f \in [1 .. Len(q) -> Int]
  <2>1. 1 \in 1 .. Len(q) /\ f[1] = 0
    BY <1>0, <1>5
  <2>2. ASSUME NEW k \in 2 .. Len(q)
        PROVE  f[k] = Offsets(p)[i + k - 1] - D /\ f[k] \in Int
    <3>1. k \in 1 .. Len(q) /\ k # 1
      BY <1>0, <1>5
    <3>2. f[k] = Offsets(p)[i + k - 1] - D
      BY <3>1
    <3>3. Offsets(p)[i + k - 1] \in Int
      BY <1>0, <1>7, <3>1
    <3> HIDE DEF f
    <3> QED
      BY <1>6, <3>2, <3>3
  <2>3. \A k \in 1 .. Len(q) : f[k] \in Int
    <3> SUFFICES ASSUME NEW k \in 1 .. Len(q) PROVE f[k] \in Int
      OBVIOUS
    <3>1. k = 1 \/ k \in 2 .. Len(q)
      OBVIOUS
    <3> HIDE DEF f
    <3> QED
      BY <2>1, <2>2, <3>1
  <2>4. f \in [1 .. Len(q) -> Int]
    BY <2>3
  <2> HIDE DEF f
  <2> QED
    BY <2>1, <2>2, <2>4
<1> HIDE DEF f
<1>9. IsOffsets(f, q, Len(q))
  <2>1. ASSUME NEW k \in 1 .. Len(q), k + 1 \in 1 .. Len(q)
        PROVE  f[k + 1] = f[k] + q[k].iterations
    <3>1. k + 1 \in 2 .. Len(q) /\ i + (k + 1) - 1 = i + k
      BY <1>0, <1>5, <2>1
    <3>2. f[k + 1] = Offsets(p)[i + k] - D
      BY <1>8, <3>1
    <3>3. i + k - 1 \in 1 .. Len(p) /\ i + k - 1 < Len(p) /\ i + k = (i + k - 1) + 1
      BY <1>0, <1>5, <2>1
    <3>4. Offsets(p)[i + k] = Offsets(p)[i + k - 1] + p[i + k - 1].iterations
      BY <1>0, <3>3
    <3>5. Offsets(p)[i + k - 1] \in Int /\ p[i + k - 1].iterations \in Nat
      BY <1>0, <3>3
    <3>6. CASE k = 1
      <4>1. i + k - 1 = i /\ f[k] = 0 /\ q[k].iterations = r
        BY <1>5, <1>8, <3>6
      <4> QED
        BY <1>6, <3>2, <3>4, <3>5, <4>1
    <3>7. CASE k # 1
      <4>1. k \in 2 .. Len(q)
        BY <1>0, <1>5, <3>7
      <4>2. f[k] = Offsets(p)[i + k - 1] - D /\ q[k].iterations = p[i + k - 1].iterations
        BY <1>5, <1>8, <4>1
      <4> QED
        BY <1>6, <3>2, <3>4, <3>5, <4>2
    <3> QED
      BY <3>6, <3>7
  <2> QED
    BY <1>8, <2>1 DEF IsOffsets
<1>10. Total(q) = f[Len(q)] + q[Len(q)].iterations
  BY <1>1, <1>9, TotalByOffsets
<1>11. Total(p) = Offsets(p)[Len(p)] + p[Len(p)].iterations
  BY TotalBounds
<1>12. Offsets(p)[Len(p)] \in Int /\ p[Len(p)].iterations \in Nat
  BY <1>0
<1>13. CASE Len(q) = 1
  <2>1. i = Len(p) /\ f[Len(q)] = 0 /\ q[Len(q)].iterations = r
    <3>1. i = Len(p)
      <4>1. Len(p) \in Int /\ i \in Int
        BY <1>0
      <4>2. Len(q) = Len(p) - i + 1
        BY <1>5
      <4>3. Len(p) - i + 1 = 1
        BY <1>13, <4>2
      <4> QED
        BY <4>1, <4>3
    <3>2. f[Len(q)] = 0
      BY <1>8, <1>13
    <3>3. q[Len(q)].iterations = r
      BY <1>5, <1>13
    <3> QED
      BY <3>1, <3>2, <3>3
  <2>2. Total(q) = r
    BY <1>10, <2>1
  <2> QED
    BY <1>6, <1>11, <1>12, <2>1, <2>2 DEF q
<1>14. CASE Len(q) # 1
  <2>1. Len(q) \in 2 .. Len(q) /\ i + Len(q) - 1 = Len(p)
    BY <1>0, <1>5, <1>14
  <2>2. f[Len(q)] = Offsets(p)[Len(p)] - D /\ q[Len(q)].iterations = p[Len(p)].iterations
    BY <1>5, <1>8, <2>1
  <2>3. Total(q) = Total(p) - D
    BY <1>6, <1>10, <1>11, <1>12, <2>2
  <2> QED
    BY <1>6, <2>3 DEF q
<1> QED
  BY <1>13, <1>14

-----------------------------------------------------------------------------
(* Rank 0 as the thread of the job.                                        *)

\* Rank 0 takes its first phase for the initial one until it has done an iteration.
FirstIteration == Leader.initialPhase <=> Leader.done = 0

SameThread == exec' = exec /\ phases' = phases /\ mail' = mail /\ Leader' = Leader

LeaderProceeds ==
  /\ phases' = phases /\ mail = "none" /\ mail' = mail
  /\ Leader.at \notin {"none", "post", "finish", "lost"} /\ Leader' = Proceed(Leader)

LeaderPosts(s) ==
  /\ Leader.at = s /\ Leader' = [Leader EXCEPT !.at = "none"]
  /\ IF s = "post" THEN /\ phases' = Advance(phases, Leader.idx - 1, Leader.remaining)
                        /\ mail' = Leader.request
     ELSE phases' = phases /\ mail' = "WORKLOAD_PROCESSED"

Restarts ==
  /\ mail \in Requests /\ mail' = "none" /\ phases' = phases
  /\ Leader'.at = "init" /\ Leader'.done = 0 /\ Leader'.initialPhase

LEMMA BarrierLeader ==
  ASSUME ApplicationInv, NEW n \in Ranks, NEW queue \in SUBSET Ranks, NEW size,
         \A m \in queue \cup {n} : Meets(actor[m]) \/ MeetsExpanding(actor[m]), Barrier(n, queue, size),
         UNCHANGED <<exec, phases, mail>>
  PROVE  SameThread \/ LeaderProceeds
<1>1. exec[1] \in Ranks /\ exec[1] \in Nodes
  BY RankFacts DEF ApplicationInv
<1>2. CASE actor'[exec[1]] = actor[exec[1]]
  BY <1>2 DEF SameThread, Leader
<1>3. CASE actor'[exec[1]] # actor[exec[1]]
  <2>1. exec[1] \in queue \cup {n} /\ actor'[exec[1]] = Proceed(actor[exec[1]])
    BY <1>1, <1>3 DEF Barrier
  <2>2. actor[exec[1]].at \notin {"none", "post", "finish", "lost"}
    BY <2>1 DEF Meets, MeetsExpanding
  <2>3. mail = "none"
    BY <1>1, <2>2, StillWorks
  <2> QED
    BY <2>1, <2>2, <2>3 DEF LeaderProceeds, Leader
<1> QED
  BY <1>2, <1>3

LEMMA NewIncarnation == ASSUME ApplicationInv, Continue PROVE Restarts
<1>1. exec[1] \in Ranks /\ exec[1] \in Nodes /\ actor[exec[1]] \in Actor
  BY RankFacts DEF ApplicationInv
<1>2. Leader' = Fresh(actor[exec[1]])
  BY <1>1 DEF Continue, Leader
<1> QED
  BY <1>1, <1>2, FreshFacts DEF Continue, Answerable, Restarts

LEMMA OtherNodes == ASSUME ApplicationInv, NEW q \in NodeLists, Reconfigure(q) PROVE Restarts
<1>1. q[1] \in ToSet(q) /\ q[1] \in Nodes /\ actor[q[1]] \in Actor
  BY NodeListRanks, RankFacts DEF ApplicationInv
<1>2. Leader' = Fresh(IF q[1] \notin Ranks
                      THEN [actor[q[1]] EXCEPT !.initializing = FALSE, !.reconfiguring = TRUE,
                                               !.expands = TRUE]
                      ELSE [actor[q[1]] EXCEPT !.reconfiguring = TRUE])
  BY <1>1 DEF Reconfigure, Leader
<1>3. \E a \in Actor : Leader' = Fresh(a)
  BY <1>1, <1>2 DEF Actor
<1> QED
  BY <1>3, FreshFacts DEF Reconfigure, Answerable, Restarts

\* What a step does to rank 0 and its messages.
LEMMA LeaderSteps ==
  ASSUME ApplicationInv, [Next]_vars
  PROVE  SameThread \/ LeaderProceeds \/ LeaderPosts("post") \/ LeaderPosts("finish") \/ Restarts
<1>0. /\ exec[1] \in Ranks /\ exec[1] \in Nodes /\ actor \in [Nodes -> Actor] /\ exec \in NodeLists
      /\ waiting \subseteq Ranks /\ expanding \subseteq Ranks
  BY RankFacts DEF ApplicationInv, Typed, TypeOK
<1>1. ASSUME NEW n \in Nodes, Step(n)
      PROVE  SameThread \/ LeaderProceeds
  <2>1. n \in Ranks /\ mail = "none"
    BY <1>1, StillWorks DEF Step
  <2>2. CASE n = exec[1]
    BY <1>0, <1>1, <2>1, <2>2 DEF Step, LeaderProceeds, Leader
  <2>3. CASE n # exec[1]
    BY <1>0, <1>1, <2>3 DEF Step, SameThread, Leader
  <2> QED
    BY <2>2, <2>3
<1>2. ASSUME NEW n \in Nodes, Wait(n)
      PROVE  SameThread \/ LeaderProceeds
  <2>1. n \in Ranks
    BY <1>2, StillWorks DEF Wait, Meets
  <2>2. \A m \in waiting \cup {n} : Meets(actor[m])
    BY <1>2 DEF Wait, ApplicationInv, Waits
  <2> QED
    BY <1>0, <1>2, <2>1, <2>2, BarrierLeader DEF Wait
<1>3. ASSUME NEW n \in Nodes, WaitExpanding(n)
      PROVE  SameThread \/ LeaderProceeds
  <2>1. n \in Ranks
    BY <1>3, StillWorks DEF WaitExpanding, MeetsExpanding
  <2>2. \A m \in expanding \cup {n} : MeetsExpanding(actor[m])
    BY <1>3 DEF WaitExpanding, ApplicationInv, Waits
  <2> QED
    BY <1>0, <1>3, <2>1, <2>2, BarrierLeader DEF WaitExpanding
<1>4. ASSUME NEW n \in Nodes, PostRequest(n) \/ PostProcessed(n)
      PROVE  SameThread \/ LeaderPosts("post") \/ LeaderPosts("finish")
  <2>1. n \in Ranks
    BY <1>4, RankFacts DEF PostRequest, PostProcessed, ApplicationInv
  <2>2. exec' = exec /\ actor' = [actor EXCEPT ![n].at = "none"]
    BY <1>4 DEF PostRequest, PostProcessed, End
  <2>3. CASE n = exec[1]
    <3>1. Leader' = [Leader EXCEPT !.at = "none"] /\ Rank(n) = 0
      BY <1>0, <2>1, <2>2, <2>3, RankZero DEF Leader
    <3> QED
      BY <1>4, <2>3, <3>1 DEF PostRequest, PostProcessed, LeaderPosts, Leader
  <2>4. CASE n # exec[1]
    <3>1. Leader' = Leader /\ Rank(n) # 0
      BY <1>0, <2>1, <2>2, <2>4, RankZero DEF Leader
    <3> QED
      BY <1>4, <2>2, <3>1 DEF PostRequest, PostProcessed, SameThread
  <2> QED
    BY <2>3, <2>4
<1>5. CASE Continue \/ \E q \in NodeLists : Reconfigure(q)
  BY <1>5, NewIncarnation, OtherNodes
<1>6. CASE ClearArguments \/ UpdateArguments \/ UNCHANGED vars
  BY <1>6 DEF ClearArguments, UpdateArguments, vars, SameThread, Leader
<1> QED
  BY <1>1, <1>2, <1>3, <1>4, <1>5, <1>6 DEF Next, Actors

\* Where rank 0 is as long as the job has not reported.
LEMMA LeaderFacts ==
  ASSUME ApplicationInv, mail = "none"
  PROVE  /\ Typed /\ exec[1] \in Ranks /\ Leader \in Actor /\ Leader.at # "none"
         /\ OnTheWay(Leader, phases, Barriers) /\ OneTime(Leader, Due(exec[1]))
BY RankFacts DEF ApplicationInv, Progress, Aligned, Phased, Leader

LEMMA ProceedFacts ==
  ASSUME Typed, NEW a \in Actor, OnTheWay(a, phases, Barriers),
         a.at \notin {"none", "post", "finish", "lost"}
  PROVE  /\ a.at \in {"init", "reconfigure"} <=> Proceed(a).at \in {"reconfigure", "start"}
         /\ Proceed(a).at \notin {"none", "init"}
         /\ a.at # "tasks" => Proceed(a).done = a.done /\ Proceed(a).initialPhase = a.initialPhase
         /\ a.at = "tasks" => Proceed(a).done = a.done + 1 /\ Proceed(a).initialPhase = FALSE
<1>1. CASE a.at = "tasks"
  BY <1>1, AfterIteration
<1>2. CASE a.at \in {"init", "reconfigure", "expand"}
  BY <1>2 DEF Proceed, OneTimePhase, Actor, Places
<1>3. CASE a.at \in {"start", "leave", "phase", "end"}
  BY <1>3 DEF Proceed, Actor, Places
<1>4. CASE a.at = "head"
  BY <1>4 DEF Proceed, AtHead, Actor, Places
<1> QED
  BY <1>1, <1>2, <1>3, <1>4 DEF Actor, Places

\* What an actor has done is less than the whole until it comes to the end.
LEMMA DoneBounds ==
  ASSUME Typed, NEW a \in Actor, OnTheWay(a, phases, Barriers)
  PROVE  /\ a.done \in Nat /\ Total(phases) \in Nat /\ a.done <= Total(phases)
         /\ a.at \in {"tasks", "leave", "post"} => a.done < Total(phases)
         /\ a.at \in {"end", "finish"} => a.done = Total(phases) /\ Total(phases) > 0
<1> DEFINE o == Offsets(phases)[a.idx]
           k == phases[a.idx].iterations
<1>0. /\ Len(phases) \in Nat \ {0} /\ \A i \in 1 .. Len(phases) : phases[i].iterations \in Nat
      /\ \A i \in 1 .. Len(phases) : Offsets(phases)[i] \in Int
  BY PhaseFacts, OffsetFacts DEF Typed
<1>1. /\ Total(phases) \in Nat
      /\ Total(phases) = Offsets(phases)[Len(phases)] + phases[Len(phases)].iterations
      /\ \A i \in 1 .. Len(phases) : /\ Offsets(phases)[i] >= 0
                                     /\ Offsets(phases)[i] + phases[i].iterations <= Total(phases)
  BY TotalBounds DEF Typed
<1>2. CASE a.at \in Entry
  BY <1>1, <1>2, ActorFacts DEF OnTheWay, Entry
<1>3. CASE a.at \notin Entry
  <2>1. a.idx \in 1 .. Len(phases) /\ a.remaining \in 0 .. k /\ a.done = o + k - a.remaining
    BY <1>3 DEF OnTheWay
  <2>2. k \in Nat /\ o \in Int /\ o >= 0 /\ o + k <= Total(phases)
    BY <1>0, <1>1, <2>1
  <2>3. a.at \in {"tasks", "leave", "post"} => a.remaining > 0
    <3>1. CASE a.at = "tasks"
      BY <3>1 DEF OnTheWay
    <3>2. CASE a.at \in {"leave", "post"}
      <4>1. PlaceAt(a, "leave") \in Barriers
        BY <3>2 DEF OnTheWay
      <4> QED
        BY <4>1, BarrierFacts DEF PlaceAt
    <3> QED
      BY <3>1, <3>2
  <2>4. a.at \in {"end", "finish"} => a.idx = Len(phases) /\ a.remaining = 0 /\ k > 0
    <3> SUFFICES ASSUME a.at \in {"end", "finish"}
                 PROVE  a.idx = Len(phases) /\ a.remaining = 0 /\ k > 0
      OBVIOUS
    <3>1. PlaceAt(a, "end") \in Barriers
      BY DEF OnTheWay
    <3>2. Blocks(PlaceAt(a, "end"))
      BY <3>1 DEF Barriers
    <3> QED
      BY <3>2 DEF Blocks, PlaceAt
  <2>5. a.at \in {"end", "finish"} => Total(phases) = o + k
    BY <1>1, <2>4
  <2> HIDE DEF o, k
  <2> QED
    BY <1>1, <2>1, <2>2, <2>3, <2>4, <2>5, ActorFacts
<1> QED
  BY <1>2, <1>3

LEMMA CountedIs ==
  ASSUME NEW d \in Nat, NEW t \in Nat, d <= t
  PROVE  Min({d, Max({0, t - 1})}) = IF d < t \/ t = 0 THEN d ELSE t - 1
<1>1. Max({0, t - 1}) = IF t = 0 THEN 0 ELSE t - 1
  <2> DEFINE m == IF t = 0 THEN 0 ELSE t - 1
  <2>1. m \in {0, t - 1} /\ \A y \in {0, t - 1} : m >= y
    OBVIOUS
  <2>2. \A x \in {0, t - 1} : (\A y \in {0, t - 1} : x >= y) => x = m
    OBVIOUS
  <2> HIDE DEF m
  <2>3. Max({0, t - 1}) = m
    BY <2>1, <2>2 DEF Max
  <2> QED
    BY <2>3 DEF m
<1> DEFINE M == Max({0, t - 1})
<1>2. M \in Nat /\ M = IF t = 0 THEN 0 ELSE t - 1
  BY <1>1
<1> HIDE DEF M
<1>3. Min({d, M}) = IF d < t \/ t = 0 THEN d ELSE t - 1
  <2> DEFINE m == IF d < t \/ t = 0 THEN d ELSE t - 1
  <2>1. m \in {d, M} /\ \A y \in {d, M} : m <= y
    BY <1>2
  <2>2. \A x \in {d, M} : (\A y \in {d, M} : x <= y) => x = m
    BY <1>2
  <2> HIDE DEF m
  <2>3. Min({d, M}) = m
    BY <2>1, <2>2 DEF Min
  <2> QED
    BY <2>3 DEF m
<1> QED
  BY <1>3 DEF M

\* The iterations of rank 0 are those of the thread, except for the last one.
LEMMA ThreadOf ==
  ASSUME ApplicationInv, mail = "none"
  PROVE  /\ Leader.done \in Nat /\ Total(phases) \in Nat /\ Leader.done <= Total(phases)
         /\ Leader.at \in {"init", "reconfigure", "start"} =>
              Thread = "starting" /\ Todo = Total(phases) /\ Leader.done = 0
         /\ Leader.at \notin {"init", "reconfigure", "start"} =>
              /\ Leader.done < Total(phases) \/ Total(phases) = 0 =>
                   /\ Todo = Total(phases) - Leader.done
                   /\ Thread = IF Leader.done = 0 THEN "first" ELSE "later"
              /\ Leader.done = Total(phases) /\ Total(phases) > 0 =>
                   Todo = 1 /\ Thread = IF Total(phases) = 1 THEN "first" ELSE "later"
<1>1. /\ Typed /\ Leader \in Actor /\ OnTheWay(Leader, phases, Barriers) /\ Leader.at # "none"
  BY LeaderFacts
<1>2. Leader.done \in Nat /\ Total(phases) \in Nat /\ Leader.done <= Total(phases)
  BY <1>1, DoneBounds
<1>3. Started <=> Leader.at \notin {"init", "reconfigure", "start"}
  BY <1>1 DEF Started
<1>4. ~Started => Thread = "starting" /\ Todo = Total(phases) /\ Leader.done = 0
  BY <1>1, <1>3 DEF Thread, Todo, OnTheWay, Entry
<1>5. Started => Todo = Total(phases) - Counted /\ Thread = IF Counted = 0 THEN "first" ELSE "later"
  BY DEF Thread, Todo
<1>6. Counted = IF Leader.done < Total(phases) \/ Total(phases) = 0 THEN Leader.done
                ELSE Total(phases) - 1
  BY <1>2, CountedIs DEF Counted
<1> QED
  BY <1>2, <1>3, <1>4, <1>5, <1>6

LEMMA SameThreadStutters ==
  ASSUME SameThread PROVE Thread' = Thread /\ Todo' = Todo /\ mail' = mail
BY DEF SameThread, Thread, Todo, Started, Counted

\* A step of rank 0 within its incarnation starts the thread, is an iteration, or is not seen.
LEMMA ProceedingIteratesOrStutters ==
  ASSUME ApplicationInv, FirstIteration, LeaderProceeds
  PROVE  FirstIteration' /\ (Job!Begin \/ Job!Iterate \/ UNCHANGED <<Thread, Todo, mail>>)
<1>1. /\ Typed /\ Leader \in Actor /\ OnTheWay(Leader, phases, Barriers)
      /\ mail = "none" /\ mail' = "none" /\ phases' = phases /\ Leader' = Proceed(Leader)
      /\ Leader.at \notin {"none", "post", "finish", "lost"}
  BY LeaderFacts DEF LeaderProceeds
<1>2. /\ Leader.at \in {"init", "reconfigure"} <=> Leader'.at \in {"reconfigure", "start"}
      /\ Leader'.at \notin {"none", "init"}
      /\ Leader.at # "tasks" => Leader'.done = Leader.done /\ Leader'.initialPhase = Leader.initialPhase
      /\ Leader.at = "tasks" => Leader'.done = Leader.done + 1 /\ Leader'.initialPhase = FALSE
  BY <1>1, ProceedFacts
<1> DEFINE d == Leader.done
           e == Leader'.done
           t == Total(phases)
<1>3. /\ d \in Nat /\ t \in Nat /\ d <= t
      /\ Leader.at \in {"init", "reconfigure", "start"} =>
              Thread = "starting" /\ Todo = t /\ d = 0
      /\ Leader.at \notin {"init", "reconfigure", "start"} =>
           /\ d < t \/ t = 0 => Todo = t - d /\ Thread = IF d = 0 THEN "first" ELSE "later"
           /\ d = t /\ t > 0 => Todo = 1 /\ Thread = IF t = 1 THEN "first" ELSE "later"
  BY <1>1, ThreadOf
<1>4. e \in Nat /\ e <= t /\ (Leader.at = "tasks" => d < t)
  BY <1>1, <1>2, <1>3, DoneBounds
<1>5. /\ Leader'.at \in {"init", "reconfigure", "start"} => Thread' = "starting" /\ Todo' = t
      /\ Leader'.at \notin {"init", "reconfigure", "start"} =>
           /\ e < t \/ t = 0 => Todo' = t - e /\ Thread' = IF e = 0 THEN "first" ELSE "later"
           /\ e = t /\ t > 0 => Todo' = 1 /\ Thread' = IF t = 1 THEN "first" ELSE "later"
  <2>1. Started' <=> Leader'.at \notin {"init", "reconfigure", "start"}
    BY <1>2 DEF Started
  <2>2. Counted' = IF e < t \/ t = 0 THEN e ELSE t - 1
    BY <1>1, <1>3, <1>4, CountedIs DEF Counted
  <2>3. ~Started' => Thread' = "starting" /\ Todo' = t
    BY <1>1 DEF Thread, Todo
  <2>4. Started' => Todo' = t - Counted' /\ Thread' = IF Counted' = 0 THEN "first" ELSE "later"
    BY <1>1 DEF Thread, Todo
  <2> HIDE DEF e, t
  <2> QED
    BY <1>3, <1>4, <2>1, <2>2, <2>3, <2>4
<1>6. FirstIteration'
  BY <1>1, <1>2, <1>3 DEF FirstIteration, Actor
<1>7. CASE Leader.at \in {"init", "reconfigure"}
  <2>1. UNCHANGED <<Thread, Todo, mail>>
    BY <1>1, <1>2, <1>3, <1>5, <1>7
  <2> QED
    BY <1>6, <2>1
<1>8. CASE Leader.at = "start"
  <2>1. /\ Thread = "starting" /\ Todo = t /\ e = 0 /\ Leader'.at \notin {"init", "reconfigure", "start"}
    BY <1>1, <1>2, <1>3, <1>8
  <2>2. Thread' = "first" /\ Todo' = t
    BY <1>3, <1>5, <2>1
  <2> QED
    BY <1>1, <1>6, <2>1, <2>2 DEF Job!Begin
<1>9. CASE Leader.at \notin {"init", "reconfigure", "start", "tasks"}
  <2>1. e = d /\ Leader'.at \notin {"init", "reconfigure", "start"}
    BY <1>1, <1>2, <1>9
  <2>2. UNCHANGED <<Thread, Todo, mail>>
    BY <1>1, <1>3, <1>5, <1>9, <2>1
  <2> QED
    BY <1>6, <2>2
<1>10. CASE Leader.at = "tasks"
  <2>1. e = d + 1 /\ d < t /\ Leader'.at \notin {"init", "reconfigure", "start"}
    BY <1>1, <1>2, <1>4, <1>10
  <2>2. Todo = t - d /\ Thread = IF d = 0 THEN "first" ELSE "later"
    BY <1>3, <1>10, <2>1
  <2>3. CASE e < t
    <3>1. Todo' = t - e /\ Thread' = "later"
      BY <1>3, <1>5, <2>1, <2>3
    <3> HIDE DEF d, e, t
    <3>2. Todo > 1 /\ Todo' = Todo - 1 /\ Thread \in {"first", "later"}
      BY <1>3, <1>4, <2>1, <2>2, <2>3, <3>1
    <3> QED
      BY <1>1, <1>6, <3>1, <3>2 DEF Job!Iterate
  <2>4. CASE e = t
    <3>1. Todo' = 1 /\ Thread' = IF t = 1 THEN "first" ELSE "later"
      BY <1>3, <1>5, <2>1, <2>4
    <3> HIDE DEF d, e, t
    <3>2. Todo = 1 /\ Thread = IF t = 1 THEN "first" ELSE "later"
      BY <1>3, <2>1, <2>2, <2>4
    <3> QED
      BY <1>1, <1>6, <3>1, <3>2
  <2>5. e < t \/ e = t
    <3> HIDE DEF e, t
    <3> QED
      BY <1>3, <1>4
  <2> QED
    BY <2>3, <2>4, <2>5
<1> QED
  BY <1>7, <1>8, <1>9, <1>10

\* A request ends the thread with iterations still to do, and what remains of the workload is
\* what remains of the thread's.
LEMMA PostingAsks ==
  ASSUME ApplicationInv, FirstIteration, LeaderPosts("post") PROVE FirstIteration' /\ Job!Ask
<1>1. mail = "none" /\ Leader.at = "post"
  BY DEF LeaderPosts, ApplicationInv, Progress
<1>2. /\ Typed /\ Leader \in Actor /\ OnTheWay(Leader, phases, Barriers)
      /\ PlaceAt(Leader, "leave") \in Barriers
  BY <1>1, LeaderFacts DEF OnTheWay
<1> DEFINE d == Leader.done
           t == Total(phases)
           i == Leader.idx
           r == Leader.remaining
<1>3. d \in Nat /\ t \in Nat /\ d < t
  BY <1>1, <1>2, DoneBounds
<1>4. /\ i \in 1 .. Len(phases) /\ r \in Nat /\ d = Offsets(phases)[i] + phases[i].iterations - r
      /\ Leader.initialPhase <=> First(phases, i, r)
  BY <1>1, <1>2, ActorFacts DEF OnTheWay, Entry
<1>5. Leader.request \in Requests /\ Request(i, r) # "none"
  BY <1>2 DEF Barriers, Blocks, PlaceAt
<1>6. ~First(phases, i, r)
  BY <1>5 DEF Request, RequestOf, Evaluates
<1>7. d # 0
  BY <1>4, <1>6 DEF FirstIteration
<1>8. Thread = "later" /\ Todo = t - d
  BY <1>1, <1>3, <1>7, ThreadOf
<1>9. phases' = Advance(phases, i - 1, r) /\ mail' = Leader.request
  BY DEF LeaderPosts
<1>10. Thread' = "none" /\ Todo' = Total(phases')
  BY <1>5, <1>9 DEF Thread, Todo, Requests
<1> HIDE DEF d, t, i, r
<1>11. Total(phases') = t - d
  BY <1>2, <1>4, <1>9, AdvancedTotal DEF Typed, t
<1>12. FirstIteration'
  BY <1>2 DEF FirstIteration, LeaderPosts, Actor
<1> QED
  BY <1>5, <1>8, <1>9, <1>10, <1>11, <1>12 DEF Job!Ask, Requests

LEMMA PostingFinishes ==
  ASSUME ApplicationInv, FirstIteration, LeaderPosts("finish") PROVE FirstIteration' /\ Job!Finish
<1>1. mail = "none" /\ Leader.at = "finish" /\ mail' = "WORKLOAD_PROCESSED"
  BY DEF LeaderPosts, ApplicationInv, Progress
<1>2. Typed /\ Leader \in Actor /\ OnTheWay(Leader, phases, Barriers)
  BY <1>1, LeaderFacts
<1>3. Leader.done = Total(phases) /\ Total(phases) > 0
  BY <1>1, <1>2, DoneBounds
<1>4. Todo = 1 /\ Thread \in {"first", "later"}
  BY <1>1, <1>3, ThreadOf
<1>5. Thread' = "none" /\ Todo' = 0
  BY <1>1 DEF Thread, Todo
<1>6. FirstIteration'
  BY <1>2 DEF FirstIteration, LeaderPosts, Actor
<1> QED
  BY <1>1, <1>4, <1>5, <1>6 DEF Job!Finish

LEMMA RestartResumes ==
  ASSUME ApplicationInv, FirstIteration, Restarts PROVE FirstIteration' /\ Job!Resume
<1>1. /\ mail \in Requests /\ mail' = "none" /\ phases' = phases
      /\ Leader'.at = "init" /\ Leader'.done = 0 /\ Leader'.initialPhase
  BY DEF Restarts
<1>2. Todo = Total(phases) /\ Todo' = Total(phases) /\ Thread' = "starting"
  BY <1>1 DEF Todo, Thread, Started, Requests
<1> QED
  BY <1>1, <1>2 DEF FirstIteration, Job!Resume, Requests

LEMMA ThreadRefined ==
  ASSUME ApplicationInv, FirstIteration, [Next]_vars
  PROVE  FirstIteration' /\ [Job!ThreadNext]_(Job!threadVars)
<1>1. CASE SameThread
  BY <1>1, SameThreadStutters DEF SameThread, FirstIteration, Job!threadVars
<1>2. CASE LeaderProceeds
  BY <1>2, ProceedingIteratesOrStutters DEF Job!ThreadNext, Job!threadVars
<1>3. CASE LeaderPosts("post") \/ LeaderPosts("finish") \/ Restarts
  BY <1>3, PostingAsks, PostingFinishes, RestartResumes DEF Job!ThreadNext
<1> QED
  BY <1>1, <1>2, <1>3, LeaderSteps

\* The ranks of a job, with their barriers and one-time phases, implement the one application
\* actor per job of module Elastisim, for every workload: no iteration is lost or done twice
\* when the workload is advanced at a request, and the end is reported after the last one.
THEOREM RanksImplementThread == ASSUME Polite PROVE Spec => ImplementsThread
<1>1. Init => FirstIteration /\ Job!ThreadInit
  <2> SUFFICES ASSUME Init PROVE FirstIteration /\ Job!ThreadInit
    OBVIOUS
  <2>1. mail = "none" /\ phases \in Workloads
    BY DEF Init
  <2>2. exec[1] \in Ranks /\ exec[1] \in Nodes
    BY InitApplication, RankFacts DEF ApplicationInv
  <2>3. Leader = Fresh([NoActor EXCEPT !.initializing = TRUE])
    BY <2>2 DEF Init, Leader
  <2>4. Leader.at = "init" /\ Leader.done = 0 /\ Leader.initialPhase
    BY <2>3 DEF Fresh, NoActor
  <2> QED
    BY <2>1, <2>4 DEF FirstIteration, Job!ThreadInit, Thread, Todo, Started
<1>2. ApplicationInv /\ FirstIteration /\ [Next]_vars
        => FirstIteration' /\ [Job!ThreadNext]_(Job!threadVars)
  BY ThreadRefined
<1> QED
  BY <1>1, <1>2, RanksStayInStep, PTL DEF Spec, ImplementsThread, Job!ThreadSpec
=============================================================================
