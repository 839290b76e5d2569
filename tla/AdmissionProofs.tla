--------------------------- MODULE AdmissionProofs ---------------------------
(***************************************************************************)
(* Admission implements SlotPool for any issues, ceiling and number of     *)
(* requests in flight.  The invariant behind it: who occupies a slot has a *)
(* workflow instance, so that the slots counted by status are the starts.  *)
(*                                                                         *)
(* The second part is about the queue: what Among picks of a sequence, by  *)
(* induction on its length, and from it that no issue is queued twice,     *)
(* that no entry is lost, and who may change the order.                    *)
(*                                                                         *)
(* The third is about the blockers a walk knows of: no issue starts on a   *)
(* base without the work of a blocker declared long enough ago, for any    *)
(* cache lifetime, back-off and length of walks.  Its invariant is about   *)
(* ages.  A row of the cache is as old as its arrival, its content up to   *)
(* one walk older; a snapshot adds the age of its walk.  An edge older     *)
(* than the sum is in it.                                                  *)
(***************************************************************************)
EXTENDS Admission, Blockers, FiniteSetTheorems, SequenceTheorems,
        WellFoundedInduction, TLAPS

\* Only the part of the state the pool sees, and the shape of the rest.
AdmShape ==
  /\ issueStatus \in [AdmIssue -> AdmStatuses]
  /\ instances \in SUBSET AdmIssue
  /\ decisions \in SUBSET AdmIssue
  /\ limit \in 1..AdmCeiling
  /\ walk = [c \in AdmCaller |-> walk[c]]

OccupantsRun == \A i \in AdmIssue : issueStatus[i] = "developing" => i \in instances

DecisionsOpen == \A i \in decisions : issueStatus[i] # "closed"

AdmInv == AdmShape /\ OccupantsRun /\ DecisionsOpen

-----------------------------------------------------------------------------
(* The kinds of step, by what they do to what the pool sees *)

poolSeen == <<issueStatus, instances, decisions, limit>>

\* the queue and the walks move
Moves == UNCHANGED poolSeen

\* issue i starts, in the walk of c or by a human's decision
Starts(i) ==
  /\ i \in AdmIssue /\ Startable(i)
  /\ issueStatus' = [issueStatus EXCEPT ![i] = "developing"]
  /\ instances' = instances \cup {i}
  /\ decisions' = decisions \ {i}
  /\ limit' = limit
  /\ SlotStillFree \/ i \in decisions

\* issue i, which has an instance, goes from one status to another
Turns(i, from, to) ==
  /\ i \in instances /\ issueStatus[i] = from
  /\ issueStatus' = [issueStatus EXCEPT ![i] = to]
  /\ UNCHANGED <<instances, decisions, limit>>

Ends(i) ==
  /\ i \in AdmIssue /\ issueStatus[i] # "closed"
  /\ issueStatus' = [issueStatus EXCEPT ![i] = "closed"]
  /\ instances' = instances \ {i}
  /\ decisions' = decisions \ {i}
  /\ limit' = limit

Limits == limit' \in 1..AdmCeiling /\ UNCHANGED <<issueStatus, instances, decisions>>

SomeKind ==
  \/ Moves
  \/ \E i \in AdmIssue : Starts(i)
  \/ \E i \in AdmIssue : Turns(i, "developing", "needs_human")
  \/ \E i \in AdmIssue : Turns(i, "needs_human", "developing")
  \/ \E i \in AdmIssue : Ends(i)
  \/ Limits

WalkShape == walk' = [c \in AdmCaller |-> walk'[c]]

\* A walk in flight is replaced, the others stay: its shape survives.
LEMMA GoOnKeepsShape ==
  ASSUME AdmShape, NEW c \in AdmCaller, NEW todo, NEW left, GoOn(c, todo, left)
  PROVE  /\ WalkShape
         /\ \A d \in AdmCaller : d # c => walk'[d] = walk[d]
BY DEF AdmShape, GoOn, WalkShape

\* Every action is one of these kinds, and keeps the walks a function.
LEMMA KindOfStep ==
  ASSUME AdmInv, [AdmNext]_admVars
  PROVE  SomeKind /\ WalkShape
<1>1. CASE UNCHANGED admVars
  BY <1>1 DEF admVars, AdmInv, AdmShape, SomeKind, Moves, poolSeen, WalkShape
<1>2. CASE TickWalk
  <2>1. "tick" \in AdmCaller
    BY DEF AdmCaller
  <2>2. GoOn("tick", CanStart(queue), Budget)
    BY <1>2 DEF TickWalk, BeginWalk
  <2>3. WalkShape
    BY <2>1, <2>2, GoOnKeepsShape DEF AdmInv
  <2>. QED
    BY <1>2, <2>3 DEF TickWalk, SomeKind, Moves, poolSeen
<1>3. ASSUME NEW c \in AdmCaller, NEW i \in AdmIssue, Admit(c, i)
      PROVE  SomeKind /\ WalkShape
  <2>1. WalkShape
    BY <1>3, GoOnKeepsShape DEF Admit, AdmInv
  <2>2. Starts(i)
    BY <1>3 DEF Admit, StartWorkflowCore, Starts
  <2>. QED
    BY <2>1, <2>2 DEF SomeKind
<1>4. ASSUME NEW c \in AdmCaller, NEW i \in AdmIssue, PassOver(c, i)
      PROVE  SomeKind /\ WalkShape
  <2>1. WalkShape
    BY <1>4, GoOnKeepsShape DEF PassOver, AdmInv
  <2>. QED
    BY <1>4, <2>1 DEF PassOver, SomeKind, Moves, poolSeen
<1>5. ASSUME NEW c \in AdmCaller, NEW i \in AdmIssue, SlotsGone(c, i)
      PROVE  SomeKind /\ WalkShape
  <2>1. WalkShape
    BY <1>5 DEF SlotsGone, AdmInv, AdmShape, WalkShape
  <2>. QED
    BY <1>5, <2>1 DEF SlotsGone, SomeKind, Moves, poolSeen
<1>6. ASSUME NEW i \in AdmIssue, StartIssueViaQueue(i)
      PROVE  SomeKind /\ WalkShape
  <2>1. "start" \in AdmCaller
    BY DEF AdmCaller
  <2>2. GoOn("start", CanStart(OnTop(i)), Budget)
    BY <1>6 DEF StartIssueViaQueue, BeginWalk
  <2>3. WalkShape
    BY <2>1, <2>2, GoOnKeepsShape DEF AdmInv
  <2>. QED
    BY <1>6, <2>3 DEF StartIssueViaQueue, SomeKind, Moves, poolSeen
<1>7. ASSUME NEW i \in AdmIssue, ExecuteIssueNow(i)
      PROVE  SomeKind /\ WalkShape
  <2>1. "execute" \in AdmCaller
    BY DEF AdmCaller
  <2>2. WalkShape
    BY <1>7, <2>1, GoOnKeepsShape DEF ExecuteIssueNow, AdmInv
  <2>. QED
    BY <1>7, <2>2 DEF ExecuteIssueNow, SomeKind, Moves, poolSeen
<1>8. ASSUME NEW i \in AdmIssue,
             \/ EnqueueIssue(i) \/ DequeueIssue(i) \/ \E k \in 0..Len(queue) : MoveQueueEntry(i, k)
      PROVE  SomeKind /\ WalkShape
  <2>1. Moves /\ walk' = walk
    BY <1>8 DEF EnqueueIssue, DequeueIssue, MoveQueueEntry, Moves, poolSeen
  <2>. QED
    BY <2>1 DEF AdmInv, AdmShape, SomeKind, WalkShape
<1>9. ASSUME NEW i \in AdmIssue, DecideScope(i)
      PROVE  SomeKind /\ WalkShape
  <2>1. Starts(i) /\ walk' = walk
    BY <1>9 DEF DecideScope, StartWorkflowCore, Starts
  <2>. QED
    BY <2>1 DEF AdmInv, AdmShape, SomeKind, WalkShape
<1>10. ASSUME NEW i \in AdmIssue, ParkOnHuman(i) \/ ResumeByHuman(i)
       PROVE  SomeKind /\ WalkShape
  <2>1. /\ Turns(i, "developing", "needs_human") \/ Turns(i, "needs_human", "developing")
        /\ walk' = walk
    BY <1>10 DEF ParkOnHuman, ResumeByHuman, Turns
  <2>. QED
    BY <2>1 DEF AdmInv, AdmShape, SomeKind, WalkShape
<1>11. ASSUME NEW i \in AdmIssue, EndIssue(i) \/ CloseReadyIssue(i)
       PROVE  SomeKind /\ WalkShape
  <2>1. Ends(i) /\ walk' = walk
    BY <1>11 DEF EndIssue, CloseReadyIssue, Ends
  <2>. QED
    BY <2>1 DEF AdmInv, AdmShape, SomeKind, WalkShape
<1>13. ASSUME NEW i \in AdmIssue, DeleteIssue(i)
       PROVE  SomeKind /\ WalkShape
  <2>1. walk' = walk
    BY <1>13 DEF DeleteIssue
  <2>2. CASE issueStatus[i] # "closed"
    <3>1. Ends(i)
      BY <1>13, <2>2 DEF DeleteIssue, Deletable, Ends
    <3>. QED
      BY <2>1, <3>1 DEF AdmInv, AdmShape, SomeKind, WalkShape
  <2>3. CASE issueStatus[i] = "closed"
    <3>1. Moves
      BY <1>13, <2>3 DEF DeleteIssue, Deletable, Moves, poolSeen, AdmInv, AdmShape, DecisionsOpen
    <3>. QED
      BY <2>1, <3>1 DEF AdmInv, AdmShape, SomeKind, WalkShape
  <2>. QED
    BY <2>2, <2>3
<1>12. ASSUME NEW n \in 1..AdmCeiling, SetLimit(n)
       PROVE  SomeKind /\ WalkShape
  BY <1>12 DEF SetLimit, SomeKind, Limits, AdmInv, AdmShape, WalkShape
<1>. QED
  BY <1>1, <1>2, <1>3, <1>4, <1>5, <1>6, <1>7, <1>8, <1>9, <1>10, <1>11, <1>12,
     <1>13
     DEF AdmNext

-----------------------------------------------------------------------------
(* The invariant *)

LEMMA AdmInitInv == AdmInit => AdmInv
BY DEF AdmInit, AdmInv, AdmShape, OccupantsRun, DecisionsOpen, AdmStatuses

LEMMA AdmNextInv ==
  ASSUME AdmInv, [AdmNext]_admVars
  PROVE  AdmInv'
<1>1. SomeKind /\ WalkShape
  BY KindOfStep
<1>2. issueStatus' \in [AdmIssue -> AdmStatuses]
  BY <1>1 DEF AdmInv, AdmShape, AdmStatuses, SomeKind, Moves, poolSeen, Starts, Turns,
              Ends, Limits
<1>3. /\ instances' \in SUBSET AdmIssue
      /\ decisions' \in SUBSET AdmIssue
      /\ limit' \in 1..AdmCeiling
  BY <1>1 DEF AdmInv, AdmShape, SomeKind, Moves, poolSeen, Starts, Turns, Ends, Limits
<1>4. OccupantsRun'
  BY <1>1 DEF AdmInv, AdmShape, OccupantsRun, SomeKind, Moves, poolSeen, Starts, Turns,
              Ends, Limits
<1>5. DecisionsOpen'
  BY <1>1 DEF AdmInv, AdmShape, DecisionsOpen, SomeKind, Moves, poolSeen, Starts, Turns,
              Ends, Limits
<1>. QED
  BY <1>1, <1>2, <1>3, <1>4, <1>5 DEF AdmInv, AdmShape, WalkShape

\* Whoever occupies a slot has a workflow instance, whatever is queued, started,
\* parked, resumed and ended in between.
THEOREM OccupantsRunAlways == AdmSpec => []AdmInv
<1>1. AdmInv /\ [AdmNext]_admVars => AdmInv'
  BY AdmNextInv
<1>. QED
  BY AdmInitInv, <1>1, PTL DEF AdmSpec

-----------------------------------------------------------------------------
(* The refinement *)

LEMMA PoolFateType ==
  ASSUME AdmInv
  PROVE  /\ PoolFate = [i \in AdmIssue |-> PoolFate[i]]
         /\ Pool!Running = Occupying
BY DEF AdmInv, AdmShape, OccupantsRun, PoolFate, Pool!Running, Occupying

\* SlotPool counts with its own instance of FiniteSets.
LEMMA SameCount == \A S : Pool!Cardinality(S) = Cardinality(S)
BY Zenon DEF Pool!Cardinality, Cardinality

LEMMA InitRefines == AdmInit => Pool!Init
BY DEF AdmInit, Pool!Init, PoolFate

\* Two functions on the issues that agree everywhere are equal.
LEMMA FateBecomes ==
  ASSUME NEW i \in AdmIssue, NEW f,
         PoolFate'[i] = f,
         \A j \in AdmIssue : j # i => PoolFate'[j] = PoolFate[j]
  PROVE  Pool!Becomes(i, f)
BY DEF PoolFate, Pool!Becomes

LEMMA StepRefines ==
  ASSUME AdmInv, [AdmNext]_admVars
  PROVE  [Pool!Next]_(Pool!pool)
<1>1. SomeKind
  BY KindOfStep
<1>2. CASE Moves
  BY <1>2 DEF Moves, poolSeen, PoolFate, Pool!pool
<1>3. ASSUME NEW i \in AdmIssue, Starts(i)
      PROVE  Pool!Admit(i) \/ Pool!StartByMandate(i)
  <2>1. PoolFate[i] = "waiting" /\ PoolFate'[i] = "running"
    BY <1>3 DEF Starts, Startable, PoolFate, AdmInv, AdmShape
  <2>2. \A j \in AdmIssue : j # i => PoolFate'[j] = PoolFate[j]
    BY <1>3 DEF Starts, PoolFate, AdmInv, AdmShape
  <2>3. Pool!Becomes(i, "running")
    BY <2>1, <2>2, FateBecomes
  <2>4. CASE i \in decisions
    BY <1>3, <2>1, <2>3, <2>4 DEF Starts, Pool!StartByMandate
  <2>5. CASE SlotStillFree
    <3>1. Cardinality(Occupying) \in Nat
      BY AdmAssumption, FS_CardinalityType, FS_Subset DEF Occupying
    <3>2. Cardinality(Occupying) < limit
      BY <2>5, <3>1 DEF SlotStillFree, FreeSlots, AdmInv, AdmShape
    <3>3. Pool!Cardinality(Pool!Running) < limit
      BY <3>2, PoolFateType, SameCount
    <3>. QED
      BY <1>3, <2>1, <2>3, <3>3 DEF Starts, Pool!Admit
  <2>. QED
    BY <1>3, <2>4, <2>5 DEF Starts
<1>4. ASSUME NEW i \in AdmIssue, Turns(i, "developing", "needs_human")
      PROVE  Pool!Pause(i)
  <2>1. PoolFate[i] = "running" /\ PoolFate'[i] = "paused"
    BY <1>4 DEF Turns, PoolFate, AdmInv, AdmShape
  <2>2. \A j \in AdmIssue : j # i => PoolFate'[j] = PoolFate[j]
    BY <1>4 DEF Turns, PoolFate, AdmInv, AdmShape
  <2>. QED
    BY <1>4, <2>1, <2>2, FateBecomes DEF Turns, Pool!Pause
<1>5. ASSUME NEW i \in AdmIssue, Turns(i, "needs_human", "developing")
      PROVE  Pool!Resume(i)
  <2>1. PoolFate[i] = "paused" /\ PoolFate'[i] = "running"
    BY <1>5 DEF Turns, PoolFate, AdmInv, AdmShape
  <2>2. \A j \in AdmIssue : j # i => PoolFate'[j] = PoolFate[j]
    BY <1>5 DEF Turns, PoolFate, AdmInv, AdmShape
  <2>. QED
    BY <1>5, <2>1, <2>2, FateBecomes DEF Turns, Pool!Resume
<1>6. ASSUME NEW i \in AdmIssue, Ends(i)
      PROVE  Pool!End(i)
  <2>1. PoolFate[i] # "over" /\ PoolFate'[i] = "over"
    BY <1>6 DEF Ends, PoolFate, AdmInv, AdmShape
  <2>2. \A j \in AdmIssue : j # i => PoolFate'[j] = PoolFate[j]
    BY <1>6 DEF Ends, PoolFate, AdmInv, AdmShape
  <2>. QED
    BY <1>6, <2>1, <2>2, FateBecomes DEF Ends, Pool!End
<1>7. CASE Limits
  <2>1. \E n \in 1..AdmCeiling : limit' = n
    BY <1>7 DEF Limits
  <2>2. PoolFate' = PoolFate
    BY <1>7 DEF Limits, PoolFate
  <2>. QED
    BY <1>7, <2>1, <2>2 DEF Limits, Pool!SetSlots, Pool!Next
<1>. QED
  BY <1>1, <1>2, <1>3, <1>4, <1>5, <1>6, <1>7 DEF SomeKind, Pool!Next

\* Whatever tick, Start and Execute now interleave, for any number of issues
\* and any limit: every start takes a slot free at that instant, only a human
\* decision or resume goes past the limit, and nothing starts twice.
THEOREM AdmissionImplementsSlotPool == AdmSpec => ImplementsSlotPool
<1>1. AdmInv /\ [AdmNext]_admVars => [Pool!Next]_(Pool!pool)
  BY StepRefines
<1>. QED
  BY InitRefines, OccupantsRunAlways, <1>1, PTL
     DEF AdmSpec, ImplementsSlotPool, Pool!Spec

-----------------------------------------------------------------------------
(* Dequeuing *)

Heeds ==
  \A c \in {"tick", "start"}, i \in AdmIssue :
    walk'[c] # walk[c] /\ i \in instances' \ instances => Queued(i)

\* Only Admit starts an issue by a walk, and it looks at the queue.
LEMMA StepHeedsQueue ==
  ASSUME AdmInv, [AdmNext]_admVars
  PROVE  Heeds
<1>1. CASE UNCHANGED <<instances>> \/ UNCHANGED <<walk>> \/ instances' \subseteq instances
  BY <1>1 DEF Heeds
<1>2. ASSUME NEW c \in AdmCaller, NEW i \in AdmIssue, Admit(c, i)
      PROVE  Heeds
  <2>1. instances' = instances \cup {i} /\ StillWanted(c, i)
    BY <1>2 DEF Admit, StartWorkflowCore
  <2>2. \A d \in AdmCaller : d # c => walk'[d] = walk[d]
    BY <1>2, GoOnKeepsShape DEF Admit, AdmInv
  <2>3. {"tick", "start"} \subseteq AdmCaller /\ "execute" \notin {"tick", "start"}
    BY DEF AdmCaller
  <2>. QED
    BY <2>1, <2>2, <2>3 DEF Heeds, StillWanted
<1>3. CASE TickWalk
  BY <1>1, <1>3 DEF TickWalk
<1>4. ASSUME NEW c \in AdmCaller, NEW i \in AdmIssue, PassOver(c, i) \/ SlotsGone(c, i)
      PROVE  instances' = instances
  BY <1>4 DEF PassOver, SlotsGone
<1>5. ASSUME NEW i \in AdmIssue,
             \/ StartIssueViaQueue(i) \/ ExecuteIssueNow(i) \/ EnqueueIssue(i)
             \/ DequeueIssue(i) \/ ParkOnHuman(i) \/ ResumeByHuman(i)
             \/ \E k \in 0..Len(queue) : MoveQueueEntry(i, k)
      PROVE  instances' = instances
  BY <1>5 DEF StartIssueViaQueue, ExecuteIssueNow, EnqueueIssue, DequeueIssue,
              ParkOnHuman, ResumeByHuman, MoveQueueEntry
<1>6. ASSUME NEW i \in AdmIssue, DecideScope(i) \/ EndIssue(i) \/ CloseReadyIssue(i)
                            \/ DeleteIssue(i)
      PROVE  walk' = walk
  BY <1>6 DEF DecideScope, EndIssue, CloseReadyIssue, DeleteIssue
<1>7. ASSUME NEW n \in 1..AdmCeiling, SetLimit(n)
      PROVE  walk' = walk
  BY <1>7 DEF SetLimit
<1>8. CASE UNCHANGED admVars
  BY <1>1, <1>8 DEF admVars
<1>. QED
  BY <1>1, <1>2, <1>3, <1>4, <1>5, <1>6, <1>7, <1>8 DEF AdmNext

\* An operator's dequeue holds against any walk that was already in flight.
THEOREM DequeueHoldsAlways == AdmSpec => DequeueHolds
<1>1. AdmInv /\ [AdmNext]_admVars => [Heeds]_admVars
  BY StepHeedsQueue
<1>. QED
  BY OccupantsRunAlways, <1>1, PTL DEF AdmSpec, DequeueHolds, Heeds

-----------------------------------------------------------------------------
(* What Among picks of a queue: by induction on its length.  The step is   *)
(* over a set of numbers, so that no operator is instantiated.             *)

LEMMA LeastElement ==
  ASSUME NEW T, T \subseteq Nat, T # {}
  PROVE  \E x \in T : \A y \in T : x <= y
<1>1. PICK x \in T : \A y \in T : ~(<<y, x>> \in OpToRel(<, Nat))
  BY WFMin, NatLessThanWellFounded
<1>2. ASSUME NEW y \in T PROVE x <= y
  <2>1. ~(<<y, x>> \in {ss \in Nat \X Nat : ss[1] < ss[2]})
    BY <1>1, Zenon DEF OpToRel
  <2>2. x \in Nat /\ y \in Nat
    OBVIOUS
  <2>3. ~(y < x)
    BY <2>1, <2>2
  <2> QED
    BY <2>2, <2>3
<1> QED
  BY <1>2

LEMMA Induction ==
  ASSUME NEW T, 0 \in T, \A n \in Nat : n \in T => n + 1 \in T
  PROVE  Nat \subseteq T
<1> SUFFICES ASSUME ~(Nat \subseteq T) PROVE FALSE
  OBVIOUS
<1> DEFINE U == Nat \ T
<1>1. U \subseteq Nat /\ U # {}
  OBVIOUS
<1> HIDE DEF U
<1>2. PICK x \in U : \A y \in U : x <= y
  BY <1>1, LeastElement
<1>3. x # 0 /\ x \in Nat
  BY <1>2, <1>1 DEF U
<1>4. x - 1 \in Nat /\ x - 1 \notin U
  BY <1>2, <1>3
<1>5. x - 1 \in T
  BY <1>4 DEF U
<1>6. x \in T
  BY <1>5, <1>3, <1>4
<1> QED
  BY <1>6, <1>2 DEF U

\* g builds, entry by entry, what Among builds of the first n entries
Builds(g, n, q, S) ==
  g = [m \in 0..n |-> IF m = 0 THEN <<>>
                      ELSE IF q[m] \in S THEN Append(g[m - 1], q[m]) ELSE g[m - 1]]

LEMMA Built ==
  ASSUME NEW q, NEW S, Len(q) \in Nat
  PROVE  \E g : Builds(g, Len(q), q, S)
<1> DEFINE T == {n \in Nat : \E g : Builds(g, n, q, S)}
<1>1. 0 \in T
  <2>1. Builds([m \in 0..0 |-> <<>>], 0, q, S)
    BY DEF Builds
  <2> QED
    BY <2>1
<1>2. ASSUME NEW n \in Nat, n \in T PROVE n + 1 \in T
  <2>1. PICK g : Builds(g, n, q, S)
    BY <1>2
  <2> DEFINE next == IF q[n + 1] \in S THEN Append(g[n], q[n + 1]) ELSE g[n]
             h == [m \in 0..(n + 1) |-> IF m = n + 1 THEN next ELSE g[m]]
  <2>2. ASSUME NEW m \in 0..(n + 1)
        PROVE  h[m] = IF m = 0 THEN <<>>
                      ELSE IF q[m] \in S THEN Append(h[m - 1], q[m]) ELSE h[m - 1]
    <3>1. CASE m = n + 1
      <4>1. h[m] = next /\ m - 1 = n /\ h[m - 1] = g[n]
        BY <3>1
      <4> QED
        BY <3>1, <4>1
    <3>2. CASE m \in 0..n
      <4>1. h[m] = g[m] /\ (m # 0 => h[m - 1] = g[m - 1])
        BY <3>2
      <4>2. g[m] = IF m = 0 THEN <<>>
                   ELSE IF q[m] \in S THEN Append(g[m - 1], q[m]) ELSE g[m - 1]
        BY <2>1, <3>2 DEF Builds
      <4> QED
        BY <4>1, <4>2
    <3> QED
      BY <3>1, <3>2
  <2>3. Builds(h, n + 1, q, S)
    <3>1. h = [m \in 0..(n + 1) |-> h[m]]
      OBVIOUS
    <3> HIDE DEF h
    <3> QED
      BY <2>2, <3>1 DEF Builds
  <2> QED
    BY <2>3
<1> HIDE DEF T
<1>3. Nat \subseteq T
  BY <1>1, <1>2, Induction
<1> QED
  BY <1>3 DEF T

LEMMA AmongIsBuilt ==
  ASSUME NEW q, NEW S, Len(q) \in Nat
  PROVE  \E g : Builds(g, Len(q), q, S) /\ Among(q, S) = g[Len(q)]
<1> DEFINE f == CHOOSE g : Builds(g, Len(q), q, S)
<1>1. Builds(f, Len(q), q, S)
  BY Built, Zenon
<1>2. Among(q, S) = f[Len(q)]
  BY Zenon DEF Among, Builds
<1> QED
  BY <1>1, <1>2

Once(q) == \A j, k \in DOMAIN q : q[j] = q[k] => j = k

\* s holds the entries of q's first n that are in S, in their order
Picks(s, n, q, S, pos) ==
  /\ pos \in [1..Len(s) -> 1..n]
  /\ \A j, k \in 1..Len(s) : j < k => pos[j] < pos[k]
  /\ \A k \in 1..Len(s) : s[k] = q[pos[k]] /\ s[k] \in S
  /\ \A m \in 1..n : q[m] \in S => \E k \in 1..Len(s) : pos[k] = m
IsPartOf(s, n, q, S) == \E pos : Picks(s, n, q, S, pos)

LEMMA PartStays ==
  ASSUME NEW A, NEW s \in Seq(A), NEW n \in Nat, NEW q, NEW S,
         IsPartOf(s, n, q, S), q[n + 1] \notin S
  PROVE  IsPartOf(s, n + 1, q, S)
<1>1. PICK pos : Picks(s, n, q, S, pos)
  BY DEF IsPartOf
<1>2. Picks(s, n + 1, q, S, pos)
  BY <1>1 DEF Picks
<1> QED
  BY <1>2 DEF IsPartOf

LEMMA PartGrows ==
  ASSUME NEW A, NEW s \in Seq(A), NEW n \in Nat, NEW q, NEW S,
         IsPartOf(s, n, q, S), q[n + 1] \in S, q[n + 1] \in A
  PROVE  IsPartOf(Append(s, q[n + 1]), n + 1, q, S)
<1>1. PICK pos : Picks(s, n, q, S, pos)
  BY DEF IsPartOf
<1> DEFINE t == Append(s, q[n + 1])
           l == Len(s)
           p == [k \in 1..(l + 1) |-> IF k = l + 1 THEN n + 1 ELSE pos[k]]
<1>2. /\ l \in Nat /\ Len(t) = l + 1 /\ t[l + 1] = q[n + 1]
      /\ \A k \in 1..l : t[k] = s[k]
  OBVIOUS
<1> HIDE DEF t, l
<1>3. /\ \A k \in 1..l : pos[k] \in 1..n
      /\ \A j, k \in 1..l : j < k => pos[j] < pos[k]
      /\ \A k \in 1..l : s[k] = q[pos[k]] /\ s[k] \in S
      /\ \A m \in 1..n : q[m] \in S => \E k \in 1..l : pos[k] = m
  BY <1>1 DEF Picks, l
<1>4. l + 1 \in 1..(l + 1) /\ \A k \in 1..l : k \in 1..(l + 1) /\ k # l + 1
  BY <1>2
<1>5. p[l + 1] = n + 1 /\ \A k \in 1..l : p[k] = pos[k]
  BY <1>4
<1>6. p \in [1..(l + 1) -> 1..(n + 1)]
  <2>1. \A k \in 1..(l + 1) : k = l + 1 \/ k \in 1..l
    BY <1>2
  <2>2. \A k \in 1..(l + 1) : p[k] \in 1..(n + 1)
    BY <1>3, <1>5, <2>1
  <2> QED
    BY <2>2
<1> HIDE DEF p
<1>7. \A j, k \in 1..(l + 1) : j < k => p[j] < p[k]
  <2> SUFFICES ASSUME NEW j \in 1..(l + 1), NEW k \in 1..(l + 1), j < k
               PROVE  p[j] < p[k]
    OBVIOUS
  <2>1. j \in 1..l
    BY <1>2
  <2>2. CASE k = l + 1
    BY <1>3, <1>5, <2>1, <2>2
  <2>3. CASE k # l + 1
    <3>1. k \in 1..l
      BY <1>2, <2>3
    <3> QED
      BY <1>3, <1>5, <2>1, <3>1
  <2> QED
    BY <2>2, <2>3
<1>8. \A k \in 1..(l + 1) : t[k] = q[p[k]] /\ t[k] \in S
  <2>1. \A k \in 1..(l + 1) : k = l + 1 \/ k \in 1..l
    BY <1>2
  <2> QED
    BY <1>2, <1>3, <1>5, <2>1
<1>9. \A m \in 1..(n + 1) : q[m] \in S => \E k \in 1..(l + 1) : p[k] = m
  <2> SUFFICES ASSUME NEW m \in 1..(n + 1), q[m] \in S
               PROVE  \E k \in 1..(l + 1) : p[k] = m
    OBVIOUS
  <2>1. CASE m = n + 1
    BY <1>4, <1>5, <2>1
  <2>2. CASE m # n + 1
    <3>1. m \in 1..n
      BY <2>2
    <3> QED
      BY <1>3, <1>4, <1>5, <3>1
  <2> QED
    BY <2>1, <2>2
<1>10. Picks(t, n + 1, q, S, p)
  BY <1>2, <1>6, <1>7, <1>8, <1>9 DEF Picks
<1> QED
  BY <1>10 DEF IsPartOf, t

LEMMA AmongIsPart ==
  ASSUME NEW A, NEW q \in Seq(A), NEW S
  PROVE  Among(q, S) \in Seq(A) /\ IsPartOf(Among(q, S), Len(q), q, S)
<1>1. PICK g : Builds(g, Len(q), q, S) /\ Among(q, S) = g[Len(q)]
  BY AmongIsBuilt
<1> DEFINE T == {n \in Nat : n <= Len(q) => g[n] \in Seq(A) /\ IsPartOf(g[n], n, q, S)}
<1>2. 0 \in T
  <2>1. g[0] = <<>>
    BY <1>1 DEF Builds
  <2>2. Picks(<<>>, 0, q, S, [k \in 1..0 |-> 0])
    BY DEF Picks
  <2>3. IsPartOf(<<>>, 0, q, S) /\ <<>> \in Seq(A)
    BY <2>2 DEF IsPartOf
  <2> QED
    BY <2>1, <2>3
<1>3. ASSUME NEW n \in Nat, n \in T PROVE n + 1 \in T
  <2> SUFFICES ASSUME n + 1 <= Len(q)
               PROVE  g[n + 1] \in Seq(A) /\ IsPartOf(g[n + 1], n + 1, q, S)
    OBVIOUS
  <2>1. g[n] \in Seq(A) /\ IsPartOf(g[n], n, q, S)
    BY <1>3
  <2>2. g[n + 1] = IF q[n + 1] \in S THEN Append(g[n], q[n + 1]) ELSE g[n]
    <3>1. n + 1 \in 0..Len(q) /\ n + 1 # 0 /\ (n + 1) - 1 = n
      OBVIOUS
    <3> QED
      BY <1>1, <3>1 DEF Builds
  <2>3. q[n + 1] \in A
    OBVIOUS
  <2> QED
    BY <2>1, <2>2, <2>3, PartStays, PartGrows
<1> HIDE DEF T
<1>4. Nat \subseteq T
  BY <1>2, <1>3, Induction
<1> QED
  BY <1>1, <1>4 DEF T

LEMMA AmongOnce ==
  ASSUME NEW A, NEW q \in Seq(A), NEW S, Once(q)
  PROVE  Once(Among(q, S))
<1>1. PICK pos : Picks(Among(q, S), Len(q), q, S, pos)
  BY AmongIsPart DEF IsPartOf
<1>2. Among(q, S) \in Seq(A)
  BY AmongIsPart
<1> DEFINE s == Among(q, S)
<1> HIDE DEF s
<1>3. ASSUME NEW j \in 1..Len(s), NEW k \in 1..Len(s), s[j] = s[k]
      PROVE  j = k
  <2>1. pos[j] \in 1..Len(q) /\ pos[k] \in 1..Len(q) /\ q[pos[j]] = q[pos[k]]
    BY <1>1, <1>3 DEF Picks, s
  <2>2. pos[j] = pos[k]
    BY <2>1 DEF Once
  <2>3. ~(j < k) /\ ~(k < j)
    BY <1>1, <2>1, <2>2 DEF Picks, s
  <2> QED
    BY <2>3
<1> QED
  BY <1>2, <1>3 DEF Once, s

-----------------------------------------------------------------------------
(* The queue and the walks *)

QueueOK == queue \in Seq(AdmIssue) /\ Once(queue)

\* a walk in flight has a slot left to fill
WalksOK ==
  /\ walk \in [AdmCaller -> [todo : Seq(AdmIssue), left : 0..AdmCeiling]]
  /\ \A c \in AdmCaller : InFlight(c) => walk[c].left > 0
QueueInv == QueueOK /\ WalksOK

LEMMA AmongIsQueue ==
  ASSUME NEW q \in Seq(AdmIssue), NEW S
  PROVE  /\ Among(q, S) \in Seq(AdmIssue)
         /\ Once(q) => Once(Among(q, S))
         /\ \A k \in DOMAIN Among(q, S) : Among(q, S)[k] \in S
BY AmongIsPart, AmongOnce DEF IsPartOf, Picks

LEMMA WithoutIsQueue ==
  ASSUME NEW q \in Seq(AdmIssue), NEW i \in AdmIssue
  PROVE  /\ Without(q, i) \in Seq(AdmIssue)
         /\ Once(q) => Once(Without(q, i))
         /\ \A k \in DOMAIN Without(q, i) : Without(q, i)[k] # i
BY AmongIsQueue DEF Without

\* one entry put in among others that it is not one of
InsertedAt(q, i, n) == SubSeq(q, 1, n) \o <<i>> \o SubSeq(q, n + 1, Len(q))

LEMMA PlacesOf ==
  ASSUME NEW A, NEW q \in Seq(A), NEW i \in A, NEW n \in 0..Len(q)
  PROVE  /\ InsertedAt(q, i, n) \in Seq(A) /\ Len(InsertedAt(q, i, n)) = Len(q) + 1
         /\ DOMAIN InsertedAt(q, i, n) = 1..Len(InsertedAt(q, i, n))
         /\ \A k \in 1..n : InsertedAt(q, i, n)[k] = q[k]
         /\ InsertedAt(q, i, n)[n + 1] = i
         /\ \A k \in (n + 2)..(Len(q) + 1) : InsertedAt(q, i, n)[k] = q[k - 1]
<1> DEFINE p == InsertedAt(q, i, n)
           a == SubSeq(q, 1, n)
           b == SubSeq(q, n + 1, Len(q))
           c == a \o <<i>>
<1>a. a \in Seq(A) /\ Len(a) = n /\ \A k \in 1..n : a[k] = q[k]
  OBVIOUS
<1>b. b \in Seq(A) /\ Len(b) = Len(q) - n /\ \A k \in 1..(Len(q) - n) : b[k] = q[n + k]
  OBVIOUS
<1> HIDE DEF a, b
<1>c. /\ c \in Seq(A) /\ Len(c) = n + 1
      /\ \A k \in 1..n : c[k] = q[k]
      /\ c[n + 1] = i
  BY <1>a
<1> HIDE DEF c
<1>d. p = c \o b
  BY DEF p, a, b, c, InsertedAt
<1> HIDE DEF p
<1>1. p \in Seq(A) /\ Len(p) = Len(q) + 1
  <2>1. p \in Seq(A) /\ Len(p) = Len(c) + Len(b)
    BY <1>b, <1>c, <1>d, ConcatProperties
  <2> QED
    BY <1>b, <1>c, <2>1
<1>2. /\ \A k \in 1..n : p[k] = q[k]
      /\ p[n + 1] = i
      /\ \A k \in (n + 2)..(Len(q) + 1) : p[k] = q[k - 1]
  <2>1. \A k \in 1..(n + 1) : p[k] = c[k]
    BY <1>b, <1>c, <1>d
  <2>2. ASSUME NEW k \in (n + 2)..(Len(q) + 1)
        PROVE  p[k] = q[k - 1]
    <3>1. p[k] = b[k - (n + 1)]
      BY <1>b, <1>c, <1>d
    <3>2. k - (n + 1) \in 1..(Len(q) - n) /\ n + (k - (n + 1)) = k - 1
      OBVIOUS
    <3> QED
      BY <1>b, <3>1, <3>2
  <2> QED
    BY <1>c, <2>1, <2>2
<1> QED
  BY <1>1, <1>2 DEF p

LEMMA PutIn ==
  ASSUME NEW A, NEW q \in Seq(A), Once(q), NEW i \in A, NEW n \in 0..Len(q),
         \A m \in DOMAIN q : q[m] # i
  PROVE  /\ InsertedAt(q, i, n) \in Seq(A) /\ Once(InsertedAt(q, i, n))
         /\ \E k \in DOMAIN InsertedAt(q, i, n) : InsertedAt(q, i, n)[k] = i
         /\ \A m \in DOMAIN q :
              \E k \in DOMAIN InsertedAt(q, i, n) : InsertedAt(q, i, n)[k] = q[m]
<1> DEFINE p == InsertedAt(q, i, n)
<1>1. p \in Seq(A) /\ Len(p) = Len(q) + 1
  BY PlacesOf
<1>2. /\ \A k \in 1..n : p[k] = q[k]
      /\ p[n + 1] = i
      /\ \A k \in (n + 2)..(Len(q) + 1) : p[k] = q[k - 1]
  BY PlacesOf
<1> HIDE DEF p
<1>3. ASSUME NEW j \in 1..Len(p), NEW k \in 1..Len(p), p[j] = p[k]
      PROVE  j = k
  <2> DEFINE old(m) == IF m <= n THEN m ELSE m - 1
  <2>1. ASSUME NEW m \in 1..Len(p), m # n + 1
        PROVE  old(m) \in 1..Len(q) /\ p[m] = q[old(m)]
    <3>1. CASE m <= n
      <4>1. m \in 1..n /\ m \in 1..Len(q) /\ old(m) = m
        BY <1>1, <3>1
      <4> QED
        BY <1>2, <4>1
    <3>2. CASE m > n
      <4>1. m \in (n + 2)..(Len(q) + 1) /\ m - 1 \in 1..Len(q) /\ old(m) = m - 1
        BY <1>1, <2>1, <3>2
      <4> QED
        BY <1>2, <4>1
    <3> QED
      BY <3>1, <3>2
  <2> HIDE DEF old
  <2>2. (j = n + 1) <=> (k = n + 1)
    BY <1>2, <1>3, <2>1
  <2>3. CASE j # n + 1
    <3>1. old(j) = old(k)
      BY <1>3, <2>1, <2>2, <2>3 DEF Once
    <3> QED
      BY <2>2, <2>3, <3>1 DEF old
  <2> QED
    BY <2>2, <2>3
<1>4. \A m \in 1..Len(q) : \E k \in 1..Len(p) : p[k] = q[m]
  <2> SUFFICES ASSUME NEW m \in 1..Len(q) PROVE \E k \in 1..Len(p) : p[k] = q[m]
    OBVIOUS
  <2>1. CASE m <= n
    BY <1>1, <1>2, <2>1
  <2>2. CASE m > n
    <3>1. m + 1 \in (n + 2)..(Len(q) + 1) /\ (m + 1) - 1 = m /\ m + 1 \in 1..Len(p)
      BY <1>1, <2>2
    <3> QED
      BY <1>2, <3>1
  <2> QED
    BY <2>1, <2>2
<1>5. Once(p)
  BY <1>1, <1>3 DEF Once
<1>6. n + 1 \in DOMAIN p /\ DOMAIN p = 1..Len(p) /\ DOMAIN q = 1..Len(q)
  BY <1>1
<1> QED
  BY <1>1, <1>2, <1>4, <1>5, <1>6 DEF p

LEMMA OnTopInserts ==
  ASSUME QueueOK, NEW i \in AdmIssue
  PROVE  OnTop(i) = InsertedAt(Without(queue, i), i, 0) /\ 0 \in 0..Len(Without(queue, i))
<1> DEFINE q == Without(queue, i)
<1>1. q \in Seq(AdmIssue)
  BY WithoutIsQueue DEF QueueOK
<1> HIDE DEF q
<1>2. SubSeq(q, 1, 0) \o <<i>> \o SubSeq(q, 0 + 1, Len(q)) = <<i>> \o q
  <2>1. SubSeq(q, 1, 0) = <<>>
    BY SubSeqEmpty
  <2>2. SubSeq(q, 0 + 1, Len(q)) = q
    BY <1>1, SubSeqFull
  <2>3. <<>> \o <<i>> = <<i>>
    BY ConcatEmptySeq, <<i>> \in Seq({i})
  <2> QED
    BY <2>1, <2>2, <2>3
<1>3. 0 \in 0..Len(q)
  BY <1>1
<1> QED
  BY <1>2, <1>3 DEF InsertedAt, OnTop, q

LEMMA OnTopIsQueue ==
  ASSUME QueueOK, NEW i \in AdmIssue
  PROVE  OnTop(i) \in Seq(AdmIssue) /\ Once(OnTop(i))
<1>1. /\ Without(queue, i) \in Seq(AdmIssue) /\ Once(Without(queue, i))
      /\ \A k \in DOMAIN Without(queue, i) : Without(queue, i)[k] # i
  BY WithoutIsQueue DEF QueueOK
<1> QED
  BY <1>1, OnTopInserts, PutIn

LEMMA MoveIsQueue ==
  ASSUME QueueOK, NEW i \in AdmIssue, NEW k \in 0..Len(queue), MoveQueueEntry(i, k)
  PROVE  /\ QueueOK'
         /\ queue' = InsertedAt(Without(queue, i), i, k)
         /\ Without(queue, i) \in Seq(AdmIssue) /\ Once(Without(queue, i))
         /\ \A m \in DOMAIN Without(queue, i) : Without(queue, i)[m] # i
         /\ k \in 0..Len(Without(queue, i))
<1> DEFINE q == Without(queue, i)
<1>1. q \in Seq(AdmIssue) /\ Once(q) /\ \A m \in DOMAIN q : q[m] # i
  BY WithoutIsQueue DEF QueueOK
<1>2. k \in 0..Len(q) /\ queue' = InsertedAt(q, i, k)
  BY DEF MoveQueueEntry, InsertedAt
<1> HIDE DEF q
<1>3. QueueOK'
  BY <1>1, <1>2, PutIn DEF QueueOK
<1> QED
  BY <1>1, <1>2, <1>3 DEF q

LEMMA AppendOnce ==
  ASSUME NEW A, NEW q \in Seq(A), NEW i \in A, Once(q), \A k \in DOMAIN q : q[k] # i
  PROVE  Append(q, i) \in Seq(A) /\ Once(Append(q, i))
BY DEF Once

LEMMA GoOnKeepsWalks ==
  ASSUME WalksOK, NEW c \in AdmCaller, NEW todo \in Seq(AdmIssue),
         NEW left \in 0..AdmCeiling, GoOn(c, todo, left)
  PROVE  WalksOK'
<1> DEFINE next == IF left = 0 \/ todo = <<>> THEN NoWalk ELSE [todo |-> todo, left |-> left]
<1>1. /\ next \in [todo : Seq(AdmIssue), left : 0..AdmCeiling]
      /\ next.todo # <<>> => next.left > 0
  BY AdmAssumption DEF NoWalk
<1>2. walk' = [walk EXCEPT ![c] = next]
  BY DEF GoOn
<1> HIDE DEF next
<1> QED
  BY <1>1, <1>2 DEF WalksOK, InFlight

LEMMA BudgetInRange ==
  ASSUME AdmInv
  PROVE  Budget \in 0..AdmCeiling
<1>1. Occupying \subseteq AdmIssue
  BY DEF Occupying
<1>2. Cardinality(Occupying) \in Nat
  BY <1>1, FS_Subset, FS_CardinalityType, AdmAssumption
<1> QED
  BY <1>2, AdmAssumption DEF Budget, FreeSlots, AdmInv, AdmShape

LEMMA RestOfWalk ==
  ASSUME WalksOK, NEW c \in AdmCaller, NEW i, Current(c, i)
  PROVE  /\ CanStart(Tail(walk[c].todo)) \in Seq(AdmIssue)
         /\ walk[c].left \in 1..AdmCeiling
<1>1. walk[c].todo \in Seq(AdmIssue) /\ walk[c].todo # <<>>
  BY DEF WalksOK, Current, InFlight
<1>2. Tail(walk[c].todo) \in Seq(AdmIssue)
  BY <1>1
<1>3. CanStart(Tail(walk[c].todo)) \in Seq(AdmIssue)
  BY <1>2, AmongIsQueue DEF CanStart
<1> QED
  BY <1>3 DEF WalksOK, Current

\* a walk begins on a queue the operator or nobody has touched
LEMMA BeginWalkKeeps ==
  ASSUME AdmInv, WalksOK, NEW c \in AdmCaller, NEW q \in Seq(AdmIssue), Once(q),
         BeginWalk(c, q)
  PROVE  QueueInv'
<1>1. Housekept(q) \in Seq(AdmIssue) /\ Once(Housekept(q))
  BY AmongIsQueue DEF Housekept
<1>2. CanStart(q) \in Seq(AdmIssue)
  BY AmongIsQueue DEF CanStart
<1>3. WalksOK'
  BY <1>2, BudgetInRange, GoOnKeepsWalks DEF BeginWalk
<1> QED
  BY <1>1, <1>3 DEF BeginWalk, QueueInv, QueueOK

LEMMA QueueNextInv ==
  ASSUME AdmInv, QueueInv, [AdmNext]_admVars
  PROVE  QueueInv'
<1>0. QueueOK /\ WalksOK
  BY DEF QueueInv
<1>1. ASSUME UNCHANGED <<queue, walk>>
      PROVE  QueueInv'
  BY <1>1 DEF QueueInv, QueueOK, WalksOK, InFlight
<1>2. CASE TickWalk
  BY <1>0, <1>2, BeginWalkKeeps DEF TickWalk, QueueOK, AdmCaller
<1>3. ASSUME NEW i \in AdmIssue, StartIssueViaQueue(i)
      PROVE  QueueInv'
  BY <1>0, <1>3, OnTopIsQueue, BeginWalkKeeps DEF StartIssueViaQueue, AdmCaller
<1>4. ASSUME NEW i \in AdmIssue, ExecuteIssueNow(i)
      PROVE  QueueInv'
  <2>1. WalksOK'
    <3>1. <<i>> \in Seq(AdmIssue) /\ 1 \in 0..AdmCeiling /\ "execute" \in AdmCaller
      BY AdmAssumption DEF AdmCaller
    <3> QED
      BY <1>0, <1>4, <3>1, GoOnKeepsWalks DEF ExecuteIssueNow
  <2> QED
    BY <1>0, <1>4, <2>1 DEF ExecuteIssueNow, QueueInv, QueueOK
<1>5. ASSUME NEW c \in AdmCaller, NEW i \in AdmIssue, Admit(c, i)
      PROVE  QueueInv'
  <2>1. walk[c].left - 1 \in 0..AdmCeiling /\ CanStart(Tail(walk[c].todo)) \in Seq(AdmIssue)
    BY <1>0, <1>5, RestOfWalk, AdmAssumption DEF Admit
  <2>2. WalksOK'
    BY <1>0, <1>5, <2>1, GoOnKeepsWalks DEF Admit
  <2>3. QueueOK'
    BY <1>0, <1>5, WithoutIsQueue DEF Admit, StartWorkflowCore, QueueOK
  <2> QED
    BY <2>2, <2>3 DEF QueueInv
<1>6. ASSUME NEW c \in AdmCaller, NEW i \in AdmIssue, PassOver(c, i)
      PROVE  QueueInv'
  <2>1. walk[c].left \in 0..AdmCeiling /\ CanStart(Tail(walk[c].todo)) \in Seq(AdmIssue)
    BY <1>0, <1>6, RestOfWalk, AdmAssumption DEF PassOver
  <2>2. WalksOK'
    BY <1>0, <1>6, <2>1, GoOnKeepsWalks DEF PassOver
  <2> QED
    BY <1>0, <1>6, <2>2 DEF PassOver, QueueInv, QueueOK
<1>7. ASSUME NEW c \in AdmCaller, NEW i \in AdmIssue, SlotsGone(c, i)
      PROVE  QueueInv'
  <2>1. GoOn(c, <<>>, 0)
    BY <1>7 DEF SlotsGone, GoOn
  <2>2. <<>> \in Seq(AdmIssue) /\ 0 \in 0..AdmCeiling
    BY AdmAssumption
  <2>3. WalksOK'
    BY <1>0, <2>1, <2>2, GoOnKeepsWalks
  <2> QED
    BY <1>0, <1>7, <2>3 DEF SlotsGone, QueueInv, QueueOK
<1>8. ASSUME NEW i \in AdmIssue, EnqueueIssue(i)
      PROVE  QueueInv'
  <2>1. QueueOK'
    BY <1>0, <1>8, AppendOnce DEF EnqueueIssue, QueueOK, Queued
  <2> QED
    BY <1>0, <1>8, <2>1 DEF EnqueueIssue, QueueInv, WalksOK, InFlight
<1>9. ASSUME NEW i \in AdmIssue,
             DequeueIssue(i) \/ DecideScope(i) \/ CloseReadyIssue(i) \/ DeleteIssue(i)
      PROVE  QueueInv'
  <2>1. queue' = Without(queue, i) /\ walk' = walk
    BY <1>9 DEF DequeueIssue, DecideScope, StartWorkflowCore, CloseReadyIssue, DeleteIssue
  <2>2. QueueOK'
    BY <1>0, <2>1, WithoutIsQueue DEF QueueOK
  <2> QED
    BY <1>0, <2>1, <2>2 DEF QueueInv, WalksOK, InFlight
<1>10. ASSUME NEW i \in AdmIssue, NEW k \in 0..Len(queue), MoveQueueEntry(i, k)
       PROVE  QueueInv'
  <2>1. QueueOK' /\ walk' = walk
    BY <1>0, <1>10, MoveIsQueue DEF MoveQueueEntry
  <2> QED
    BY <1>0, <2>1 DEF QueueInv, WalksOK, InFlight
<1>11. ASSUME NEW i \in AdmIssue, ParkOnHuman(i) \/ ResumeByHuman(i) \/ EndIssue(i)
       PROVE  QueueInv'
  BY <1>1, <1>11 DEF ParkOnHuman, ResumeByHuman, EndIssue
<1>12. CASE UNCHANGED admVars \/ \E n \in 1..AdmCeiling : SetLimit(n)
  BY <1>1, <1>12 DEF admVars, SetLimit
<1> QED
  BY <1>2, <1>3, <1>4, <1>5, <1>6, <1>7, <1>8, <1>9, <1>10, <1>11, <1>12 DEF AdmNext

LEMMA QueueInvariance == AdmSpec => [](AdmInv /\ QueueInv)
<1>1. AdmInit => QueueInv
  BY AdmAssumption DEF AdmInit, QueueInv, QueueOK, Once, WalksOK, InFlight, NoWalk
<1>2. QueueInv /\ AdmInv /\ [AdmNext]_admVars => QueueInv'
  BY QueueNextInv
<1> QED
  BY OccupantsRunAlways, <1>1, <1>2, PTL DEF AdmSpec

\* An issue is queued at most once through any enqueues, moves, starts and
\* housekeeping, and no walk is left with more slots than the ceiling.
THEOREM AdmTypeCorrect == AdmSpec => []AdmTypeOK
<1>1. AdmInv /\ QueueInv => AdmTypeOK
  BY DEF AdmInv, AdmShape, QueueInv, QueueOK, Once, WalksOK, AdmTypeOK
<1> QED
  BY QueueInvariance, <1>1, PTL
-----------------------------------------------------------------------------
(* Who leaves the queue, and in which order the rest stays *)

\* entry i of q stands before entry j
Before(q, i, j) == \E m, n \in DOMAIN q : m < n /\ q[m] = i /\ q[n] = j

LEMMA AmongKeepsEntries ==
  ASSUME NEW A, NEW q \in Seq(A), NEW S
  PROVE  \A m \in DOMAIN q : q[m] \in S =>
           \E k \in DOMAIN Among(q, S) : Among(q, S)[k] = q[m]
<1>1. PICK pos : Picks(Among(q, S), Len(q), q, S, pos)
  BY AmongIsPart DEF IsPartOf
<1>2. Among(q, S) \in Seq(A)
  BY AmongIsPart
<1> DEFINE s == Among(q, S)
<1> HIDE DEF s
<1>3. ASSUME NEW m \in 1..Len(q), q[m] \in S
      PROVE  \E k \in 1..Len(s) : s[k] = q[m]
  BY <1>1, <1>3 DEF Picks, s
<1> QED
  BY <1>2, <1>3 DEF s

LEMMA AmongKeepsOrder ==
  ASSUME NEW A, NEW q \in Seq(A), NEW S, NEW i \in S, NEW j \in S, Before(q, i, j)
  PROVE  Before(Among(q, S), i, j)
<1>1. PICK pos : Picks(Among(q, S), Len(q), q, S, pos)
  BY AmongIsPart DEF IsPartOf
<1>2. Among(q, S) \in Seq(A)
  BY AmongIsPart
<1> DEFINE s == Among(q, S)
<1> HIDE DEF s
<1>3. PICK m \in 1..Len(q), n \in 1..Len(q) : m < n /\ q[m] = i /\ q[n] = j
  BY DEF Before
<1>4. PICK k \in 1..Len(s), l \in 1..Len(s) : pos[k] = m /\ pos[l] = n
  BY <1>1, <1>3 DEF Picks, s
<1>5. s[k] = i /\ s[l] = j
  BY <1>1, <1>3, <1>4 DEF Picks, s
<1>6. k < l
  BY <1>1, <1>3, <1>4 DEF Picks, s
<1>7. Len(s) \in Nat /\ DOMAIN s = 1..Len(s)
  BY <1>2 DEF s
<1>8. Before(s, i, j)
  BY <1>5, <1>6, <1>7 DEF Before
<1> QED
  BY <1>8 DEF s

LEMMA PutInKeepsOrder ==
  ASSUME NEW A, NEW q \in Seq(A), NEW x \in A, NEW n \in 0..Len(q),
         NEW i, NEW j, Before(q, i, j)
  PROVE  Before(InsertedAt(q, x, n), i, j)
<1> DEFINE p == InsertedAt(q, x, n)
           new(m) == IF m <= n THEN m ELSE m + 1
<1>1. /\ Len(p) = Len(q) + 1 /\ DOMAIN p = 1..Len(p)
      /\ \A k \in 1..n : p[k] = q[k]
      /\ \A k \in (n + 2)..(Len(q) + 1) : p[k] = q[k - 1]
  BY PlacesOf
<1> HIDE DEF p
<1>2. PICK k \in 1..Len(q), l \in 1..Len(q) : k < l /\ q[k] = i /\ q[l] = j
  BY DEF Before
<1>3. new(k) < new(l) /\ new(k) \in 1..Len(p) /\ new(l) \in 1..Len(p)
  BY <1>1, <1>2
<1>4. \A m \in 1..Len(q) : p[new(m)] = q[m]
  <2> TAKE m \in 1..Len(q)
  <2>1. CASE m <= n
    BY <1>1, <2>1
  <2>2. CASE m > n
    <3>1. new(m) = m + 1 /\ m + 1 \in (n + 2)..(Len(q) + 1) /\ (m + 1) - 1 = m
      BY <2>2
    <3> QED
      BY <1>1, <3>1
  <2> QED
    BY <2>1, <2>2
<1>5. p[new(k)] = i /\ p[new(l)] = j
  BY <1>2, <1>4
<1> HIDE DEF new
<1>6. Before(p, i, j)
  BY <1>1, <1>3, <1>5 DEF Before
<1> QED
  BY <1>6 DEF p

\* what a step may do to the entries, and to the order of any two of them
Held(i) == Queued(i) /\ ~Queued(i)' =>
             i \in instances' \/ issueStatus'[i] = "closed" \/ DequeueIssue(i)
Moved(i) == StartIssueViaQueue(i) \/ \E k \in 0..Len(queue) : MoveQueueEntry(i, k)
InOrder(i, j) ==
  Before(queue, i, j) /\ Queued(i)' /\ Queued(j)' =>
    Before(queue', i, j) \/ Moved(i) \/ Moved(j)

\* the rows a step leaves out belong to issues that ...
Filters(S) ==
  /\ queue' = Among(queue, S)
  /\ \A i \in AdmIssue \ S :
       i \in instances' \/ issueStatus'[i] = "closed" \/ DequeueIssue(i)

LEMMA FilterHolds ==
  ASSUME QueueOK, NEW S, Filters(S), NEW i \in AdmIssue, NEW j \in AdmIssue
  PROVE  Held(i) /\ InOrder(i, j)
<1>1. queue \in Seq(AdmIssue) /\ queue' = Among(queue, S)
  BY DEF QueueOK, Filters
<1>2. \A k \in DOMAIN Among(queue, S) : Among(queue, S)[k] \in S
  BY <1>1, AmongIsQueue
<1>3. Held(i)
  <2>1. CASE i \in S
    BY <1>1, <2>1, AmongKeepsEntries DEF Held, Queued
  <2>2. CASE i \notin S
    BY <2>2 DEF Held, Filters
  <2> QED
    BY <2>1, <2>2
<1>4. InOrder(i, j)
  <2> SUFFICES ASSUME Before(queue, i, j), Queued(i)', Queued(j)'
               PROVE  Before(queue', i, j)
    BY DEF InOrder
  <2>1. i \in S /\ j \in S
    BY <1>1, <1>2 DEF Queued
  <2> QED
    BY <1>1, <2>1, AmongKeepsOrder
<1> QED
  BY <1>3, <1>4

\* an entry taken out and put in at another place
LEMMA Replaced ==
  ASSUME NEW q \in Seq(AdmIssue), Once(q), NEW x \in AdmIssue,
         NEW n \in 0..Len(Without(q, x)), NEW p, p = InsertedAt(Without(q, x), x, n)
  PROVE  /\ p \in Seq(AdmIssue)
         /\ \A m \in DOMAIN q : \E k \in DOMAIN p : p[k] = q[m]
         /\ \A i, j \in AdmIssue \ {x} : Before(q, i, j) => Before(p, i, j)
<1> DEFINE r == Without(q, x)
<1>1. r \in Seq(AdmIssue) /\ Once(r) /\ \A k \in DOMAIN r : r[k] # x
  BY WithoutIsQueue
<1>2. \A m \in DOMAIN q : q[m] \in AdmIssue \ {x} => \E k \in DOMAIN r : r[k] = q[m]
  BY AmongKeepsEntries DEF Without
<1>3. \A i, j \in AdmIssue \ {x} : Before(q, i, j) => Before(r, i, j)
  BY AmongKeepsOrder DEF Without
<1>4. n \in 0..Len(r) /\ p = InsertedAt(r, x, n)
  OBVIOUS
<1> HIDE DEF r
<1>5. /\ p \in Seq(AdmIssue)
      /\ \E k \in DOMAIN p : p[k] = x
      /\ \A m \in DOMAIN r : \E k \in DOMAIN p : p[k] = r[m]
  BY <1>1, <1>4, PutIn
<1>6. \A i, j \in AdmIssue \ {x} : Before(q, i, j) => Before(p, i, j)
  BY <1>1, <1>3, <1>4, PutInKeepsOrder
<1>7. ASSUME NEW m \in DOMAIN q PROVE \E k \in DOMAIN p : p[k] = q[m]
  <2>1. q[m] \in AdmIssue
    OBVIOUS
  <2> QED
    BY <1>2, <1>5, <2>1
<1> QED
  BY <1>5, <1>6, <1>7

LEMMA StartHolds ==
  ASSUME QueueOK, NEW x \in AdmIssue, StartIssueViaQueue(x),
         NEW i \in AdmIssue, NEW j \in AdmIssue
  PROVE  Held(i) /\ InOrder(i, j)
<1> DEFINE S == {k \in AdmIssue : issueStatus[k] # "closed" /\ k \notin instances}
           p == OnTop(x)
<1>1. /\ queue' = Among(p, S)
      /\ \A k \in AdmIssue \ S : k \in instances' \/ issueStatus'[k] = "closed"
  BY DEF StartIssueViaQueue, BeginWalk, Housekept
<1>2. /\ p \in Seq(AdmIssue)
      /\ \A m \in DOMAIN queue : \E k \in DOMAIN p : p[k] = queue[m]
      /\ \A k, l \in AdmIssue \ {x} : Before(queue, k, l) => Before(p, k, l)
  <2>1. p = InsertedAt(Without(queue, x), x, 0) /\ 0 \in 0..Len(Without(queue, x))
    BY OnTopInserts
  <2> QED
    BY <2>1, Replaced DEF QueueOK
<1> HIDE DEF p, S
<1>3. \A k \in DOMAIN Among(p, S) : Among(p, S)[k] \in S
  BY <1>2, AmongIsQueue
<1>4. Held(i)
  <2> SUFFICES ASSUME Queued(i), i \in S PROVE Queued(i)'
    BY <1>1 DEF Held
  <2>1. PICK m \in DOMAIN p : p[m] = i
    BY <1>2 DEF Queued
  <2> QED
    BY <1>1, <1>2, <2>1, AmongKeepsEntries DEF Queued
<1>5. InOrder(i, j)
  <2> SUFFICES ASSUME Before(queue, i, j), Queued(i)', Queued(j)', i # x, j # x
               PROVE  Before(queue', i, j)
    BY DEF InOrder, Moved
  <2>1. i \in S /\ j \in S
    BY <1>1, <1>3 DEF Queued
  <2>2. Before(p, i, j)
    BY <1>2
  <2> QED
    BY <1>1, <1>2, <2>1, <2>2, AmongKeepsOrder
<1> QED
  BY <1>4, <1>5

LEMMA MoveHolds ==
  ASSUME QueueOK, NEW x \in AdmIssue, NEW n \in 0..Len(queue), MoveQueueEntry(x, n),
         NEW i \in AdmIssue, NEW j \in AdmIssue
  PROVE  Held(i) /\ InOrder(i, j)
<1>1. queue' = InsertedAt(Without(queue, x), x, n) /\ n \in 0..Len(Without(queue, x))
  BY MoveIsQueue
<1>2. /\ \A m \in DOMAIN queue : \E k \in DOMAIN queue' : queue'[k] = queue[m]
      /\ \A k, l \in AdmIssue \ {x} : Before(queue, k, l) => Before(queue', k, l)
  BY <1>1, Replaced DEF QueueOK
<1> QED
  BY <1>2 DEF Held, InOrder, Moved, Queued

LEMMA AppendHolds ==
  ASSUME QueueOK, NEW x \in AdmIssue, EnqueueIssue(x),
         NEW i \in AdmIssue, NEW j \in AdmIssue
  PROVE  Held(i) /\ InOrder(i, j)
<1>1. queue' = Append(queue, x) /\ queue \in Seq(AdmIssue)
  BY DEF EnqueueIssue, QueueOK
<1>2. /\ DOMAIN queue = 1..Len(queue) /\ DOMAIN queue' = 1..(Len(queue) + 1)
      /\ \A k \in 1..Len(queue) : queue'[k] = queue[k]
      /\ Len(queue) \in Nat
  BY <1>1
<1>3. Held(i)
  BY <1>2 DEF Held, Queued
<1>4. Before(queue, i, j) => Before(queue', i, j)
  BY <1>2 DEF Before
<1> QED
  BY <1>3, <1>4 DEF InOrder

LEMMA StepHolds ==
  ASSUME AdmInv, QueueOK, [AdmNext]_admVars, NEW i \in AdmIssue, NEW j \in AdmIssue
  PROVE  Held(i) /\ InOrder(i, j)
<1>1. ASSUME UNCHANGED queue
      PROVE  Held(i) /\ InOrder(i, j)
  BY <1>1 DEF Held, InOrder, Queued
<1>2. CASE TickWalk
  <2>1. Filters({k \in AdmIssue : issueStatus[k] # "closed" /\ k \notin instances})
    BY <1>2 DEF TickWalk, BeginWalk, Housekept, Filters
  <2> QED
    BY <2>1, FilterHolds
<1>3. ASSUME NEW x \in AdmIssue,
             \/ \E c \in AdmCaller : Admit(c, x)
             \/ DequeueIssue(x) \/ DecideScope(x) \/ CloseReadyIssue(x) \/ DeleteIssue(x)
      PROVE  Held(i) /\ InOrder(i, j)
  <2>1. Filters(AdmIssue \ {x})
    <3>1. queue' = Among(queue, AdmIssue \ {x})
      BY <1>3 DEF Admit, StartWorkflowCore, DequeueIssue, DecideScope, CloseReadyIssue,
                  DeleteIssue, Without
    <3>2. x \in instances' \/ issueStatus'[x] = "closed" \/ DequeueIssue(x)
      BY <1>3 DEF AdmInv, AdmShape, Admit, StartWorkflowCore, DecideScope, CloseReadyIssue,
                  DeleteIssue
    <3> QED
      BY <3>1, <3>2 DEF Filters
  <2> QED
    BY <2>1, FilterHolds
<1>4. ASSUME NEW x \in AdmIssue,
             \/ \E c \in AdmCaller : PassOver(c, x) \/ SlotsGone(c, x)
             \/ ExecuteIssueNow(x) \/ ParkOnHuman(x) \/ ResumeByHuman(x) \/ EndIssue(x)
      PROVE  UNCHANGED queue
  BY <1>4 DEF PassOver, SlotsGone, ExecuteIssueNow, ParkOnHuman, ResumeByHuman, EndIssue
<1>5. CASE UNCHANGED admVars \/ \E n \in 1..AdmCeiling : SetLimit(n)
  BY <1>1, <1>5 DEF admVars, SetLimit
<1> QED
  BY <1>1, <1>2, <1>3, <1>4, <1>5, StartHolds, MoveHolds, AppendHolds DEF AdmNext

\* An entry leaves the queue only because its issue is started or over, or the
\* operator takes it out: no walk loses one (admission.ts:357-371).
EntriesStay == [][\A i \in AdmIssue : Held(i)]_admVars

\* Two entries that stay keep their order, unless the operator moves or starts
\* one of the two (queue-entries.ts: every
\* move writes all positions anew).
OrderStays == [][\A i, j \in AdmIssue : InOrder(i, j)]_admVars

\* Entries leave the queue, and change places, for the stated reasons only.
THEOREM QueueIsKept == AdmSpec => EntriesStay /\ OrderStays
<1>1. AdmInv /\ QueueInv /\ [AdmNext]_admVars =>
        [\A i \in AdmIssue : Held(i)]_admVars /\ [\A i, j \in AdmIssue : InOrder(i, j)]_admVars
  BY StepHolds DEF QueueInv
<1> QED
  BY QueueInvariance, <1>1, PTL DEF AdmSpec, EntriesStay, OrderStays

-----------------------------------------------------------------------------
(* Blockers *)

BlkShape ==
  /\ edges \in [Dependent -> [Ticket -> -1..BlkOld]]
  /\ cached \in [Dependent -> [at : -1..BlkTTL, on : SUBSET Ticket]]
  /\ snap \in [BlkWalker ->
       [at : {"none", "asked", "answered", "ready"}, age : 0..BlkMaxWalk,
        asks : SUBSET Dependent, known : SUBSET Dependent,
        on : [Dependent -> SUBSET Ticket]]]

\* a row that may still be served
CacheKnows ==
  \A d \in Dependent, t \in Ticket :
    /\ cached[d].at >= 0 /\ cached[d].at < BlkTTL
    /\ edges[d][t] > cached[d].at + BlkMaxWalk
    => t \in cached[d].on

\* an answer on its way
AnswerKnows ==
  \A w \in BlkWalker, d \in Dependent, t \in Ticket :
    /\ snap[w].at = "answered" /\ d \in snap[w].asks /\ d \in snap[w].known
    /\ edges[d][t] > snap[w].age
    => t \in snap[w].on[d]

\* what a walk starts issues by
SnapshotKnows ==
  \A w \in BlkWalker, d \in Dependent, t \in Ticket :
    /\ d \in snap[w].known
    /\ edges[d][t] >= BlkTTL + BlkMaxWalk + snap[w].age
    => t \in snap[w].on[d]

BlkInv == BlkShape /\ CacheKnows /\ AnswerKnows /\ SnapshotKnows

Snapshots ==
  [at : {"none", "asked", "answered", "ready"}, age : 0..BlkMaxWalk,
   asks : SUBSET Dependent, known : SUBSET Dependent,
   on : [Dependent -> SUBSET Ticket]]

LEMMA BlkNumbers ==
  /\ BlkTTL \in Nat /\ BlkTTL > 0 /\ BlkMaxWalk \in Nat /\ BlkMaxWalk > 0
  /\ BlkOld \in Nat /\ BlkOld = BlkTTL + 2 * BlkMaxWalk
BY BlkAssumption DEF BlkOld

LEMMA NoSnapType ==
  /\ NoSnap \in Snapshots /\ NoSnap.age = 0
  /\ NoSnap.known = {} /\ NoSnap.at = "none"
BY BlkNumbers DEF NoSnap, Snapshots

LEMMA AbsentType == Absent \in [at : -1..BlkTTL, on : SUBSET Ticket] /\ Absent.at = -1
BY BlkNumbers DEF Absent

LEMMA BlkInitInv == BlkInit => BlkInv
<1>. SUFFICES ASSUME BlkInit PROVE BlkInv
  OBVIOUS
<1>1. BlkShape
  <2>1. edges \in [Dependent -> [Ticket -> -1..BlkOld]]
    BY BlkNumbers DEF BlkInit
  <2>. QED
    BY <2>1, NoSnapType, AbsentType DEF BlkInit, BlkShape, Snapshots
<1>2. CacheKnows
  BY AbsentType DEF BlkInit, CacheKnows
<1>3. AnswerKnows /\ SnapshotKnows
  BY NoSnapType DEF BlkInit, AnswerKnows, SnapshotKnows
<1>. QED
  BY <1>1, <1>2, <1>3 DEF BlkInv

-----------------------------------------------------------------------------
(* One walk's snapshot is replaced; edges and rows stay *)

LEMMA SnapReplaced ==
  ASSUME BlkInv, NEW w \in BlkWalker, NEW s \in Snapshots,
         snap' = [snap EXCEPT ![w] = s], edges' = edges,
         \A d \in Dependent, t \in Ticket :
           /\ d \in s.known
           /\ edges[d][t] >= BlkTTL + BlkMaxWalk + s.age
           => t \in s.on[d],
         \A d \in Dependent, t \in Ticket :
           /\ s.at = "answered" /\ d \in s.asks /\ d \in s.known
           /\ edges[d][t] > s.age
           => t \in s.on[d]
  PROVE  /\ snap' \in [BlkWalker -> Snapshots]
         /\ AnswerKnows' /\ SnapshotKnows'
<1>1. snap' \in [BlkWalker -> Snapshots]
  BY DEF BlkInv, BlkShape, Snapshots
<1>2. snap'[w] = s /\ \A v \in BlkWalker : v # w => snap'[v] = snap[v]
  BY DEF BlkInv, BlkShape
<1>3. AnswerKnows'
  BY <1>2 DEF BlkInv, AnswerKnows
<1>4. SnapshotKnows'
  BY <1>2 DEF BlkInv, SnapshotKnows
<1>. QED
  BY <1>1, <1>3, <1>4

\* An expired row dropped is no row.
LEMMA FreshKnows ==
  ASSUME BlkInv
  PROVE  /\ Fresh \in [Dependent -> [at : -1..BlkTTL, on : SUBSET Ticket]]
         /\ \A d \in Dependent, t \in Ticket :
              Fresh[d].at >= 0 =>
                /\ Fresh[d] = cached[d] /\ cached[d].at < BlkTTL
                /\ (edges[d][t] > Fresh[d].at + BlkMaxWalk => t \in Fresh[d].on)
<1>1. Fresh \in [Dependent -> [at : -1..BlkTTL, on : SUBSET Ticket]]
  BY AbsentType DEF Fresh, BlkInv, BlkShape
<1>2. ASSUME NEW d \in Dependent, Fresh[d].at >= 0
      PROVE  Fresh[d] = cached[d] /\ cached[d].at < BlkTTL
  BY <1>2, AbsentType, BlkNumbers DEF Fresh, BlkInv, BlkShape
<1>. QED
  BY <1>1, <1>2 DEF BlkInv, CacheKnows

LEMMA TakeSnapshotInv ==
  ASSUME BlkInv, NEW w \in BlkWalker, TakeSnapshot(w)
  PROVE  BlkInv'
<1> DEFINE hits == {d \in Dependent \ begun : Fresh[d].at >= 0}
           stale == (Dependent \ begun) \ hits
           on == [d \in Dependent |-> IF d \in hits THEN Fresh[d].on ELSE {}]
           held == [NoSnap EXCEPT !.known = hits, !.on = on]
<1>1. cached' = Fresh /\ edges' = edges
  BY DEF TakeSnapshot
<1>2. CacheKnows'
  BY <1>1, FreshKnows DEF CacheKnows
<1>3. /\ held \in Snapshots /\ held.age = 0 /\ held.known = hits
      /\ \A d \in hits : held.on[d] = Fresh[d].on
  <2>1. on \in [Dependent -> SUBSET Ticket] /\ \A d \in hits : on[d] = Fresh[d].on
    <3>1. hits \in SUBSET Dependent
      OBVIOUS
    <3>2. \A d \in Dependent : Fresh[d].on \in SUBSET Ticket
      BY FreshKnows
    <3>. HIDE DEF hits
    <3>. QED
      BY <3>1, <3>2
  <2>3. hits \in SUBSET Dependent
    OBVIOUS
  <2>. HIDE DEF on, hits
  <2> DEFINE known == [NoSnap EXCEPT !.known = hits]
  <2>2. held = [known EXCEPT !.on = on]
    OBVIOUS
  <2>5. known = [NoSnap EXCEPT !.known = hits]
    OBVIOUS
  <2>. HIDE DEF held, known
  <2>4. held \in Snapshots /\ held.age = NoSnap.age /\ held.known = hits /\ held.on = on
    <3>1. known \in Snapshots /\ known.age = NoSnap.age /\ known.known = hits
      BY <2>3, <2>5, NoSnapType DEF Snapshots
    <3>. QED
      BY <2>1, <2>2, <3>1 DEF Snapshots
  <2>. QED
    BY <2>1, <2>4, NoSnapType
<1>4. \A d \in Dependent, t \in Ticket :
        d \in held.known /\ edges[d][t] >= BlkTTL + BlkMaxWalk + 0 => t \in held.on[d]
  <2>. SUFFICES ASSUME NEW d \in hits, NEW t \in Ticket,
                       edges[d][t] >= BlkTTL + BlkMaxWalk + 0
                PROVE  t \in Fresh[d].on
    BY <1>3
  <2>1. Fresh[d].at \in Int /\ Fresh[d].at < BlkTTL /\ edges[d][t] \in Int
    BY FreshKnows DEF BlkInv, BlkShape
  <2>2. edges[d][t] > Fresh[d].at + BlkMaxWalk
    BY <2>1, BlkNumbers
  <2>. QED
    BY <2>2, FreshKnows
<1>5. PICK s \in Snapshots :
        /\ snap' = [snap EXCEPT ![w] = s]
        /\ s.at \in {"ready", "asked"} /\ s.age = 0
        /\ s.known = {} \/ (s.known = held.known /\ s.on = held.on)
  <2>1. CASE snap' = [snap EXCEPT ![w] = [held EXCEPT !.at = "ready"]]
    <3>1. [held EXCEPT !.at = "ready"] \in Snapshots
      BY <1>3 DEF Snapshots
    <3>. QED
      BY <1>3, <2>1, <3>1 DEF Snapshots
  <2>2. CASE snap' = [snap EXCEPT ![w] = [NoSnap EXCEPT !.at = "ready"]]
    <3>1. [NoSnap EXCEPT !.at = "ready"] \in Snapshots
      BY NoSnapType DEF Snapshots
    <3>. QED
      BY <2>2, <3>1, NoSnapType DEF NoSnap
  <2>3. CASE snap' = [snap EXCEPT ![w] = [held EXCEPT !.at = "asked", !.asks = stale]]
    <3>1. [held EXCEPT !.at = "asked", !.asks = stale] \in Snapshots
      BY <1>3 DEF Snapshots
    <3>. QED
      BY <1>3, <2>3, <3>1 DEF Snapshots
  <2>. QED
    BY <2>1, <2>2, <2>3 DEF TakeSnapshot
<1>. HIDE DEF held, on, hits, stale
<1>6. snap' \in [BlkWalker -> Snapshots] /\ AnswerKnows' /\ SnapshotKnows'
  <2>1. \A d \in Dependent, t \in Ticket :
          d \in s.known /\ edges[d][t] >= BlkTTL + BlkMaxWalk + s.age => t \in s.on[d]
    BY <1>4, <1>5
  <2>2. s.at # "answered"
    BY <1>5
  <2>. QED
    BY <1>1, <1>5, <2>1, <2>2, SnapReplaced
<1>. QED
  BY <1>1, <1>2, <1>6, FreshKnows DEF BlkInv, BlkShape, Snapshots

\* Linear's answer contains every edge there is.
LEMMA LinearAnswersInv ==
  ASSUME BlkInv, NEW w \in BlkWalker, NEW out \in SUBSET Dependent, LinearAnswers(w, out)
  PROVE  BlkInv'
<1> DEFINE on == [d \in Dependent |->
                   IF d \in snap[w].asks \ out THEN Declared(d) ELSE snap[w].on[d]]
           s == [snap[w] EXCEPT !.at = "answered",
                   !.known = (snap[w].known \cup snap[w].asks) \ out, !.on = on]
<1>1. snap' = [snap EXCEPT ![w] = s] /\ edges' = edges /\ cached' = cached
  BY DEF LinearAnswers, BlkInv, BlkShape
<1>2. /\ s \in Snapshots /\ s.asks = snap[w].asks /\ s.age = snap[w].age
      /\ \A d \in Dependent :
           d \in s.known => (d \in snap[w].asks /\ s.on[d] = Declared(d))
                            \/ (d \notin snap[w].asks /\ d \in snap[w].known
                                /\ s.on[d] = snap[w].on[d])
  <2>1. snap[w] \in Snapshots
    BY DEF BlkInv, BlkShape, Snapshots
  <2>2. \A d \in Dependent : Declared(d) \in SUBSET Ticket
    BY DEF Declared
  <2>3. on \in [Dependent -> SUBSET Ticket]
    BY <2>1, <2>2 DEF Snapshots
  <2>4. /\ (snap[w].known \cup snap[w].asks) \ out \in SUBSET Dependent
        /\ snap[w].on \in [Dependent -> SUBSET Ticket]
    BY <2>1 DEF Snapshots
  <2>5. \A d \in Dependent :
          /\ d \in snap[w].asks \ out => on[d] = Declared(d)
          /\ d \notin snap[w].asks => on[d] = snap[w].on[d]
    OBVIOUS
  <2>. HIDE DEF on
  <2> DEFINE answered == [snap[w] EXCEPT !.at = "answered"]
             known == [answered EXCEPT !.known = (snap[w].known \cup snap[w].asks) \ out]
  <2>7. s = [known EXCEPT !.on = on]
    OBVIOUS
  <2>8. answered = [snap[w] EXCEPT !.at = "answered"]
    OBVIOUS
  <2>9. known = [answered EXCEPT !.known = (snap[w].known \cup snap[w].asks) \ out]
    OBVIOUS
  <2>. HIDE DEF s, answered, known
  <2>6. s \in Snapshots /\ s.asks = snap[w].asks /\ s.age = snap[w].age /\ s.on = on
        /\ s.known = (snap[w].known \cup snap[w].asks) \ out
    <3>1. answered \in Snapshots
          /\ answered.age = snap[w].age /\ answered.asks = snap[w].asks
      BY <2>1, <2>8 DEF Snapshots
    <3>2. known \in Snapshots /\ known.age = snap[w].age /\ known.asks = snap[w].asks
          /\ known.known = (snap[w].known \cup snap[w].asks) \ out
      BY <2>4, <2>9, <3>1 DEF Snapshots
    <3>. QED
      BY <2>3, <2>7, <3>2 DEF Snapshots
  <2>. QED
    BY <2>5, <2>6
<1>. HIDE DEF s
<1>3. s.age \in Nat /\ \A d \in Dependent, t \in Ticket : edges[d][t] \in Int
  BY <1>2 DEF BlkInv, BlkShape, Snapshots
<1>4. \A d \in Dependent, t \in Ticket :
        /\ edges[d][t] > s.age => t \in Declared(d)
        /\ edges[d][t] >= BlkTTL + BlkMaxWalk + s.age => t \in Declared(d)
  BY <1>3, BlkNumbers DEF Declared
<1>5. \A d \in Dependent, t \in Ticket :
        d \in s.known /\ edges[d][t] >= BlkTTL + BlkMaxWalk + s.age => t \in s.on[d]
  BY <1>2, <1>4 DEF BlkInv, SnapshotKnows
<1>6. \A d \in Dependent, t \in Ticket :
        s.at = "answered" /\ d \in s.asks /\ d \in s.known /\ edges[d][t] > s.age
          => t \in s.on[d]
  BY <1>2, <1>4
<1>7. snap' \in [BlkWalker -> Snapshots] /\ AnswerKnows' /\ SnapshotKnows'
  BY <1>1, <1>2, <1>5, <1>6, SnapReplaced
<1>. QED
  BY <1>1, <1>7 DEF BlkInv, BlkShape, Snapshots, CacheKnows

\* The row written is as old as the walk that asked for it, at most one walk.
LEMMA AnswerArrivesInv ==
  ASSUME BlkInv, NEW w \in BlkWalker, AnswerArrives(w)
  PROVE  BlkInv'
<1> DEFINE s == [snap[w] EXCEPT !.at = "ready", !.asks = {}]
<1>1. snap' = [snap EXCEPT ![w] = s] /\ edges' = edges
  BY DEF AnswerArrives, BlkInv, BlkShape
<1>2. /\ s \in Snapshots /\ s.known = snap[w].known /\ s.age = snap[w].age
      /\ s.on = snap[w].on /\ s.at = "ready"
  BY DEF BlkInv, BlkShape, Snapshots
<1>. HIDE DEF s
<1>3. snap' \in [BlkWalker -> Snapshots] /\ AnswerKnows' /\ SnapshotKnows'
  BY <1>1, <1>2, SnapReplaced DEF BlkInv, SnapshotKnows
<1>4. cached' \in [Dependent -> [at : -1..BlkTTL, on : SUBSET Ticket]]
  BY AbsentType, BlkNumbers DEF AnswerArrives, BlkInv, BlkShape
<1>5. CacheKnows'
  <2>. SUFFICES ASSUME NEW d \in Dependent, NEW t \in Ticket,
                       cached'[d].at >= 0, cached'[d].at < BlkTTL,
                       edges[d][t] > cached'[d].at + BlkMaxWalk
                PROVE  t \in cached'[d].on
    BY <1>1 DEF CacheKnows
  <2>1. CASE d \in snap[w].asks /\ d \in snap[w].known
    <3>1. cached'[d] = [at |-> 0, on |-> snap[w].on[d]]
      BY <2>1 DEF AnswerArrives
    <3>2. snap[w].age \in 0..BlkMaxWalk /\ edges[d][t] \in Int
      BY DEF BlkInv, BlkShape
    <3>3. edges[d][t] > snap[w].age
      BY <3>1, <3>2, BlkNumbers
    <3>4. snap[w].at = "answered"
      BY DEF AnswerArrives
    <3>. QED
      BY <2>1, <3>1, <3>3, <3>4 DEF BlkInv, AnswerKnows
  <2>2. CASE d \in snap[w].asks /\ d \notin snap[w].known
    BY <2>2, AbsentType DEF AnswerArrives
  <2>3. CASE d \notin snap[w].asks
    <3>1. cached'[d] = cached[d]
      BY <2>3 DEF AnswerArrives
    <3>. QED
      BY <3>1 DEF BlkInv, CacheKnows
  <2>. QED
    BY <2>1, <2>2, <2>3
<1>. QED
  BY <1>1, <1>3, <1>4, <1>5 DEF BlkInv, BlkShape, Snapshots

LEMMA FetchFailsInv ==
  ASSUME BlkInv, NEW w \in BlkWalker, FetchFails(w)
  PROVE  BlkInv'
<1> DEFINE s == [NoSnap EXCEPT !.at = "ready", !.age = snap[w].age]
<1>1. snap' = [snap EXCEPT ![w] = s] /\ edges' = edges /\ cached' = cached
  BY DEF FetchFails
<1>2. s \in Snapshots /\ s.known = {} /\ s.at = "ready"
  BY NoSnapType DEF BlkInv, BlkShape, Snapshots
<1>. HIDE DEF s
<1>3. snap' \in [BlkWalker -> Snapshots] /\ AnswerKnows' /\ SnapshotKnows'
  BY <1>1, <1>2, SnapReplaced
<1>. QED
  BY <1>1, <1>3 DEF BlkInv, BlkShape, Snapshots, CacheKnows

LEMMA WalkEndsInv ==
  ASSUME BlkInv, NEW w \in BlkWalker, WalkEnds(w)
  PROVE  BlkInv'
<1>1. snap' = [snap EXCEPT ![w] = NoSnap] /\ edges' = edges /\ cached' = cached
  BY DEF WalkEnds
<1>2. snap' \in [BlkWalker -> Snapshots] /\ AnswerKnows' /\ SnapshotKnows'
  BY <1>1, NoSnapType, SnapReplaced
<1>. QED
  BY <1>1, <1>2 DEF BlkInv, BlkShape, Snapshots, CacheKnows

-----------------------------------------------------------------------------
(* The world *)

LEMMA OlderNumber ==
  ASSUME NEW top \in Nat, NEW a \in -1..top
  PROVE  /\ Older(a, top) \in -1..top
         /\ a \in Int /\ Older(a, top) \in Int /\ Older(a, top) <= a + 1
         /\ a = -1 => Older(a, top) = -1
         /\ a = top => Older(a, top) = a
         /\ a # -1 /\ a # top => Older(a, top) = a + 1
BY DEF Older

\* Everything grows older together, up to the ages that matter.
LEMMA BlkTimePassesInv ==
  ASSUME BlkInv, BlkTimePasses
  PROVE  BlkInv'
<1>1. /\ edges' \in [Dependent -> [Ticket -> -1..BlkOld]]
      /\ \A d \in Dependent, t \in Ticket :
           /\ edges[d][t] \in Int /\ edges'[d][t] \in Int
           /\ edges'[d][t] <= edges[d][t] + 1
  <2>1. \A d \in Dependent, t \in Ticket : edges[d][t] \in -1..BlkOld
    BY DEF BlkInv, BlkShape
  <2>2. edges' = [d \in Dependent |-> [t \in Ticket |-> Older(edges[d][t], BlkOld)]]
    BY DEF BlkTimePasses
  <2>. QED
    BY <2>1, <2>2, OlderNumber, BlkNumbers
<1>2. /\ cached' \in [Dependent -> [at : -1..BlkTTL, on : SUBSET Ticket]]
      /\ \A d \in Dependent :
           /\ cached[d].at \in -1..BlkTTL
           /\ cached'[d].at = Older(cached[d].at, BlkTTL) /\ cached'[d].on = cached[d].on
  BY OlderNumber, BlkNumbers DEF BlkTimePasses, BlkInv, BlkShape
<1>3. ASSUME NEW w \in BlkWalker
      PROVE  /\ snap'[w] \in Snapshots
             /\ \/ snap'[w] = NoSnap
                \/ /\ snap[w].age < BlkMaxWalk /\ snap[w].age \in Nat
                   /\ snap'[w] = [snap[w] EXCEPT !.age = @ + 1]
                   /\ snap'[w].age = snap[w].age + 1
                   /\ snap'[w].at = snap[w].at /\ snap'[w].asks = snap[w].asks
                   /\ snap'[w].known = snap[w].known /\ snap'[w].on = snap[w].on
  <2>1. CASE snap[w].at = "none"
    BY <2>1, NoSnapType DEF BlkTimePasses
  <2>2. CASE snap[w].at # "none"
    <3>1. snap'[w] = [snap[w] EXCEPT !.age = @ + 1] /\ snap[w].age < BlkMaxWalk
      BY <2>2 DEF BlkTimePasses
    <3>2. snap[w] \in Snapshots
      BY DEF BlkInv, BlkShape, Snapshots
    <3>3. snap[w].age \in Nat /\ snap[w].age + 1 \in 0..BlkMaxWalk
      BY <3>1, <3>2, BlkNumbers DEF Snapshots
    <3>. QED
      BY <3>1, <3>2, <3>3 DEF Snapshots
  <2>. QED
    BY <2>1, <2>2
<1>4. CacheKnows'
  <2>. SUFFICES ASSUME NEW d \in Dependent, NEW t \in Ticket,
                       cached'[d].at >= 0, cached'[d].at < BlkTTL,
                       edges'[d][t] > cached'[d].at + BlkMaxWalk
                PROVE  t \in cached'[d].on
    BY DEF CacheKnows
  <2>1. cached[d].at >= 0 /\ cached'[d].at = cached[d].at + 1
    <3>1. cached[d].at \in -1..BlkTTL /\ cached'[d].at = Older(cached[d].at, BlkTTL)
      BY <1>2
    <3>. QED
      BY <3>1, BlkNumbers DEF Older
  <2>2. edges[d][t] > cached[d].at + BlkMaxWalk
    <3>1. edges'[d][t] <= edges[d][t] + 1 /\ edges[d][t] \in Int /\ edges'[d][t] \in Int
      BY <1>1
    <3>2. cached[d].at \in Int
      BY <1>2
    <3>. QED
      BY <2>1, <3>1, <3>2, BlkNumbers
  <2>. QED
    BY <1>2, <2>1, <2>2, BlkNumbers DEF BlkInv, CacheKnows
<1>5. AnswerKnows'
  <2>. SUFFICES ASSUME NEW w \in BlkWalker, NEW d \in Dependent, NEW t \in Ticket,
                       snap'[w].at = "answered",
                       d \in snap'[w].asks, d \in snap'[w].known,
                       edges'[d][t] > snap'[w].age
                PROVE  t \in snap'[w].on[d]
    BY DEF AnswerKnows
  <2>1. snap'[w] # NoSnap
    BY NoSnapType
  <2>2. edges[d][t] > snap[w].age
    <3>1. edges'[d][t] <= edges[d][t] + 1 /\ edges[d][t] \in Int /\ edges'[d][t] \in Int
      BY <1>1
    <3>2. snap[w].age \in Nat /\ snap'[w].age = snap[w].age + 1
      BY <1>3, <2>1
    <3>. QED
      BY <3>1, <3>2
  <2>. QED
    BY <1>3, <2>1, <2>2 DEF BlkInv, AnswerKnows
<1>6. SnapshotKnows'
  <2>. SUFFICES ASSUME NEW w \in BlkWalker, NEW d \in Dependent, NEW t \in Ticket,
                       d \in snap'[w].known,
                       edges'[d][t] >= BlkTTL + BlkMaxWalk + snap'[w].age
                PROVE  t \in snap'[w].on[d]
    BY DEF SnapshotKnows
  <2>1. snap'[w] # NoSnap
    BY NoSnapType
  <2>2. edges[d][t] >= BlkTTL + BlkMaxWalk + snap[w].age
    <3>1. edges'[d][t] <= edges[d][t] + 1 /\ edges[d][t] \in Int /\ edges'[d][t] \in Int
      BY <1>1
    <3>2. snap[w].age \in Nat /\ snap'[w].age = snap[w].age + 1
      BY <1>3, <2>1
    <3>. QED
      BY <3>1, <3>2, BlkNumbers
  <2>. QED
    BY <1>3, <2>1, <2>2 DEF BlkInv, SnapshotKnows
<1>7. snap' \in [BlkWalker -> Snapshots]
  BY <1>3 DEF BlkTimePasses
<1>. QED
  BY <1>1, <1>2, <1>4, <1>5, <1>6, <1>7 DEF BlkInv, BlkShape, Snapshots

\* An edge that is new, or gone, is too young for every row and snapshot.
LEMMA EdgeInv ==
  ASSUME BlkInv, NEW d \in Dependent, NEW t \in Ticket, DeclareEdge(d, t) \/ DropEdge(d, t)
  PROVE  BlkInv'
<1>1. PICK a \in {-1, 0} : edges' = [edges EXCEPT ![d][t] = a]
  BY DEF DeclareEdge, DropEdge
<1>2. cached' = cached /\ snap' = snap
  BY DEF DeclareEdge, DropEdge
<1>3. edges' \in [Dependent -> [Ticket -> -1..BlkOld]]
  BY <1>1, BlkNumbers DEF BlkInv, BlkShape
<1>4. \A e \in Dependent, u \in Ticket :
        edges'[e][u] = edges[e][u] \/ edges'[e][u] <= 0
  BY <1>1 DEF BlkInv, BlkShape
<1>5. \A e \in Dependent, u \in Ticket : edges[e][u] \in Int /\ edges'[e][u] \in Int
  BY <1>3 DEF BlkInv, BlkShape
<1>6. \A w \in BlkWalker : snap[w].age \in Nat
  BY DEF BlkInv, BlkShape
<1>7. \A e \in Dependent : cached[e].at \in Int
  BY DEF BlkInv, BlkShape
<1>8. CacheKnows'
  BY <1>2, <1>4, <1>5, <1>7, BlkNumbers DEF BlkInv, CacheKnows
<1>9. AnswerKnows'
  BY <1>2, <1>4, <1>5, <1>6, BlkNumbers DEF BlkInv, AnswerKnows
<1>10. SnapshotKnows'
  BY <1>2, <1>4, <1>5, <1>6, BlkNumbers DEF BlkInv, SnapshotKnows
<1>. QED
  BY <1>2, <1>3, <1>8, <1>9, <1>10 DEF BlkInv, BlkShape

LEMMA BlkNextInv ==
  ASSUME BlkInv, [BlkNext]_blkVars
  PROVE  BlkInv'
<1>1. ASSUME UNCHANGED <<edges, cached, snap>>
      PROVE  BlkInv'
  BY <1>1 DEF BlkInv, BlkShape, CacheKnows, AnswerKnows, SnapshotKnows
<1>2. ASSUME NEW w \in BlkWalker, NEW d \in Dependent, StartDependent(w, d)
      PROVE  BlkInv'
  BY <1>1, <1>2 DEF StartDependent
<1>3. ASSUME NEW t \in Ticket, TicketMoves(t)
      PROVE  BlkInv'
  BY <1>1, <1>3 DEF TicketMoves
<1>4. CASE UNCHANGED blkVars
  BY <1>1, <1>4 DEF blkVars
<1>. QED
  BY <1>2, <1>3, <1>4, TakeSnapshotInv, LinearAnswersInv, AnswerArrivesInv,
     FetchFailsInv, WalkEndsInv, BlkTimePassesInv, EdgeInv DEF BlkNext

\* What is known of an issue's blockers is complete up to its age.
THEOREM SnapshotsKnow == BlkSpec => []BlkInv
<1>1. BlkInv /\ [BlkNext]_blkVars => BlkInv'
  BY BlkNextInv
<1>. QED
  BY BlkInitInv, <1>1, PTL DEF BlkSpec

-----------------------------------------------------------------------------
NotDoomed ==
  \A d \in begun' \ begun : \A t \in Ticket : edges[d][t] = BlkOld => Satisfied(t)

LEMMA StepNotDoomed ==
  ASSUME BlkInv, [BlkNext]_blkVars
  PROVE  NotDoomed
<1>1. begun' = begun \/ \E w \in BlkWalker, d \in Dependent : StartDependent(w, d)
  BY DEF BlkNext, blkVars, BlkTimePasses, TakeSnapshot, AnswerArrives, FetchFails,
         WalkEnds, LinearAnswers, DeclareEdge, DropEdge, TicketMoves
<1>2. ASSUME NEW w \in BlkWalker, NEW d \in Dependent, StartDependent(w, d)
      PROVE  NotDoomed
  <2>1. begun' = begun \cup {d} /\ d \in snap[w].known
        /\ \A t \in snap[w].on[d] : Satisfied(t)
    BY <1>2 DEF StartDependent, Unblocked
  <2>2. snap[w].age \in 0..BlkMaxWalk
    BY DEF BlkInv, BlkShape
  <2>3. ASSUME NEW t \in Ticket, edges[d][t] = BlkOld
        PROVE  Satisfied(t)
    <3>1. edges[d][t] >= BlkTTL + BlkMaxWalk + snap[w].age
      BY <2>2, <2>3, BlkNumbers
    <3>. QED
      BY <2>1, <3>1 DEF BlkInv, SnapshotKnows
  <2>. QED
    BY <2>1, <2>3 DEF NotDoomed
<1>. QED
  BY <1>1, <1>2 DEF NotDoomed

\* No issue starts on a base that misses the work of a blocker declared longer
\* ago than the cache lives and two walks last, whatever fails in between.
THEOREM NoStartIsDoomed == BlkSpec => NoDoomedStart
<1>1. BlkInv /\ [BlkNext]_blkVars => [NotDoomed]_blkVars
  BY StepNotDoomed
<1>. QED
  BY SnapshotsKnow, <1>1, PTL DEF BlkSpec, NoDoomedStart, NotDoomed

-----------------------------------------------------------------------------
(* The one fetch in flight *)

BlkRest ==
  /\ passes \in [Ticket -> SUBSET {"active", "done", "closed"}]
  /\ linearDone \in SUBSET Ticket
  /\ backoff \in 0..BlkBackoff
  /\ fetcher \in BlkWalker \cup {NoFetch}
  /\ begun \in SUBSET Dependent

Asking(w) == snap[w].at \in {"asked", "answered"}

\* who asks is the fetcher, and nobody asks while Linear is backed off from
FetchInv ==
  /\ \A w \in BlkWalker : Asking(w) <=> fetcher = w
  /\ fetcher # NoFetch => backoff = 0

\* a walk's snapshot becomes s, which asks if and only if the walk fetches
LEMMA FetchStays ==
  ASSUME BlkShape, BlkRest, FetchInv, NEW w \in BlkWalker, NEW s,
         snap' = [snap EXCEPT ![w] = s],
         \/ s.at \in {"asked", "answered"} /\ fetcher' = w /\ backoff' = 0
            /\ fetcher \in {w, NoFetch}
         \/ s.at \notin {"asked", "answered"} /\ ~Asking(w) /\ UNCHANGED <<fetcher, backoff>>
         \/ s.at \notin {"asked", "answered"} /\ Asking(w) /\ fetcher' = NoFetch
  PROVE  FetchInv'
<1>1. \A v \in BlkWalker : snap'[v] = IF v = w THEN s ELSE snap[v]
  BY DEF BlkShape
<1>2. NoFetch \notin BlkWalker
  BY BlkAssumption
<1>3. \A v \in BlkWalker : Asking(v)' <=> IF v = w THEN s.at \in {"asked", "answered"}
                                           ELSE Asking(v)
  BY <1>1 DEF Asking
<1> QED
  BY <1>2, <1>3 DEF FetchInv, BlkRest

LEMMA FetchNextInv ==
  ASSUME BlkInv, BlkRest, FetchInv, [BlkNext]_blkVars
  PROVE  BlkRest' /\ FetchInv'
<1>0. BlkShape /\ NoFetch \notin BlkWalker /\ BlkBackoff \in Nat /\ 0 \in 0..BlkBackoff
  BY BlkAssumption DEF BlkInv
<1>1. ASSUME UNCHANGED <<snap, fetcher, backoff>>
      PROVE  FetchInv'
  BY <1>1 DEF FetchInv, Asking
<1>2. CASE BlkTimePasses
  <2>1. BlkRest'
    BY <1>0, <1>2 DEF BlkTimePasses, BlkRest
  <2>2. \A w \in BlkWalker : snap'[w].at = snap[w].at
    BY <1>0, <1>2 DEF BlkTimePasses, BlkShape, NoSnap
  <2>3. FetchInv'
    BY <1>2, <2>2 DEF BlkTimePasses, FetchInv, Asking
  <2> QED
    BY <2>1, <2>3
<1>3. ASSUME NEW w \in BlkWalker, TakeSnapshot(w)
      PROVE  BlkRest' /\ FetchInv'
  <2>1. BlkRest'
    BY <1>3 DEF TakeSnapshot, BlkRest
  <2>2. /\ snap' = [snap EXCEPT ![w] = snap'[w]]
        /\ \/ snap'[w].at = "ready" /\ UNCHANGED fetcher
           \/ snap'[w].at = "asked" /\ fetcher' = w /\ fetcher = NoFetch /\ backoff = 0
    <3> DEFINE hits == {d \in Dependent \ begun : Fresh[d].at >= 0}
               stale == (Dependent \ begun) \ hits
               on == [d \in Dependent |-> IF d \in hits THEN Fresh[d].on ELSE {}]
               held == [NoSnap EXCEPT !.known = hits, !.on = on]
    <3>1. \/ /\ snap' = [snap EXCEPT ![w] = [held EXCEPT !.at = "ready"]]
             /\ UNCHANGED fetcher
          \/ /\ snap' = [snap EXCEPT ![w] = [NoSnap EXCEPT !.at = "ready"]]
             /\ UNCHANGED fetcher
          \/ /\ snap' = [snap EXCEPT ![w] = [held EXCEPT !.at = "asked", !.asks = stale]]
             /\ fetcher' = w /\ fetcher = NoFetch /\ backoff = 0
      BY <1>3 DEF TakeSnapshot
    <3> HIDE DEF hits, stale, on
    <3>2. /\ [held EXCEPT !.at = "ready"].at = "ready"
          /\ [NoSnap EXCEPT !.at = "ready"].at = "ready"
          /\ [held EXCEPT !.at = "asked", !.asks = stale].at = "asked"
      BY DEF NoSnap
    <3> HIDE DEF held
    <3>3. \A s : snap' = [snap EXCEPT ![w] = s] =>
                 snap'[w] = s /\ snap' = [snap EXCEPT ![w] = snap'[w]]
      BY <1>0 DEF BlkShape
    <3> QED
      BY <3>1, <3>2, <3>3
  <2>3. ~Asking(w) /\ UNCHANGED backoff
    BY <1>3 DEF TakeSnapshot, Asking
  <2>4. FetchInv'
    BY <1>0, <2>2, <2>3, FetchStays
  <2> QED
    BY <2>1, <2>4
<1>4. ASSUME NEW w \in BlkWalker, NEW out \in SUBSET Dependent, LinearAnswers(w, out)
      PROVE  BlkRest' /\ FetchInv'
  <2>1. PICK s : snap' = [snap EXCEPT ![w] = s] /\ s.at = "answered"
    <3>1. snap'[w].at = "answered" /\ snap' = [snap EXCEPT ![w] = snap'[w]]
      BY <1>0, <1>4 DEF LinearAnswers, BlkShape
    <3> QED
      BY <3>1
  <2>2. fetcher = w /\ backoff = 0 /\ UNCHANGED <<fetcher, backoff>>
    BY <1>0, <1>4 DEF LinearAnswers, FetchInv, Asking
  <2>3. FetchInv'
    BY <1>0, <2>1, <2>2, FetchStays
  <2> QED
    BY <1>4, <2>3 DEF LinearAnswers, BlkRest
<1>5. ASSUME NEW w \in BlkWalker, AnswerArrives(w) \/ FetchFails(w)
      PROVE  BlkRest' /\ FetchInv'
  <2>1. PICK s : snap' = [snap EXCEPT ![w] = s] /\ s.at = "ready"
    <3>1. CASE AnswerArrives(w)
      <4>1. snap' = [snap EXCEPT ![w] = [snap[w] EXCEPT !.at = "ready", !.asks = {}]]
        BY <3>1 DEF AnswerArrives
      <4>2. [snap[w] EXCEPT !.at = "ready", !.asks = {}].at = "ready"
        BY <1>0 DEF BlkShape
      <4> QED
        BY <4>1, <4>2
    <3>2. CASE FetchFails(w)
      <4>1. snap' = [snap EXCEPT ![w] = [NoSnap EXCEPT !.at = "ready", !.age = snap[w].age]]
        BY <3>2 DEF FetchFails
      <4>2. [NoSnap EXCEPT !.at = "ready", !.age = snap[w].age].at = "ready"
        BY DEF NoSnap
      <4> QED
        BY <4>1, <4>2
    <3> QED
      BY <1>5, <3>1, <3>2
  <2>2. Asking(w) /\ fetcher' = NoFetch
    BY <1>5 DEF AnswerArrives, FetchFails, Asking
  <2>3. FetchInv'
    BY <1>0, <2>1, <2>2, FetchStays
  <2>4. BlkRest'
    BY <1>0, <1>5 DEF AnswerArrives, FetchFails, BlkRest
  <2> QED
    BY <2>3, <2>4
<1>6. ASSUME NEW w \in BlkWalker, WalkEnds(w)
      PROVE  BlkRest' /\ FetchInv'
  <2>1. FetchInv'
    BY <1>0, <1>6, FetchStays DEF WalkEnds, Asking, NoSnap
  <2> QED
    BY <1>6, <2>1 DEF WalkEnds, BlkRest
<1>7. ASSUME NEW w \in BlkWalker, NEW d \in Dependent, StartDependent(w, d)
      PROVE  BlkRest' /\ FetchInv'
  BY <1>1, <1>7 DEF StartDependent, BlkRest
<1>8. ASSUME NEW d \in Dependent, NEW t \in Ticket, DeclareEdge(d, t) \/ DropEdge(d, t)
      PROVE  BlkRest' /\ FetchInv'
  BY <1>1, <1>8 DEF DeclareEdge, DropEdge, BlkRest
<1>9. ASSUME NEW t \in Ticket, TicketMoves(t)
      PROVE  BlkRest' /\ FetchInv'
  BY <1>1, <1>9 DEF TicketMoves, BlkRest
<1>10. CASE UNCHANGED blkVars
  BY <1>1, <1>10 DEF blkVars, BlkRest
<1> QED
  BY <1>2, <1>3, <1>4, <1>5, <1>6, <1>7, <1>8, <1>9, <1>10 DEF BlkNext

LEMMA FetchInvariance == BlkSpec => [](BlkInv /\ BlkRest /\ FetchInv)
<1>1. BlkInit => BlkRest /\ FetchInv
  <2> SUFFICES ASSUME BlkInit PROVE BlkRest /\ FetchInv
    OBVIOUS
  <2>1. BlkRest
    BY BlkAssumption DEF BlkInit, BlkRest
  <2>2. \A w \in BlkWalker : snap[w].at = "none" /\ fetcher # w
    BY BlkAssumption DEF BlkInit, NoSnap
  <2> QED
    BY <2>1, <2>2 DEF BlkInit, FetchInv, Asking
<1>2. BlkInv /\ BlkRest /\ FetchInv /\ [BlkNext]_blkVars => BlkRest' /\ FetchInv'
  BY FetchNextInv
<1> QED
  BY SnapshotsKnow, <1>1, <1>2, PTL DEF BlkSpec

\* Linear is asked by one walk at a time, and by none while it is backed off
\* from (dependencies.ts: the fetch in flight).
OneFetch ==
  \A v, w \in BlkWalker : Asking(v) /\ Asking(w) => v = w /\ backoff = 0

\* However the walks overlap and the fetches fail, one fetch is in flight.
THEOREM OneFetchAtATime == BlkSpec => [](BlkTypeOK /\ OneFetch)
<1>1. BlkInv /\ BlkRest /\ FetchInv => BlkTypeOK
  BY DEF BlkInv, BlkShape, BlkRest, BlkTypeOK
<1>2. FetchInv => OneFetch
  BY BlkAssumption DEF FetchInv, OneFetch
<1> QED
  BY FetchInvariance, <1>1, <1>2, PTL
=============================================================================
