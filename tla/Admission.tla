----------------------------- MODULE Admission ------------------------------
(***************************************************************************)
(* coordinator/admission.ts over repository/queue-entries.ts: which queued *)
(* issue starts when.  Three callers walk towards startWorkflowCore and    *)
(* overlap at every await: the coordinator tick, the operator's Start and  *)
(* Execute now.  A walk freezes the number of free slots and the order of  *)
(* the queue, awaits the health and blocker checks, and only then opens    *)
(* the transaction that starts an issue.                                   *)
(*                                                                         *)
(* "developing" stands for the three occupying statuses, "closed" for the  *)
(* two terminal ones and a deleted row.  The answer of the checks          *)
(* (readiness of the text, agent health, runtime cap, blockers) is a       *)
(* choice made when they are awaited; module Blockers models the blocker   *)
(* snapshot.  wait_reason is display only: no guard reads it, and it is    *)
(* left out.                                                               *)
(***************************************************************************)
EXTENDS Integers, Sequences, FiniteSets

CONSTANTS
  AdmIssue,     \* issues
  AdmCeiling,   \* workerSpawnCeiling(): no limit is set above it
  AdmOverlap    \* bound on the operator's requests in flight at once

ASSUME AdmAssumption ==
  /\ IsFiniteSet(AdmIssue)
  /\ AdmCeiling \in Nat \ {0} /\ AdmOverlap \in Nat \ {0}

VARIABLES
  issueStatus,  \* [AdmIssue -> AdmStatuses]
  instances,    \* issues with an active workflow instance
  decisions,    \* issues with an open pre-start product_scope_decision
  queue,        \* issues of the queued entries, in order of position
  limit,        \* getEffectiveMaxActiveIssues(), read afresh by every use
  walk          \* [AdmCaller -> the walk in flight or NoWalk]

admVars == <<issueStatus, instances, decisions, queue, limit, walk>>

AdmCaller == {"tick", "start", "execute"}
AdmStatuses == {"ready", "developing", "needs_human", "final_review", "closed"}

Occupying == {i \in AdmIssue : issueStatus[i] = "developing"}
Startable(i) == issueStatus[i] \in {"ready", "needs_human"} /\ i \notin instances
FreeSlots == limit - Cardinality(Occupying)
Queued(i) == \E k \in DOMAIN queue : queue[k] = i

\* the entries of q that are in S, in their order
Among(q, S) ==
  LET upTo[n \in 0..Len(q)] ==
        IF n = 0 THEN <<>>
        ELSE IF q[n] \in S THEN Append(upTo[n - 1], q[n]) ELSE upTo[n - 1]
  IN  upTo[Len(q)]
Without(q, i) == Among(q, AdmIssue \ {i})

\* moveToTop of a row, inserted when absent
InsertedOnTop(i) == <<i>> \o queue
OnTop(i) == <<i>> \o Without(queue, i)

NoWalk == [todo |-> <<>>, left |-> 0]
InFlight(c) == walk[c].todo # <<>>
OperatorMayAsk ==
  Cardinality({c \in {"start", "execute"} : InFlight(c)}) < AdmOverlap

AdmTypeOK ==
  /\ issueStatus \in [AdmIssue -> AdmStatuses]
  /\ instances \in SUBSET AdmIssue
  /\ decisions \in SUBSET AdmIssue
  /\ queue \in Seq(AdmIssue)
  /\ \A j, k \in DOMAIN queue : queue[j] = queue[k] => j = k
  /\ limit \in 1..AdmCeiling
  /\ walk \in [AdmCaller -> [todo : Seq(AdmIssue), left : 0..AdmCeiling]]

\* migrated rows may be parked with no instance; a scope decision may be open
AdmInit ==
  /\ issueStatus \in [AdmIssue -> {"ready", "needs_human", "final_review"}]
  /\ instances = {}
  /\ decisions \in SUBSET {i \in AdmIssue : issueStatus[i] = "needs_human"}
  /\ queue = <<>>
  /\ limit \in 1..AdmCeiling
  /\ walk = [c \in AdmCaller |-> NoWalk]

-----------------------------------------------------------------------------
(* The walk: todo is the order it froze, left the slots it may still fill. *)
(* It rests at an await: the blocker snapshot, then the health of Head.    *)

\* the housekeeping pass: rows of ended or running issues leave the queue
Housekept(q) ==
  Among(q, {i \in AdmIssue : issueStatus[i] # "closed" /\ i \notin instances})

\* The loop goes on to the next entry it must await a check for.
\* issueReadinessRule passes over issues that cannot start; such an issue
\* never becomes startable again, so all of them leave the list at once.
GoOn(c, todo, left) ==
  walk' = [walk EXCEPT ![c] =
    IF left = 0 \/ todo = <<>> THEN NoWalk ELSE [todo |-> todo, left |-> left]]

AnyReady(todo) ==
  Among(todo, {i \in AdmIssue : issueStatus[i] = "ready" /\ i \notin instances})
CanStart(todo) == Among(todo, {i \in AdmIssue : Startable(i)})

\* the slots a walk may fill; a full house ends it at once
Budget == IF FreeSlots > 0 THEN FreeSlots ELSE 0

\* admitNext up to its first await, on the queue q the caller has written
BeginWalk(c, q) ==
  /\ queue' = Housekept(q)
  /\ GoOn(c, CanStart(q), Budget)

TickWalk ==
  /\ ~InFlight("tick")
  /\ BeginWalk("tick", queue)
  /\ UNCHANGED <<issueStatus, instances, decisions, limit>>

\* startIssueViaQueue: enqueue when absent, move to the top, then walk
StartIssueViaQueue(i) ==
  /\ ~InFlight("start") /\ OperatorMayAsk
  /\ Startable(i)
  /\ BeginWalk("start", OnTop(i))
  /\ UNCHANGED <<issueStatus, instances, decisions, limit>>

\* executeIssueNow up to its first await: the queue is not touched
ExecuteIssueNow(i) ==
  /\ ~InFlight("execute") /\ OperatorMayAsk
  /\ Startable(i) /\ FreeSlots > 0
  /\ GoOn("execute", <<i>>, 1)
  /\ UNCHANGED <<issueStatus, instances, decisions, queue, limit>>

Current(c, i) == InFlight(c) /\ i = Head(walk[c].todo)

\* an entry dequeued while its checks were awaited is not started; Execute
\* now does not need one
WantedWhenListed(c, i) == TRUE
StillWanted(c, i) == c = "execute" \/ Queued(i)

\* the recheck inside the transaction, against what is running now
CountedBefore == TRUE
SlotStillFree == FreeSlots > 0

\* startWorkflowCore: one transaction
StartWorkflowCore(i) ==
  /\ Startable(i)
  /\ issueStatus' = [issueStatus EXCEPT ![i] = "developing"]
  /\ instances' = instances \cup {i}
  /\ decisions' = decisions \ {i}
  /\ queue' = Without(queue, i)

Admit(c, i) ==
  /\ Current(c, i)
  /\ StillWanted(c, i)
  /\ SlotStillFree
  /\ StartWorkflowCore(i)
  /\ GoOn(c, CanStart(Tail(walk[c].todo)), walk[c].left - 1)
  /\ UNCHANGED limit

\* a check fails, the entry is no longer queued, or the start is refused
PassOver(c, i) ==
  /\ Current(c, i)
  /\ GoOn(c, CanStart(Tail(walk[c].todo)), walk[c].left)
  /\ UNCHANGED <<issueStatus, instances, decisions, queue, limit>>

\* the slots went to somebody else meanwhile: the walk ends
SlotsGone(c, i) ==
  /\ Current(c, i)
  /\ StillWanted(c, i) /\ ~SlotStillFree
  /\ walk' = [walk EXCEPT ![c] = NoWalk]
  /\ UNCHANGED <<issueStatus, instances, decisions, queue, limit>>

-----------------------------------------------------------------------------
(* The operator and the workflow *)

EnqueueIssue(i) ==
  /\ issueStatus[i] # "closed" /\ i \notin instances /\ ~Queued(i)
  /\ queue' = Append(queue, i)
  /\ UNCHANGED <<issueStatus, instances, decisions, limit, walk>>

DequeueIssue(i) ==
  /\ Queued(i)
  /\ queue' = Without(queue, i)
  /\ UNCHANGED <<issueStatus, instances, decisions, limit, walk>>

\* before(j) with j at the end of the rest is bottom's neighbour, and so on:
\* every target comes down to a place k among the others
MoveQueueEntry(i, k) ==
  LET others == Without(queue, i) IN
  /\ Queued(i)
  /\ k \in 0..Len(others)
  /\ queue' = SubSeq(others, 1, k) \o <<i>> \o SubSeq(others, k + 1, Len(others))
  /\ UNCHANGED <<issueStatus, instances, decisions, limit, walk>>

SetLimit(n) ==
  /\ limit' = n
  /\ UNCHANGED <<issueStatus, instances, decisions, queue, walk>>

\* a human answers the open scope decision: startWorkflowCore, no capacity
DecideScope(i) ==
  /\ i \in decisions
  /\ StartWorkflowCore(i)
  /\ UNCHANGED <<limit, walk>>

\* the workflow parks the issue on a human, keeping its instance ("needs_human"
\* stands for final_review, too, which is no different here)
ParkOnHuman(i) ==
  /\ i \in instances /\ issueStatus[i] = "developing"
  /\ issueStatus' = [issueStatus EXCEPT ![i] = "needs_human"]
  /\ UNCHANGED <<instances, decisions, queue, limit, walk>>

\* the human resumes or repairs it: past the limit by design
ResumeByHuman(i) ==
  /\ i \in instances /\ issueStatus[i] = "needs_human"
  /\ issueStatus' = [issueStatus EXCEPT ![i] = "developing"]
  /\ UNCHANGED <<instances, decisions, queue, limit, walk>>

\* merged, closed by a human, or aborted; an abort leaves a queued row behind
EndIssue(i) ==
  /\ issueStatus[i] # "closed"
  /\ issueStatus' = [issueStatus EXCEPT ![i] = "closed"]
  /\ instances' = instances \ {i}
  /\ decisions' = decisions \ {i}
  /\ UNCHANGED <<queue, limit, walk>>

\* closeReadyIssue: only a ready issue, and its queued row goes with it
CloseReadyIssue(i) ==
  /\ issueStatus[i] = "ready" /\ i \notin instances
  /\ issueStatus' = [issueStatus EXCEPT ![i] = "closed"]
  /\ decisions' = decisions \ {i}
  /\ queue' = Without(queue, i)
  /\ UNCHANGED <<instances, limit, walk>>

\* deleteDealerIssue: all rows of an issue that is ready or over and has no
\* work go, the queued one too
Deletable(i) == issueStatus[i] \in {"ready", "closed"} /\ i \notin instances

DeleteIssue(i) ==
  /\ Deletable(i)
  /\ issueStatus' = [issueStatus EXCEPT ![i] = "closed"]
  /\ decisions' = decisions \ {i}
  /\ queue' = Without(queue, i)
  /\ UNCHANGED <<instances, limit, walk>>

AdmNext ==
  \/ TickWalk
  \/ \E c \in AdmCaller, i \in AdmIssue :
       Admit(c, i) \/ PassOver(c, i) \/ SlotsGone(c, i)
  \/ \E i \in AdmIssue :
       \/ StartIssueViaQueue(i) \/ ExecuteIssueNow(i)
       \/ EnqueueIssue(i) \/ DequeueIssue(i)
       \/ DecideScope(i) \/ ParkOnHuman(i) \/ ResumeByHuman(i)
       \/ EndIssue(i) \/ CloseReadyIssue(i) \/ DeleteIssue(i)
       \/ \E k \in 0..Len(queue) : MoveQueueEntry(i, k)
  \/ \E n \in 1..AdmCeiling : SetLimit(n)

AdmSpec == AdmInit /\ [][AdmNext]_admVars

\* The poll timer fires, its awaited checks answer (they are bounded by
\* time-outs), a workflow's round and attempt budgets bring it to an end, and
\* the checks of an issue that is looked at again and again do pass.
AdmFairness ==
  /\ WF_admVars(TickWalk)
  /\ WF_admVars(\E i \in AdmIssue :
       Admit("tick", i) \/ PassOver("tick", i) \/ SlotsGone("tick", i))
  /\ \A i \in AdmIssue :
       /\ SF_admVars(Admit("tick", i))
       /\ SF_admVars(i \in Occupying /\ EndIssue(i))

-----------------------------------------------------------------------------
(* Properties *)

\* An issue by what its admission is: started, over, or still to start.
PoolFate ==
  [i \in AdmIssue |->
     IF issueStatus[i] = "closed" THEN "over"
     ELSE IF i \notin instances THEN "waiting"
     ELSE IF issueStatus[i] = "developing" THEN "running" ELSE "paused"]

Pool == INSTANCE SlotPool WITH
  Job <- AdmIssue, MaxSlots <- AdmCeiling,
  fate <- PoolFate, mandates <- decisions, slots <- limit

\* Whatever tick, Start and Execute now interleave, every start takes a slot
\* that is free at that instant under the limit of that instant; only a human
\* decision goes past it, and nothing starts twice (admission.ts:357-463,
\* 601-655: the slots are counted before the awaits and again after them).
ImplementsSlotPool == Pool!Spec

\* An operator's dequeue holds against the walks in flight: what tick or Start
\* starts is still in the queue at that instant (admission.ts:424-427).
DequeueHolds ==
  [][\A c \in {"tick", "start"}, i \in AdmIssue :
       walk'[c] # walk[c] /\ i \in instances' \ instances => Queued(i)]_admVars

\* Nobody starves: a startable issue in the queue is started, or leaves the
\* queue, however the operator reorders it and whoever overtakes it; and the
\* row of an aborted issue goes (admission.ts:357-371).
QueuedMovesOn ==
  \A i \in AdmIssue : Queued(i) /\ Startable(i) ~> ~Queued(i)
=============================================================================
