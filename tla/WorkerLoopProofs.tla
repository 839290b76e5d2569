-------------------------- MODULE WorkerLoopProofs --------------------------
(***************************************************************************)
(* Theorems about WorkerLoop, for every set of items, instances and tokens *)
(* and every bound.  The row of a work item is changed by few kinds of     *)
(* step (RowStep below): lemma NextIsRowStep reduces the actions of the    *)
(* loop to them, and the theorems about rows are proved from it.           *)
(***************************************************************************)
EXTENDS WorkerLoop, FiniteSetTheorems, TLAPS

(***************************************************************************)
(* What a step does to the rows, and to the history of their claims.       *)
(***************************************************************************)
claimHistory == <<charged, settledBy, lastGrant>>
Used == {t \in Token : phase[t] # "unused"}

\* only time passes for the rows: leases lapse or are renewed, gates open
RowsRest ==
  /\ UNCHANGED <<status, attemptCount, leaseToken, born>>
  /\ expired' \subseteq Item /\ gated' \subseteq Item
  /\ UNCHANGED <<claimHistory, itemOf, Used>>

RowEnqueued(j) ==
  /\ EnqueueWorkItem(j)
  /\ UNCHANGED <<claimHistory, itemOf, Used>>

RowClaimed(i, t) ==
  /\ t \notin Used
  /\ ClaimWorkItem(i, t)
  /\ Used' = Used \cup {t}
  /\ itemOf' = [itemOf EXCEPT ![t] = i]
  /\ lastGrant' = [lastGrant EXCEPT ![i] = t]
  /\ UNCHANGED <<charged, settledBy>>

RowFinished(i, t) ==
  /\ t \in Used
  /\ \E o \in {"done", "dead"}, next \in NextEffects(i) : FinishWorkItem(i, t, o, next)
  /\ Settle(i, t)
  /\ UNCHANGED <<charged, lastGrant, itemOf, Used>>

RowCharged(i, t) ==
  /\ t \in Used
  /\ ~AttemptCapReached(i)
  /\ RequeueCharged(i, t)
  /\ charged' = [charged EXCEPT ![i] = @ + 1]
  /\ UNCHANGED <<settledBy, lastGrant, itemOf, Used>>

RowRefunded(i, t) ==
  /\ t \in Used
  /\ RequeueRefunded(i, t)
  /\ UNCHANGED <<claimHistory, itemOf, Used>>

RowsCancelled(n) ==
  /\ CancelWorkItems(ItemsOf(n))
  /\ UNCHANGED <<claimHistory, itemOf, Used>>

RowStep ==
  \/ RowsRest
  \/ \E j \in Item : RowEnqueued(j)
  \/ \E i \in Item, t \in Token :
       RowClaimed(i, t) \/ RowFinished(i, t) \/ RowCharged(i, t) \/ RowRefunded(i, t)
  \/ \E n \in Instance : RowsCancelled(n)

(***************************************************************************)
(* A minted token names an item.                                           *)
(***************************************************************************)
LEMMA ClaimHasItem ==
  ASSUME TypeOK, NEW t \in Token, phase[t] # "unused"
  PROVE  itemOf[t] \in Item /\ t \in Used
BY WorkerLoopAssumption DEF TypeOK, ReferencesOK, Used

LEMMA AdvanceKeepsUsed ==
  ASSUME TypeOK, NEW t \in Token, phase[t] # "unused", NEW to, to # "unused",
         Advance(t, to)
  PROVE  Used' = Used
BY DEF TypeOK, Advance, Used

(***************************************************************************)
(* Every step of the system changes the rows in one of these ways.  The    *)
(* actions are taken in the order of the specification.                    *)
(***************************************************************************)
LEMMA SetupIsRowStep ==
  ASSUME TypeOK, NEW t \in Token, Setup(t) \/ HealthSettles(t)
  PROVE  RowStep
<1>1. phase[t] # "unused" /\ itemOf[t] \in Item /\ t \in Used
  BY ClaimHasItem DEF Setup, BeginSession, SetupFails, DeferForCap, EscalateCap,
                      HealthSettles, HealthOk, HealthFails
<1>2. CASE BeginSession(t)
  <2>1. Used' = Used
    BY <1>1, <1>2, AdvanceKeepsUsed DEF BeginSession
  <2> QED
    BY <1>2, <2>1 DEF BeginSession, RowStep, RowsRest, TypeOK, RowsTypeOK,
        rowVars, historyVars, claimHistory
<1>3. CASE SetupFails(t)
  <2>1. Used' = Used
    BY <1>1, <1>3, AdvanceKeepsUsed DEF SetupFails
  <2> QED
    BY <1>3, <2>1 DEF SetupFails, RowStep, RowsRest, TypeOK, RowsTypeOK,
        rowVars, historyVars, claimHistory
<1>4. CASE DeferForCap(t)
  <2>1. Used' = Used
    BY <1>1, <1>4, AdvanceKeepsUsed DEF DeferForCap
  <2>2. RowRefunded(itemOf[t], t)
    BY <1>1, <1>4, <2>1 DEF DeferForCap, RowRefunded, historyVars, claimHistory
  <2> QED
    BY <1>1, <2>2 DEF RowStep
<1>5. CASE EscalateCap(t)
  <2>1. Used' = Used
    BY <1>1, <1>5, AdvanceKeepsUsed DEF EscalateCap
  <2>2. RowFinished(itemOf[t], t)
    BY <1>1, <1>5, <2>1 DEF EscalateCap, RowFinished, NextEffects
  <2> QED
    BY <1>1, <2>2 DEF RowStep
<1>6. CASE HealthOk(t)
  <2>1. Used' = Used
    BY <1>1, <1>6, AdvanceKeepsUsed DEF HealthOk
  <2> QED
    BY <1>6, <2>1 DEF HealthOk, RowStep, RowsRest, TypeOK, RowsTypeOK,
        rowVars, historyVars, claimHistory
<1>7. CASE HealthFails(t)
  <2>1. Used' = Used
    BY <1>1, <1>7, AdvanceKeepsUsed DEF HealthFails
  <2>2. CASE Holds(itemOf[t], t)
    <3>1. RowRefunded(itemOf[t], t)
      BY <1>1, <1>7, <2>1, <2>2 DEF HealthFails, RowRefunded, historyVars, claimHistory
    <3> QED
      BY <1>1, <3>1 DEF RowStep
  <2>3. CASE ~Holds(itemOf[t], t)
    BY <1>7, <2>1, <2>3
    DEF HealthFails, RowStep, RowsRest, TypeOK, RowsTypeOK,
        rowVars, historyVars, claimHistory
  <2> QED
    BY <2>2, <2>3
<1> QED
  BY <1>2, <1>3, <1>4, <1>5, <1>6, <1>7 DEF Setup, HealthSettles

LEMMA HandlerIsRowStep ==
  ASSUME TypeOK, NEW t \in Token,
         \/ PreSpawnCheck(t) \/ Spawn(t) \/ CliExits(t) \/ Heartbeat(t)
         \/ LoseHeartbeat(t) \/ HandlerEnds(t) \/ TimeoutSettles(t)
         \/ HoldCeilingPasses(t)
  PROVE  RowStep
<1> USE DEF RowsRest, TypeOK, RowsTypeOK, rowVars, loopVars, historyVars, claimHistory
<1>1. CASE PreSpawnCheck(t)
  <2>1. Used' = Used
    BY <1>1, AdvanceKeepsUsed DEF PreSpawnCheck
  <2> QED
    BY <1>1, <2>1 DEF PreSpawnCheck, RowStep
<1>2. CASE Spawn(t)
  <2>1. Used' = Used
    BY <1>2, AdvanceKeepsUsed DEF Spawn
  <2> QED
    BY <1>2, <2>1 DEF Spawn, RowStep
<1>3. CASE CliExits(t)
  BY <1>3 DEF CliExits, RowStep, Used
<1>4. CASE Heartbeat(t)
  BY <1>4 DEF Heartbeat, RefreshHeartbeat, RowStep, Used
<1>5. CASE LoseHeartbeat(t)
  <2>1. Used' = Used
    BY <1>5, AdvanceKeepsUsed DEF LoseHeartbeat
  <2> QED
    BY <1>5, <2>1 DEF LoseHeartbeat, RowStep
<1>6. CASE Answer(t)
  <2>1. Used' = Used
    BY <1>6, AdvanceKeepsUsed DEF Answer
  <2> QED
    BY <1>6, <2>1 DEF Answer, RowStep
<1>7. CASE HandlerThrows(t)
  <2>1. Used' = Used
    BY <1>7, AdvanceKeepsUsed DEF HandlerThrows
  <2>2. itemOf[t] \in Item /\ t \in Used
    BY <1>7, ClaimHasItem DEF HandlerThrows
  <2>3. \/ RowsRest
        \/ RowCharged(itemOf[t], t)
        \/ RowFinished(itemOf[t], t)
    BY <1>7, <2>1, <2>2 DEF HandlerThrows, RowCharged, RowFinished
  <2> QED
    BY <2>2, <2>3 DEF RowStep
<1>8. CASE TimeoutSettles(t)
  <2>1. Used' = Used
    BY <1>8, AdvanceKeepsUsed DEF TimeoutSettles
  <2> QED
    BY <1>8, <2>1 DEF TimeoutSettles, RowStep
<1>9. CASE HoldCeilingPasses(t)
  BY <1>9 DEF HoldCeilingPasses, RowStep, Used
<1> QED
  BY <1>1, <1>2, <1>3, <1>4, <1>5, <1>6, <1>7, <1>8, <1>9 DEF HandlerEnds

LEMMA CompletionIsRowStep ==
  ASSUME TypeOK, NEW t \in Token, Complete(t) \/ Wrap(t)
  PROVE  RowStep
<1> USE DEF RowsRest, TypeOK, RowsTypeOK, rowVars, historyVars, claimHistory
<1>1. phase[t] # "unused" /\ itemOf[t] \in Item /\ t \in Used
  BY ClaimHasItem DEF Complete, CompleteRouted, CompleteDeferred, CompleteLost,
                      RoutingThrows, Wrap
<1>2. Used' = Used
  BY <1>1, AdvanceKeepsUsed
  DEF Complete, CompleteRouted, CompleteDeferred, CompleteLost, RoutingThrows, Wrap
<1>3. CASE CompleteRouted(t)
  <2>1. RowFinished(itemOf[t], t)
    BY <1>1, <1>2, <1>3 DEF CompleteRouted, RowFinished
  <2> QED
    BY <1>1, <2>1 DEF RowStep
<1>4. CASE CompleteDeferred(t)
  <2>1. RowRefunded(itemOf[t], t)
    BY <1>1, <1>2, <1>4 DEF CompleteDeferred, RowRefunded
  <2> QED
    BY <1>1, <2>1 DEF RowStep
<1>5. CASE CompleteLost(t)
  BY <1>2, <1>5 DEF CompleteLost, RowStep
<1>6. CASE RoutingThrows(t)
  BY <1>2, <1>6 DEF RoutingThrows, RowStep
<1>7. CASE Wrap(t)
  BY <1>2, <1>7 DEF Wrap, RowStep
<1> QED
  BY <1>3, <1>4, <1>5, <1>6, <1>7 DEF Complete

LEMMA RecoveryIsRowStep ==
  ASSUME TypeOK, RecoveryStep
  PROVE  RowStep
<1> USE DEF RowsRest, TypeOK, RowsTypeOK, rowVars, loopVars, historyVars, claimHistory
<1>1. CASE RecoverScan
  BY <1>1 DEF RecoverScan, RowStep, Used
<1>2. ASSUME NEW r \in suspects, Judge(r)
      PROVE  RowStep
  <2>1. CASE RecoverHolds(r)
    BY <2>1 DEF RecoverHolds, RefreshHeartbeat, RowStep, Used
  <2>2. CASE RecoverSpares(r)
    BY <2>2 DEF RecoverSpares, RowStep, Used
  <2>3. CASE RecoverCondemns(r)
    BY <2>3 DEF RecoverCondemns, RowStep, Used
  <2> QED
    BY <1>2, <2>1, <2>2, <2>3 DEF Judge
<1>3. ASSUME NEW r \in condemned, Reclaim(r)
      PROVE  RowStep
  <2>1. r.token \in Token /\ itemOf[r.token] \in Item /\ r.token \in Used
    BY WorkerLoopAssumption DEF TypeOK, ReferencesOK, Candidate, Used
  <2>2. CASE ReclaimLost(r)
    BY <2>2 DEF ReclaimLost, RowStep, Used
  <2>3. CASE ReclaimDeferred(r)
    <3>1. RowRefunded(itemOf[r.token], r.token)
      BY <2>1, <2>3 DEF ReclaimDeferred, RowRefunded, Used
    <3> QED
      BY <2>1, <3>1 DEF RowStep
  <2>4. CASE ReclaimRequeued(r)
    <3>1. RowRefunded(itemOf[r.token], r.token)
      BY <2>1, <2>4 DEF ReclaimRequeued, RowRefunded, Used
    <3> QED
      BY <2>1, <3>1 DEF RowStep
  <2>5. CASE ReclaimDead(r)
    <3>1. RowFinished(itemOf[r.token], r.token)
      BY <2>1, <2>5 DEF ReclaimDead, RowFinished, Used
    <3> QED
      BY <2>1, <3>1 DEF RowStep
  <2>6. CASE ReclaimThrows(r)
    BY <2>6 DEF ReclaimThrows, RowStep, Used
  <2> QED
    BY <1>3, <2>2, <2>3, <2>4, <2>5, <2>6 DEF Reclaim
<1> QED
  BY <1>1, <1>2, <1>3 DEF RecoveryStep

LEMMA NextIsRowStep ==
  ASSUME TypeOK, [Next]_vars
  PROVE  RowStep
<1> USE DEF RowsRest, TypeOK, RowsTypeOK, rowVars, loopVars, historyVars, claimHistory
<1>1. ASSUME NEW j \in Item, Enqueue(j)
      PROVE  RowStep
  <2>1. RowEnqueued(j)
    BY <1>1 DEF Enqueue, RowEnqueued, Used
  <2> QED
    BY <2>1 DEF RowStep
<1>2. ASSUME NEW j \in Item, LeaseLapses(j) \/ GateOpens(j)
      PROVE  RowStep
  BY <1>2 DEF LeaseLapses, LeaseExpires, GateOpens, BackoffElapses, RowStep, Used
<1>3. ASSUME NEW i \in Item, NEW t \in Token, Claim(i, t)
      PROVE  RowStep
  <2>1. t \notin Used /\ Used' = Used \cup {t}
    BY <1>3 DEF Claim, Advance, Used, TypeOK
  <2>2. RowClaimed(i, t)
    BY <1>3, <2>1 DEF Claim, RowClaimed
  <2> QED
    BY <2>2 DEF RowStep
<1>4. ASSUME NEW t \in Token, AttemptStep(t)
      PROVE  RowStep
  BY <1>4, SetupIsRowStep, HandlerIsRowStep, CompletionIsRowStep DEF AttemptStep
<1>5. ASSUME NEW n \in Instance, Abort(n)
      PROVE  RowStep
  <2>1. RowsCancelled(n)
    BY <1>5 DEF Abort, RowsCancelled, Used
  <2> QED
    BY <2>1 DEF RowStep
<1>6. CASE Crash
  <2>1. Used' = Used
    BY <1>6 DEF Crash, Used, Running, InProcess, TypeOK
  <2> QED
    BY <1>6, <2>1 DEF Crash, RowStep
<1>7. CASE HostSleep \/ GraceEnds
  BY <1>7 DEF HostSleep, GraceEnds, RowStep, Used
<1>8. CASE UNCHANGED vars
  BY <1>8 DEF vars, RowStep, Used
<1> QED
  BY <1>1, <1>2, <1>3, <1>4, <1>5, <1>6, <1>7, <1>8, RecoveryIsRowStep DEF Next

(***************************************************************************)
(* The row updates keep the types of the rows, and the references between  *)
(* leased rows and the claims that lease them.                             *)
(***************************************************************************)
LeaseRefs ==
  \A i \in Item : IF status[i] = "leased"
                  THEN leaseToken[i] \in Token /\ itemOf[leaseToken[i]] = i
                  ELSE leaseToken[i] = NoToken

LEMMA NextRankType == NextRank \in Nat
<1>1. IsFiniteSet({j \in Item : status[j] # "absent"})
  BY WorkItemsAssumption, FS_Subset
<1> QED
  BY <1>1, FS_CardinalityType DEF NextRank

LEMMA RowStepKeepsRows ==
  ASSUME TypeOK, RowStep
  PROVE  RowsTypeOK' /\ LeaseRefs'
<1> USE WorkItemsAssumption DEF TypeOK, RowsTypeOK, ReferencesOK, LeaseRefs, Status, TokenOrNone
<1>1. CASE RowsRest
  BY <1>1 DEF RowsRest
<1>2. ASSUME NEW j \in Item, RowEnqueued(j)
      PROVE  RowsTypeOK' /\ LeaseRefs'
  BY <1>2, NextRankType DEF RowEnqueued, EnqueueWorkItem, Insert, InsertAllowed
<1>3. ASSUME NEW i \in Item, NEW t \in Token, RowClaimed(i, t)
      PROVE  RowsTypeOK' /\ LeaseRefs'
  <2>1. RowsTypeOK'
    BY <1>3 DEF RowClaimed, ClaimWorkItem
  <2>2. itemOf[t] = NoItem /\ phase[t] = "unused"
    BY <1>3 DEF RowClaimed, Used
  <2>3. ASSUME NEW j \in Item
        PROVE  IF status'[j] = "leased"
               THEN leaseToken'[j] \in Token /\ itemOf'[leaseToken'[j]] = j
               ELSE leaseToken'[j] = NoToken
    <3>1. CASE j = i
      BY <1>3, <3>1 DEF RowClaimed, ClaimWorkItem
    <3>2. CASE j # i
      BY <1>3, <2>2, <3>2, WorkerLoopAssumption DEF RowClaimed, ClaimWorkItem
    <3> QED
      BY <3>1, <3>2
  <2> QED
    BY <2>1, <2>3
<1>4. ASSUME NEW i \in Item, NEW t \in Token, RowFinished(i, t)
      PROVE  RowsTypeOK' /\ LeaseRefs'
  <2>1. PICK o \in {"done", "dead"}, next \in NextEffects(i) : FinishWorkItem(i, t, o, next)
    BY <1>4 DEF RowFinished
  <2>2. \A j \in next : j \in Item /\ j # i /\ status[j] = "absent"
    BY <2>1 DEF NextEffects, ItemsOf, FinishWorkItem, InsertAllowed
  <2>3. RowsTypeOK'
    BY <2>1, NextRankType DEF FinishWorkItem
  <2>4. LeaseRefs'
    BY <1>4, <2>1, <2>2 DEF FinishWorkItem, RowFinished
  <2> QED
    BY <2>3, <2>4
<1>5. ASSUME NEW i \in Item, NEW t \in Token, RowCharged(i, t)
      PROVE  RowsTypeOK' /\ LeaseRefs'
  BY <1>5 DEF RowCharged, RequeueCharged
<1>6. ASSUME NEW i \in Item, NEW t \in Token, RowRefunded(i, t)
      PROVE  RowsTypeOK' /\ LeaseRefs'
  BY <1>6 DEF RowRefunded, RequeueRefunded, Refunded
<1>7. ASSUME NEW n \in Instance, RowsCancelled(n)
      PROVE  RowsTypeOK' /\ LeaseRefs'
  BY <1>7 DEF RowsCancelled, CancelWorkItems, Cancellable, Active
<1> QED
  BY <1>1, <1>2, <1>3, <1>4, <1>5, <1>6, <1>7 DEF RowStep

(***************************************************************************)
(* The types of everything else, action by action.                         *)
(***************************************************************************)
LoopTypes ==
  /\ itemOf \in [Token -> Item \cup {NoItem}]
  /\ phase \in [Token -> Phase]
  /\ session \in [Token -> SessionStatus]
  /\ cli \in [Token -> {"none", "alive", "gone"}]
  /\ bound \in [Item -> TokenOrNone]
  /\ shield \subseteq Token
  /\ overdue \subseteq Token
  /\ infra \in [Instance -> Nat]
  /\ closed \subseteq Instance
  /\ disruptions \in Nat
  /\ charged \in [Item -> Nat]
  /\ settledBy \in [Item -> TokenOrNone]
  /\ lastGrant \in [Item -> TokenOrNone]
  /\ stray \subseteq Token

\* what a pass keeps of the leases it listed
PassTypes ==
  \A r \in suspects \cup condemned : r \in Candidate /\ r.token \in Used

LEMMA SessionUpdates ==
  ASSUME NEW s \in [Token -> SessionStatus], NEW b \in TokenOrNone,
         NEW to \in {"done", "failed", "cancelled"}
  PROVE  /\ b \in Token => CompleteSession(s, b, to) \in [Token -> SessionStatus]
         /\ FailOrphanSession(s, b) \in [Token -> SessionStatus]
BY WorkItemsAssumption
DEF CompleteSession, FailOrphanSession, SessionStatus, TokenOrNone

LEMMA AttemptKeepsLoopTypes ==
  ASSUME TypeOK, NEW t \in Token, AttemptStep(t)
  PROVE  LoopTypes'
<1> USE DEF TypeOK, LoopTypes, Phase, InProcess, Advance, Settle, TokenOrNone,
            loopVars, historyVars
<1>1. phase[t] # "unused" => itemOf[t] \in Item
  BY ClaimHasItem
<1>2. CASE Setup(t)
  BY <1>1, <1>2 DEF Setup, BeginSession, SetupFails, DeferForCap, EscalateCap,
                    SessionStatus
<1>3. CASE HealthSettles(t)
  <2>1. CompleteSession(session, t, "cancelled") \in [Token -> SessionStatus]
    BY SessionUpdates
  <2> QED
    BY <1>3, <2>1 DEF HealthSettles, HealthOk, HealthFails
<1>4. CASE PreSpawnCheck(t) \/ Spawn(t) \/ CliExits(t) \/ Heartbeat(t)
           \/ LoseHeartbeat(t) \/ TimeoutSettles(t) \/ HoldCeilingPasses(t)
  BY <1>4 DEF PreSpawnCheck, Spawn, CliExits, Heartbeat, LoseHeartbeat,
              TimeoutSettles, HoldCeilingPasses
<1>5. CASE Answer(t)
  BY <1>5 DEF Answer
<1>6. CASE HandlerThrows(t)
  <2>1. itemOf[t] \in Item
    BY <1>1, <1>6 DEF HandlerThrows
  <2>2. session' \in [Token -> SessionStatus]
    BY <1>6, SessionUpdates DEF HandlerThrows
  <2>3. charged' \in [Item -> Nat] /\ settledBy' \in [Item -> TokenOrNone]
    BY <1>6, <2>1 DEF HandlerThrows
  <2> QED
    BY <1>6, <2>2, <2>3 DEF HandlerThrows
<1>7. CASE Complete(t)
  BY <1>1, <1>7, SessionUpdates
  DEF Complete, CompleteRouted, CompleteDeferred, CompleteLost, RoutingThrows
<1>8. CASE Wrap(t)
  BY <1>8, SessionUpdates DEF Wrap
<1> QED
  BY <1>2, <1>3, <1>4, <1>5, <1>6, <1>7, <1>8 DEF AttemptStep, HandlerEnds

LEMMA RecoveryKeepsLoopTypes ==
  ASSUME TypeOK, RecoveryStep
  PROVE  LoopTypes'
<1> USE DEF TypeOK, LoopTypes, Settle, TokenOrNone, loopVars, historyVars
<1>1. CASE RecoverScan
  BY <1>1 DEF RecoverScan
<1>2. ASSUME NEW r \in suspects, Judge(r)
      PROVE  LoopTypes'
  <2>1. r \in Candidate
    OBVIOUS
  <2>2. CASE RecoverHolds(r) \/ RecoverSpares(r)
    BY <2>2 DEF RecoverHolds, RecoverSpares
  <2>3. CASE RecoverCondemns(r)
    <3>0. PICK v \in Verdicts(r.session) : \E o \in Outcomes(v) :
             /\ cli' = Signalled(r.session, o)
             /\ stray' = (stray \ Stopped(r.session, o)) \cup Unverified(r.session, o)
             /\ overdue' = overdue \ Stopped(r.session, o)
      BY <2>3 DEF RecoverCondemns
    <3>1. PICK o \in Outcomes(v) :
             /\ cli' = Signalled(r.session, o)
             /\ stray' = (stray \ Stopped(r.session, o)) \cup Unverified(r.session, o)
             /\ overdue' = overdue \ Stopped(r.session, o)
      BY <3>0
    <3>2. r.session \in TokenOrNone
      BY <2>1 DEF Candidate
    <3>3. o = "over" \/ r.session \in Token
      BY <3>0, <3>1, <3>2 DEF Verdicts, Outcomes
    <3>4. cli' \in [Token -> {"none", "alive", "gone"}]
      BY <3>1, <3>3 DEF Signalled
    <3>5. stray' \subseteq Token /\ overdue' \subseteq Token
      BY <3>1, <3>3 DEF Stopped, Unverified
    <3> QED
      BY <2>3, <3>4, <3>5 DEF RecoverCondemns
  <2> QED
    BY <1>2, <2>2, <2>3 DEF Judge
<1>3. ASSUME NEW r \in condemned, Reclaim(r)
      PROVE  LoopTypes'
  <2>1. r.session \in TokenOrNone /\ r.token \in Token
    BY DEF Candidate
  <2>2. itemOf[r.token] \in Item /\ InstanceOf[itemOf[r.token]] \in Instance
    BY WorkItemsAssumption DEF ReferencesOK
  <2>3. FailOrphanSession(session, r.session) \in [Token -> SessionStatus]
    BY <2>1, SessionUpdates
  <2> QED
    BY <1>3, <2>1, <2>2, <2>3
    DEF Reclaim, ReclaimLost, ReclaimDeferred, ReclaimRequeued, ReclaimDead, ReclaimThrows
<1> QED
  BY <1>1, <1>2, <1>3 DEF RecoveryStep

LEMMA NextKeepsLoopTypes ==
  ASSUME TypeOK, [Next]_vars
  PROVE  LoopTypes'
<1> USE DEF TypeOK, LoopTypes, Advance, TokenOrNone, loopVars, historyVars
<1>1. ASSUME NEW j \in Item, Enqueue(j) \/ LeaseLapses(j) \/ GateOpens(j)
      PROVE  LoopTypes'
  BY <1>1, WorkItemsAssumption DEF Enqueue, LeaseLapses, GateOpens
<1>2. ASSUME NEW i \in Item, NEW t \in Token, Claim(i, t)
      PROVE  LoopTypes'
  BY <1>2 DEF Claim, Phase, InProcess
<1>3. ASSUME NEW n \in Instance, Abort(n)
      PROVE  LoopTypes'
  BY <1>3 DEF Abort, SessionStatus
<1>4. CASE Crash
  BY <1>4 DEF Crash, Phase
<1>5. CASE HostSleep \/ GraceEnds
  BY <1>5 DEF HostSleep, GraceEnds, ReferencesOK
<1>6. CASE UNCHANGED vars
  BY <1>6 DEF vars
<1> QED
  BY <1>1, <1>2, <1>3, <1>4, <1>5, <1>6, AttemptKeepsLoopTypes, RecoveryKeepsLoopTypes
  DEF Next

LEMMA NextKeepsPassTypes ==
  ASSUME TypeOK, PassTypes, [Next]_vars
  PROVE  PassTypes'
<1> USE DEF PassTypes
<1>1. Used \subseteq Used'
  BY NextIsRowStep
  DEF RowStep, RowsRest, RowEnqueued, RowClaimed, RowFinished, RowCharged,
      RowRefunded, RowsCancelled
<1>2. CASE suspects' \subseteq suspects /\ condemned' \subseteq suspects \cup condemned
  BY <1>1, <1>2
<1>3. ASSUME NEW t \in Token, Heartbeat(t)
      PROVE  PassTypes'
  BY <1>1, <1>3 DEF Heartbeat, Renewed, Candidate
<1>4. CASE RecoverScan
  <2>1. \A i \in ExpiredLeases :
           i \in Item /\ leaseToken[i] \in Used /\ bound[i] \in TokenOrNone
    BY WorkerLoopAssumption DEF ExpiredLeases, TypeOK, RowsTypeOK, ReferencesOK, Used
  <2>2. \A t \in Token : Shielded(t) \in BOOLEAN
    BY DEF Shielded
  <2>3. \A r \in suspects' : r \in Candidate /\ r.token \in Used
    <3> SUFFICES ASSUME NEW r \in suspects'
                 PROVE  r \in Candidate /\ r.token \in Used
      OBVIOUS
    <3>1. PICK i \in ExpiredLeases :
            r = [token |-> leaseToken[i], session |-> bound[i],
                 shielded |-> Shielded(leaseToken[i]), renewed |-> FALSE]
      BY <1>4 DEF RecoverScan
    <3>2. leaseToken[i] \in Token /\ Shielded(leaseToken[i]) \in BOOLEAN
      BY <2>1, <2>2 DEF Used
    <3> QED
      BY <2>1, <3>1, <3>2 DEF Candidate
  <2> QED
    BY <1>1, <1>4, <2>3 DEF RecoverScan
<1>5. \/ suspects' \subseteq suspects /\ condemned' \subseteq suspects \cup condemned
      \/ \E t \in Token : Heartbeat(t)
      \/ RecoverScan
  <2> USE DEF passVars
  <2>1. ASSUME NEW j \in Item, Enqueue(j) \/ LeaseLapses(j) \/ GateOpens(j)
        PROVE  UNCHANGED passVars
    BY <2>1 DEF Enqueue, LeaseLapses, GateOpens
  <2>2. ASSUME NEW i \in Item, NEW t \in Token, Claim(i, t)
        PROVE  UNCHANGED passVars
    BY <2>2 DEF Claim
  <2>3. ASSUME NEW t \in Token, AttemptStep(t)
        PROVE  UNCHANGED passVars \/ Heartbeat(t)
    BY <2>3
    DEF AttemptStep, Setup, BeginSession, SetupFails, DeferForCap, EscalateCap,
        HealthSettles, HealthOk, HealthFails, PreSpawnCheck, Spawn, CliExits,
        LoseHeartbeat, HandlerEnds, Answer, HandlerThrows, TimeoutSettles, Complete,
        CompleteRouted, CompleteDeferred, CompleteLost, RoutingThrows, Wrap,
        HoldCeilingPasses
  <2>4. ASSUME NEW n \in Instance, Abort(n)
        PROVE  UNCHANGED passVars
    BY <2>4 DEF Abort
  <2>5. ASSUME NEW r \in suspects, Judge(r)
        PROVE  suspects' \subseteq suspects /\ condemned' \subseteq suspects \cup condemned
    BY <2>5 DEF Judge, RecoverHolds, RecoverSpares, RecoverCondemns
  <2>6. ASSUME NEW r \in condemned, Reclaim(r)
        PROVE  suspects' = suspects /\ condemned' = {}
    BY <2>6
    DEF Reclaim, ReclaimLost, ReclaimDeferred, ReclaimRequeued, ReclaimDead, ReclaimThrows
  <2>7. Crash => suspects' = {} /\ condemned' = {}
    BY DEF Crash
  <2>8. HostSleep \/ GraceEnds => UNCHANGED passVars
    BY DEF HostSleep, GraceEnds
  <2>9. UNCHANGED vars => UNCHANGED passVars
    BY DEF vars
  <2> QED
    BY <2>1, <2>2, <2>3, <2>4, <2>5, <2>6, <2>7, <2>8, <2>9 DEF Next, RecoveryStep
<1> QED
  BY <1>2, <1>3, <1>4, <1>5

LEMMA TypeOKPassTypes == TypeOK => PassTypes
BY WorkerLoopAssumption DEF TypeOK, ReferencesOK, PassTypes, Used, Candidate

(***************************************************************************)
(* The types of all variables and the references between rows, claims and  *)
(* the recovery pass are kept by every step: a leased row names a minted   *)
(* token, and that token's claim names the row (worker-loop.ts,            *)
(* work-items.ts, recovery.ts).                                            *)
(***************************************************************************)
THEOREM TypeCorrect == Spec => []TypeOK
<1>1. Init => TypeOK
  BY WorkItemsAssumption, WorkerLoopAssumption
  DEF Init, RowsInit, TypeOK, ReferencesOK, RowsTypeOK, Status, TokenOrNone, Phase,
      SessionStatus
<1>2. TypeOK /\ [Next]_vars => TypeOK'
  <2> SUFFICES ASSUME TypeOK, [Next]_vars
               PROVE  TypeOK'
    OBVIOUS
  <2>1. RowStep
    BY NextIsRowStep
  <2>2. RowsTypeOK' /\ LeaseRefs'
    BY <2>1, RowStepKeepsRows
  <2>3. LoopTypes'
    BY NextKeepsLoopTypes
  <2>4. PassTypes'
    BY NextKeepsPassTypes, TypeOKPassTypes
  <2>5. ASSUME NEW t \in Token
        PROVE  phase'[t] = "unused" <=> itemOf'[t] = NoItem
    <3>1. phase[t] = "unused" <=> itemOf[t] = NoItem
      BY DEF TypeOK, ReferencesOK
    <3>2. phase'[t] = "unused" <=> t \notin Used'
      BY DEF Used
    <3>3. phase[t] = "unused" <=> t \notin Used
      BY DEF Used
    <3>4. CASE itemOf' = itemOf /\ Used' = Used
      BY <3>1, <3>2, <3>3, <3>4
    <3>5. ASSUME NEW i \in Item, NEW k \in Token, RowClaimed(i, k)
          PROVE  phase'[t] = "unused" <=> itemOf'[t] = NoItem
      BY <3>1, <3>2, <3>3, <3>5, WorkerLoopAssumption DEF RowClaimed, TypeOK
    <3> QED
      BY <2>1, <3>4, <3>5
      DEF RowStep, RowsRest, RowEnqueued, RowFinished, RowCharged, RowRefunded,
          RowsCancelled
  <2> QED
    <3>1. ReferencesOK'
      BY <2>2, <2>3, <2>4, <2>5, WorkerLoopAssumption
      DEF ReferencesOK, LeaseRefs, LoopTypes, PassTypes, Used, Candidate
    <3> QED
      BY <2>2, <2>3, <2>4, <3>1 DEF TypeOK, LoopTypes, PassTypes
<1> QED
  BY <1>1, <1>2, PTL DEF Spec

(***************************************************************************)
(* Attempts are counted exactly: attempt_count is the failures charged     *)
(* plus the claim in progress, whatever defers, reclaims or withdraws it,  *)
(* and the failures stay below max_attempts (claim, defer and requeue in   *)
(* work-items.ts, handleEffectFailure in worker-loop.ts).                  *)
(***************************************************************************)
THEOREM AttemptsAreAccounted == Spec => []AttemptAccounting
<1>1. Init => AttemptAccounting
  BY WorkItemsAssumption DEF Init, RowsInit, AttemptAccounting
<1>2. TypeOK /\ AttemptAccounting /\ [Next]_vars => AttemptAccounting'
  <2> SUFFICES ASSUME TypeOK, AttemptAccounting, RowStep
               PROVE  AttemptAccounting'
    BY NextIsRowStep
  <2> USE WorkItemsAssumption DEF TypeOK, RowsTypeOK, AttemptAccounting, claimHistory
  <2>1. CASE RowsRest
    BY <2>1 DEF RowsRest
  <2>2. ASSUME NEW j \in Item, RowEnqueued(j)
        PROVE  AttemptAccounting'
    BY <2>2 DEF RowEnqueued, EnqueueWorkItem, Insert, InsertAllowed
  <2>3. ASSUME NEW i \in Item, NEW t \in Token, RowClaimed(i, t)
        PROVE  AttemptAccounting'
    BY <2>3 DEF RowClaimed, ClaimWorkItem, Claimable
  <2>4. ASSUME NEW i \in Item, NEW t \in Token, RowFinished(i, t)
        PROVE  AttemptAccounting'
    <3>1. PICK o \in {"done", "dead"}, next \in NextEffects(i) : FinishWorkItem(i, t, o, next)
      BY <2>4 DEF RowFinished
    <3>2. \A j \in next : status[j] = "absent"
      BY <3>1 DEF FinishWorkItem, InsertAllowed
    <3> QED
      BY <2>4, <3>1, <3>2 DEF RowFinished, FinishWorkItem, Holds
  <2>5. ASSUME NEW i \in Item, NEW t \in Token, RowCharged(i, t)
        PROVE  AttemptAccounting'
    BY <2>5 DEF RowCharged, RequeueCharged, Holds, AttemptCapReached
  <2>6. ASSUME NEW i \in Item, NEW t \in Token, RowRefunded(i, t)
        PROVE  AttemptAccounting'
    BY <2>6 DEF RowRefunded, RequeueRefunded, Refunded, Holds
  <2>7. ASSUME NEW n \in Instance, RowsCancelled(n)
        PROVE  AttemptAccounting'
    BY <2>7 DEF RowsCancelled, CancelWorkItems
  <2> QED
    BY <2>1, <2>2, <2>3, <2>4, <2>5, <2>6, <2>7 DEF RowStep
<1> QED
  BY <1>1, <1>2, TypeCorrect, PTL DEF Spec

(***************************************************************************)
(* A helper for the refinement and for the invariant of an attempt: an     *)
(* instance never has two active work items.  It rests on the guard of     *)
(* idx_work_items_one_active alone, since no update makes a finished row   *)
(* active again.                                                           *)
(***************************************************************************)
OneActiveItem ==
  \A i, j \in Item :
    InstanceOf[i] = InstanceOf[j] /\ status[i] \in Active /\ status[j] \in Active => i = j

LEMMA OneActiveItemHolds == Spec => []OneActiveItem
<1>1. Init => OneActiveItem
  BY DEF Init, RowsInit, OneActiveItem, Active
<1>2. TypeOK /\ OneActiveItem /\ [Next]_vars => OneActiveItem'
  <2> SUFFICES ASSUME TypeOK, OneActiveItem, RowStep
               PROVE  OneActiveItem'
    BY NextIsRowStep
  <2> USE DEF TypeOK, RowsTypeOK, OneActiveItem, Active
  <2>1. CASE RowsRest
    BY <2>1 DEF RowsRest
  <2>2. ASSUME NEW j \in Item, RowEnqueued(j)
        PROVE  OneActiveItem'
    BY <2>2 DEF RowEnqueued, EnqueueWorkItem, Insert, InsertAllowed, ItemsOf
  <2>3. ASSUME NEW i \in Item, NEW t \in Token, RowClaimed(i, t)
        PROVE  OneActiveItem'
    BY <2>3 DEF RowClaimed, ClaimWorkItem, Claimable
  <2>4. ASSUME NEW i \in Item, NEW t \in Token, RowFinished(i, t)
        PROVE  OneActiveItem'
    <3>1. PICK o \in {"done", "dead"}, next \in NextEffects(i) : FinishWorkItem(i, t, o, next)
      BY <2>4 DEF RowFinished
    <3>2. CASE next = {}
      BY <3>1, <3>2 DEF FinishWorkItem
    <3>3. ASSUME NEW j \in Item, j # i, InstanceOf[j] = InstanceOf[i], next = {j}
          PROVE  OneActiveItem'
      <4>1. \A k \in Item : InstanceOf[k] = InstanceOf[i] /\ k # i => status[k] \notin Active
        BY <3>1, <3>3 DEF FinishWorkItem, InsertAllowed, ItemsOf
      <4>2. \A k \in Item : status'[k] \in Active => k = j \/ (k # i /\ status[k] \in Active)
        BY <3>1, <3>3 DEF FinishWorkItem
      <4> QED
        BY <3>3, <4>1, <4>2
    <3> QED
      BY <3>2, <3>3 DEF NextEffects, ItemsOf
  <2>5. ASSUME NEW i \in Item, NEW t \in Token, RowCharged(i, t) \/ RowRefunded(i, t)
        PROVE  OneActiveItem'
    BY <2>5 DEF RowCharged, RowRefunded, RequeueCharged, RequeueRefunded, Holds
  <2>6. ASSUME NEW n \in Instance, RowsCancelled(n)
        PROVE  OneActiveItem'
    BY <2>6 DEF RowsCancelled, CancelWorkItems
  <2> QED
    BY <2>1, <2>2, <2>3, <2>4, <2>5, <2>6 DEF RowStep
<1> QED
  BY <1>1, <1>2, TypeCorrect, PTL DEF Spec

(***************************************************************************)
(* A work item is settled by the latest attempt that claimed it, or by     *)
(* recovery on its behalf, and by no other.  The inductive part: the token *)
(* a leased row holds is that of its latest claim.                         *)
(***************************************************************************)
HolderIsLatest ==
  \A i \in Item : status[i] = "leased" => leaseToken[i] = lastGrant[i]

THEOREM SettledByLatestClaimHolds == Spec => []SettledByLatestClaim
<1> DEFINE IInv == SettledByLatestClaim /\ HolderIsLatest
<1> USE DEF SettledByLatestClaim, HolderIsLatest
<1>1. Init => IInv
  BY DEF Init, RowsInit
<1>2. TypeOK /\ IInv /\ [Next]_vars => IInv'
  <2> SUFFICES ASSUME TypeOK, IInv, RowStep
               PROVE  IInv'
    BY NextIsRowStep
  <2> USE WorkItemsAssumption DEF TypeOK, RowsTypeOK, claimHistory
  <2>1. CASE RowsRest
    BY <2>1 DEF RowsRest
  <2>2. ASSUME NEW j \in Item, RowEnqueued(j)
        PROVE  IInv'
    BY <2>2 DEF RowEnqueued, EnqueueWorkItem, Insert, InsertAllowed
  <2>3. ASSUME NEW i \in Item, NEW t \in Token, RowClaimed(i, t)
        PROVE  IInv'
    BY <2>3 DEF RowClaimed, ClaimWorkItem, Claimable
  <2>4. ASSUME NEW i \in Item, NEW t \in Token, RowFinished(i, t)
        PROVE  IInv'
    <3>1. PICK o \in {"done", "dead"}, next \in NextEffects(i) : FinishWorkItem(i, t, o, next)
      BY <2>4 DEF RowFinished
    <3>2. \A j \in next : j # i /\ status[j] = "absent"
      BY <3>1 DEF FinishWorkItem, InsertAllowed, NextEffects
    <3>3. lastGrant[i] = t /\ t # NoToken
      BY <3>1 DEF FinishWorkItem, Holds
    <3> QED
      BY <2>4, <3>1, <3>2, <3>3 DEF RowFinished, FinishWorkItem, Settle
  <2>5. ASSUME NEW i \in Item, NEW t \in Token, RowCharged(i, t) \/ RowRefunded(i, t)
        PROVE  IInv'
    BY <2>5 DEF RowCharged, RowRefunded, RequeueCharged, RequeueRefunded, Holds
  <2>6. ASSUME NEW n \in Instance, RowsCancelled(n)
        PROVE  IInv'
    BY <2>6 DEF RowsCancelled, CancelWorkItems, Cancellable, Active
  <2> QED
    BY <2>1, <2>2, <2>3, <2>4, <2>5, <2>6 DEF RowStep
<1> QED
  BY <1>1, <1>2, TypeCorrect, PTL DEF Spec

(***************************************************************************)
(* A session row is created once, by the claim it belongs to, and from     *)
(* then on changes only while it says "running".                           *)
(***************************************************************************)
NoEarlySession ==
  \A t \in Token : phase[t] \in {"unused", "claimed"} => session[t] = "none"

SessionStep ==
  \A t \in Token :
    /\ \/ session'[t] = session[t]
       \/ session[t] = "running"
       \/ phase[t] = "claimed" /\ phase'[t] = "setup"
    /\ phase'[t] \in {"unused", "claimed"} => phase[t] \in {"unused", "claimed"}

LEMMA NextIsSessionStep ==
  ASSUME TypeOK, [Next]_vars
  PROVE  SessionStep
<1> USE DEF TypeOK, SessionStep, Advance, CompleteSession, FailOrphanSession,
            loopVars
<1>1. ASSUME NEW j \in Item, Enqueue(j) \/ LeaseLapses(j) \/ GateOpens(j)
      PROVE  SessionStep
  BY <1>1 DEF Enqueue, LeaseLapses, GateOpens
<1>2. ASSUME NEW i \in Item, NEW t \in Token, Claim(i, t)
      PROVE  SessionStep
  BY <1>2 DEF Claim
<1>3. ASSUME NEW t \in Token, AttemptStep(t)
      PROVE  SessionStep
  <2>1. CASE Setup(t)
    BY <2>1 DEF Setup, BeginSession, SetupFails, DeferForCap, EscalateCap
  <2>2. CASE HealthSettles(t)
    BY <2>2 DEF HealthSettles, HealthOk, HealthFails
  <2>3. CASE PreSpawnCheck(t) \/ Spawn(t) \/ CliExits(t) \/ Heartbeat(t)
             \/ LoseHeartbeat(t) \/ TimeoutSettles(t) \/ HoldCeilingPasses(t)
    BY <2>3 DEF PreSpawnCheck, Spawn, CliExits, Heartbeat, LoseHeartbeat,
                TimeoutSettles, HoldCeilingPasses
  <2>4. CASE HandlerEnds(t)
    BY <2>4 DEF HandlerEnds, Answer, HandlerThrows
  <2>5. CASE Complete(t) \/ Wrap(t)
    BY <2>5 DEF Complete, CompleteRouted, CompleteDeferred, CompleteLost, RoutingThrows, Wrap
  <2> QED
    BY <1>3, <2>1, <2>2, <2>3, <2>4, <2>5 DEF AttemptStep
<1>4. ASSUME NEW n \in Instance, Abort(n)
      PROVE  SessionStep
  BY <1>4 DEF Abort
<1>5. CASE RecoverScan
  BY <1>5 DEF RecoverScan
<1>6. ASSUME NEW r \in suspects, Judge(r)
      PROVE  SessionStep
  BY <1>6 DEF Judge, RecoverHolds, RecoverSpares, RecoverCondemns
<1>7. ASSUME NEW r \in condemned, Reclaim(r)
      PROVE  SessionStep
  BY <1>7 DEF Reclaim, ReclaimLost, ReclaimDeferred, ReclaimRequeued, ReclaimDead,
              ReclaimThrows
<1>8. CASE Crash
  BY <1>8 DEF Crash, Running, InProcess
<1>9. CASE HostSleep \/ GraceEnds \/ UNCHANGED vars
  BY <1>9 DEF HostSleep, GraceEnds, vars
<1> QED
  BY <1>1, <1>2, <1>3, <1>4, <1>5, <1>6, <1>7, <1>8, <1>9 DEF Next, RecoveryStep

LEMMA RowStepIsFinal ==
  ASSUME TypeOK, RowStep, NEW i \in Item, status[i] \in Terminal
  PROVE  status'[i] = status[i]
<1> USE DEF TypeOK, RowsTypeOK, Terminal
<1>1. ASSUME NEW k \in Item, NEW t \in Token, RowFinished(k, t)
      PROVE  status'[i] = status[i]
  <2>1. PICK o \in {"done", "dead"}, next \in NextEffects(k) : FinishWorkItem(k, t, o, next)
    BY <1>1 DEF RowFinished
  <2> QED
    BY <2>1 DEF FinishWorkItem, Holds, InsertAllowed
<1>2. ASSUME NEW k \in Item, NEW t \in Token,
             RowClaimed(k, t) \/ RowCharged(k, t) \/ RowRefunded(k, t)
      PROVE  status'[i] = status[i]
  BY <1>2 DEF RowClaimed, ClaimWorkItem, Claimable, RowCharged, RequeueCharged,
              RowRefunded, RequeueRefunded, Holds
<1>3. ASSUME NEW j \in Item, RowEnqueued(j)
      PROVE  status'[i] = status[i]
  BY <1>3 DEF RowEnqueued, EnqueueWorkItem, Insert, InsertAllowed
<1>4. ASSUME NEW n \in Instance, RowsCancelled(n)
      PROVE  status'[i] = status[i]
  BY <1>4 DEF RowsCancelled, CancelWorkItems, Cancellable, Active
<1> QED
  BY <1>1, <1>2, <1>3, <1>4 DEF RowStep, RowsRest

(***************************************************************************)
(* Rows that are done, dead or cancelled stay so, and so do the sessions   *)
(* that ended, whichever late writer comes by (the WHERE clauses of        *)
(* work-items.ts, completeSession in worker-sessions.ts).                  *)
(***************************************************************************)
THEOREM TerminalIsFinalHolds == Spec => TerminalIsFinal
<1>1. Init => NoEarlySession
  BY DEF Init, NoEarlySession
<1>2. TypeOK /\ NoEarlySession /\ [Next]_vars => NoEarlySession'
  BY NextIsSessionStep DEF NoEarlySession, SessionStep
<1>3. TypeOK /\ NoEarlySession /\ [Next]_vars
        => \/ /\ \A i \in Item : status[i] \in Terminal => status'[i] = status[i]
              /\ \A t \in Token : session[t] \in {"done", "failed", "cancelled"}
                                    => session'[t] = session[t]
           \/ UNCHANGED vars
  BY NextIsRowStep, RowStepIsFinal, NextIsSessionStep DEF NoEarlySession, SessionStep
<1> QED
  BY <1>1, <1>2, <1>3, TypeCorrect, PTL DEF Spec, TerminalIsFinal

(***************************************************************************)
(* The rows implement the abstract outbox, through crashes, sleeps, aborts *)
(* and recovery: every step is a creation, grant, withdrawal or settlement *)
(* of Outbox, or leaves what it sees unchanged.                            *)
(***************************************************************************)
THEOREM OutboxIsImplemented == Spec => ImplementsOutbox
<1> USE DEF Fate, Active
<1>1. Init => Promise!Init
  BY DEF Init, RowsInit, Promise!Init
<1>2. TypeOK /\ [Next]_vars => [Promise!Next]_Promise!outbox
  <2> SUFFICES ASSUME TypeOK, RowStep
               PROVE  [Promise!Next]_Promise!outbox
    BY NextIsRowStep
  <2> USE WorkItemsAssumption
      DEF TypeOK, RowsTypeOK, ReferencesOK, Status, TokenOrNone, claimHistory, Used
  <2>1. CASE RowsRest
    BY <2>1 DEF RowsRest, Promise!outbox
  <2>2. ASSUME NEW j \in Item, RowEnqueued(j)
        PROVE  Promise!Create(j)
    <3>1. status[j] = "absent"
      BY <2>2 DEF RowEnqueued, EnqueueWorkItem, InsertAllowed
    <3>2. Promise!NothingOpenBut({}, j)
      BY <2>2 DEF RowEnqueued, EnqueueWorkItem, InsertAllowed, ItemsOf,
                  Promise!NothingOpenBut, Promise!SameInstance
    <3>3. status' = [status EXCEPT ![j] = "pending"]
      BY <2>2 DEF RowEnqueued, EnqueueWorkItem, Insert
    <3>4. [i \in Item |-> Fate(i)]' = [[i \in Item |-> Fate(i)] EXCEPT ![j] = "open"]
      BY <3>1, <3>3
    <3>5. UNCHANGED <<leaseToken, Used>>
      BY <2>2 DEF RowEnqueued, EnqueueWorkItem, Insert
    <3> QED
      BY <3>1, <3>2, <3>4, <3>5 DEF Promise!Create
  <2>3. ASSUME NEW i \in Item, NEW t \in Token, RowClaimed(i, t)
        PROVE  Promise!Grant(i, t)
    BY <2>3 DEF RowClaimed, ClaimWorkItem, Claimable, Promise!Grant
  <2>4. ASSUME NEW i \in Item, NEW t \in Token, RowFinished(i, t)
        PROVE  Promise!Finish(i)
    <3>1. PICK o \in {"done", "dead"}, next \in NextEffects(i) : FinishWorkItem(i, t, o, next)
      BY <2>4 DEF RowFinished
    <3>2. status[i] = "leased" /\ leaseToken[i] # NoToken
      BY <3>1 DEF FinishWorkItem, Holds
    <3>3. CASE next = {}
      BY <2>4, <3>1, <3>2, <3>3 DEF RowFinished, FinishWorkItem, Promise!Finish
    <3>4. ASSUME NEW j \in Item, j # i, InstanceOf[j] = InstanceOf[i], next = {j}
          PROVE  Promise!Finish(i)
      BY <2>4, <3>1, <3>2, <3>4
      DEF RowFinished, FinishWorkItem, InsertAllowed, ItemsOf,
          Promise!Finish, Promise!NothingOpenBut, Promise!SameInstance
    <3> QED
      BY <3>3, <3>4 DEF NextEffects, ItemsOf
  <2>5. ASSUME NEW i \in Item, NEW t \in Token, RowCharged(i, t) \/ RowRefunded(i, t)
        PROVE  Promise!TakeBack(i)
    BY <2>5 DEF RowCharged, RowRefunded, RequeueCharged, RequeueRefunded, Holds,
                Promise!TakeBack
  <2>6. ASSUME NEW n \in Instance, RowsCancelled(n)
        PROVE  Promise!Withdraw(n)
    BY <2>6 DEF RowsCancelled, CancelWorkItems, Cancellable, ItemsOf, Promise!Withdraw
  <2> QED
    BY <2>1, <2>2, <2>3, <2>4, <2>5, <2>6 DEF RowStep, Promise!Next
<1> QED
  BY <1>1, <1>2, TypeCorrect, PTL DEF Spec, ImplementsOutbox, Promise!Spec
(***************************************************************************)
(* Where the attempts of an issue stand.  "held" are the claims whose row  *)
(* still carries their token; a live agent is one that runs and that the   *)
(* code has not given up on, or one about to be spawned.                   *)
(***************************************************************************)
held == {t \in Used : Holds(itemOf[t], t)}
Live(t) == phase[t] = "spawning" \/ (cli[t] = "alive" /\ t \notin stray)

\* A claim starts out with its lease; only an abort takes it from an attempt
\* that this process keeps alive, and only a sleep of the host lets it lapse.
LeaseIsKept ==
  \A t \in Token :
    /\ phase[t] = "claimed" => t \in held /\ itemOf[t] \notin expired
    /\ phase[t] \in KeptAlive =>
         \/ t \in held /\ (itemOf[t] \in expired => t \in shield)
         \/ t \notin held /\ InstanceOfToken(t) \in closed

\* A session belongs to an attempt that began; while the attempt holds its
\* lease the row is bound to it.
SessionIsBound ==
  \A t \in Token :
    /\ phase[t] \in {"unused", "claimed"} => session[t] = "none" /\ cli[t] = "none"
    /\ phase[t] \in InProcess \ {"claimed"} \/ cli[t] # "none" => session[t] # "none"
    /\ session[t] = "running" =>
         \/ phase[t] \in {"settled", "torn"}
         \/ t \in held /\ phase[t] \in InProcess \cup {"orphaned"}
    /\ session[t] # "none" /\ t \in held => bound[itemOf[t]] = t

\* An agent is live only in an attempt that runs or was cut off, and while the
\* issue is open only under the lease: so there is one.
AgentsAreLeased ==
  /\ \A t \in Token :
       /\ phase[t] \in {"setup", "spawning"} => cli[t] = "none"
       /\ Live(t) => /\ phase[t] \in {"running", "spawning", "stopping", "orphaned"}
                     /\ t \in held \/ InstanceOfToken(t) \in closed
  /\ \A t, k \in Used : Live(t) /\ Live(k) /\ InstanceOfToken(t) = InstanceOfToken(k) => t = k

ClosedIsEmpty == \A i \in Item : InstanceOf[i] \in closed => status[i] \notin Active

\* The recovery pass: what it may reclaim is not kept alive here, and no live
\* agent is left under the lease.
PassIsSound ==
  /\ \A r \in suspects \cup condemned :
       /\ phase[r.token] \notin {"unused", "claimed"}
       /\ r.token \in held => r.session = bound[itemOf[r.token]]
  /\ \A r \in suspects : phase[r.token] \in KeptAlive => r.shielded
  /\ \A r \in condemned : /\ phase[r.token] \notin KeptAlive
                          /\ r.token \in held => ~Live(r.token)

AttemptInv == /\ LeaseIsKept /\ SessionIsBound /\ AgentsAreLeased
              /\ ClosedIsEmpty /\ PassIsSound

(***************************************************************************)
(* How the updates of rows change the set of held claims.                  *)
(***************************************************************************)
LEMMA HeldSame ==
  ASSUME UNCHANGED <<status, leaseToken, itemOf, Used>>
  PROVE  held' = held
BY DEF held, Holds

LEMMA HeldDropped ==
  ASSUME TypeOK, NEW t \in Used, t \in held, UNCHANGED <<itemOf, Used>>,
         status'[itemOf[t]] # "leased",
         \A k \in Item \ {itemOf[t]} :
           leaseToken'[k] = leaseToken[k] /\ (status'[k] = "leased" <=> status[k] = "leased")
  PROVE  held' = held \ {t}
<1>1. \A k \in Used : itemOf[k] \in Item
  BY ClaimHasItem DEF Used
<1>2. \A k \in Used : itemOf[k] = itemOf[t] /\ k # t => k \notin held
  BY DEF held, Holds
<1> QED
  BY <1>1, <1>2 DEF held, Holds

(***************************************************************************)
(* The steps of an attempt keep the invariant, action by action: setup and *)
(* health, the handler and its agent, the completion.                      *)
(***************************************************************************)
LEMMA SetupKeeps ==
  ASSUME TypeOK, AttemptInv, NEW t \in Token, Setup(t) \/ HealthSettles(t)
  PROVE  AttemptInv'
<1>0. t \in Used /\ itemOf[t] \in Item /\ Used' = Used /\ LoopTypes /\ PassTypes
  BY ClaimHasItem, AdvanceKeepsUsed, TypeOKPassTypes
  DEF Setup, BeginSession, SetupFails, DeferForCap, EscalateCap,
      HealthSettles, HealthOk, HealthFails, TypeOK, LoopTypes
<1> USE DEF AttemptInv, LoopTypes, PassTypes, Advance, InProcess, KeptAlive,
            passVars, loopVars, historyVars, rowVars
<1>1. CASE BeginSession(t)
  <2>1. held' = held
    BY <1>0, <1>1, HeldSame DEF BeginSession
  <2>2. LeaseIsKept'
    BY <1>0, <1>1, <2>1 DEF BeginSession, LeaseIsKept, InstanceOfToken
  <2>3. SessionIsBound'
    BY <1>0, <1>1, <2>1 DEF BeginSession, LeaseIsKept, SessionIsBound, held, Holds
  <2>4. AgentsAreLeased'
    BY <1>0, <1>1, <2>1
    DEF BeginSession, AgentsAreLeased, LeaseIsKept, SessionIsBound, ClosedIsEmpty,
        Live, InstanceOfToken
  <2>5. ClosedIsEmpty'
    BY <1>0, <1>1, <2>1 DEF BeginSession, ClosedIsEmpty
  <2>6. PassIsSound'
    BY <1>0, <1>1, <2>1
    DEF BeginSession, PassIsSound, LeaseIsKept, SessionIsBound, AgentsAreLeased, Live,
        held, Holds
  <2> QED
    BY <2>2, <2>3, <2>4, <2>5, <2>6
<1>2. CASE SetupFails(t)
  <2>1. held' = held
    BY <1>0, <1>2, HeldSame DEF SetupFails
  <2> QED
    BY <1>0, <1>2, <2>1
    DEF SetupFails, LeaseIsKept, SessionIsBound, AgentsAreLeased, ClosedIsEmpty,
        PassIsSound, Live, InstanceOfToken
<1>3. CASE DeferForCap(t)
  <2>1. held' = held \ {t}
    BY <1>0, <1>3, HeldDropped
    DEF DeferForCap, RequeueRefunded, held, TypeOK, RowsTypeOK
  <2>2. LeaseIsKept'
    BY <1>0, <1>3, <2>1 DEF DeferForCap, RequeueRefunded, LeaseIsKept, InstanceOfToken
  <2>3. SessionIsBound'
    BY <1>0, <1>3, <2>1 DEF DeferForCap, RequeueRefunded, LeaseIsKept, SessionIsBound
  <2>4. AgentsAreLeased'
    BY <1>0, <1>3, <2>1
    DEF DeferForCap, RequeueRefunded, AgentsAreLeased, LeaseIsKept, SessionIsBound,
        ClosedIsEmpty, Live, InstanceOfToken
  <2>5. ClosedIsEmpty'
    BY <1>0, <1>3, <2>1
    DEF DeferForCap, RequeueRefunded, ClosedIsEmpty, held, Holds, TypeOK, RowsTypeOK,
        Active
  <2>6. PassIsSound'
    BY <1>0, <1>3, <2>1
    DEF DeferForCap, RequeueRefunded, PassIsSound, LeaseIsKept, SessionIsBound,
        AgentsAreLeased, Live
  <2> QED
    BY <2>2, <2>3, <2>4, <2>5, <2>6
<1>4. CASE EscalateCap(t)
  <2>1. held' = held \ {t}
    BY <1>0, <1>4, HeldDropped DEF EscalateCap, FinishWorkItem, held, TypeOK, RowsTypeOK
  <2>2. LeaseIsKept'
    BY <1>0, <1>4, <2>1 DEF EscalateCap, FinishWorkItem, LeaseIsKept, InstanceOfToken
  <2>3. SessionIsBound'
    BY <1>0, <1>4, <2>1 DEF EscalateCap, FinishWorkItem, LeaseIsKept, SessionIsBound
  <2>4. AgentsAreLeased'
    BY <1>0, <1>4, <2>1
    DEF EscalateCap, FinishWorkItem, AgentsAreLeased, LeaseIsKept, SessionIsBound,
        ClosedIsEmpty, Live, InstanceOfToken
  <2>5. ClosedIsEmpty'
    BY <1>0, <1>4, <2>1
    DEF EscalateCap, FinishWorkItem, ClosedIsEmpty, held, Holds, TypeOK, RowsTypeOK,
        Active
  <2>6. PassIsSound'
    BY <1>0, <1>4, <2>1
    DEF EscalateCap, FinishWorkItem, PassIsSound, LeaseIsKept, SessionIsBound,
        AgentsAreLeased, Live
  <2> QED
    BY <2>2, <2>3, <2>4, <2>5, <2>6
<1>5. CASE HealthOk(t)
  <2>1. held' = held
    BY <1>0, <1>5, HeldSame DEF HealthOk
  <2> QED
    BY <1>0, <1>5, <2>1
    DEF HealthOk, LeaseIsKept, SessionIsBound, AgentsAreLeased, ClosedIsEmpty,
        PassIsSound, Live, InstanceOfToken
<1>6. CASE HealthFails(t)
  <2>1. CASE Holds(itemOf[t], t)
    <3>1. held' = held \ {t}
      BY <1>0, <1>6, <2>1, HeldDropped
      DEF HealthFails, RequeueRefunded, held, TypeOK, RowsTypeOK
    <3>2. LeaseIsKept'
      BY <1>0, <1>6, <2>1, <3>1
      DEF HealthFails, RequeueRefunded, CompleteSession, LeaseIsKept, InstanceOfToken
    <3>3. SessionIsBound'
      BY <1>0, <1>6, <2>1, <3>1
      DEF HealthFails, RequeueRefunded, CompleteSession, LeaseIsKept, SessionIsBound
    <3>4. AgentsAreLeased'
      BY <1>0, <1>6, <2>1, <3>1
      DEF HealthFails, RequeueRefunded, CompleteSession, AgentsAreLeased, LeaseIsKept,
          SessionIsBound, ClosedIsEmpty, Live, InstanceOfToken
    <3>5. ClosedIsEmpty'
      BY <1>0, <1>6, <2>1, <3>1
      DEF HealthFails, RequeueRefunded, CompleteSession, ClosedIsEmpty, held, Holds,
          TypeOK, RowsTypeOK, Active
    <3>6. PassIsSound'
      BY <1>0, <1>6, <2>1, <3>1
      DEF HealthFails, RequeueRefunded, CompleteSession, PassIsSound, LeaseIsKept,
          SessionIsBound, AgentsAreLeased, Live
    <3> QED
      BY <3>2, <3>3, <3>4, <3>5, <3>6
  <2>2. CASE ~Holds(itemOf[t], t)
    <3>1. held' = held
      BY <1>0, <1>6, <2>2, HeldSame DEF HealthFails
    <3>2. LeaseIsKept'
      BY <1>0, <1>6, <2>2, <3>1
      DEF HealthFails, CompleteSession, LeaseIsKept, InstanceOfToken
    <3>3. SessionIsBound'
      BY <1>0, <1>6, <2>2, <3>1
      DEF HealthFails, CompleteSession, LeaseIsKept, SessionIsBound
    <3>4. AgentsAreLeased'
      BY <1>0, <1>6, <2>2, <3>1
      DEF HealthFails, CompleteSession, AgentsAreLeased, LeaseIsKept, SessionIsBound,
          ClosedIsEmpty, Live, InstanceOfToken
    <3>5. ClosedIsEmpty'
      BY <1>0, <1>6, <2>2, <3>1 DEF HealthFails, CompleteSession, ClosedIsEmpty
    <3>6. PassIsSound'
      BY <1>0, <1>6, <2>2, <3>1
      DEF HealthFails, CompleteSession, PassIsSound, LeaseIsKept, SessionIsBound,
          AgentsAreLeased, Live
    <3> QED
      BY <3>2, <3>3, <3>4, <3>5, <3>6
  <2> QED
    BY <2>1, <2>2
<1> QED
  BY <1>1, <1>2, <1>3, <1>4, <1>5, <1>6 DEF Setup, HealthSettles


LEMMA HandlerKeeps ==
  ASSUME TypeOK, AttemptInv, OneActiveItem, NEW t \in Token,
         \/ PreSpawnCheck(t) \/ Spawn(t) \/ CliExits(t) \/ Heartbeat(t)
         \/ LoseHeartbeat(t) \/ HandlerEnds(t) \/ TimeoutSettles(t)
         \/ HoldCeilingPasses(t)
  PROVE  AttemptInv'
<1>0. LoopTypes /\ PassTypes
  BY TypeOKPassTypes DEF TypeOK, LoopTypes
<1>a. t \in Used /\ itemOf[t] \in Item
  BY ClaimHasItem DEF PreSpawnCheck, Spawn, CliExits, Heartbeat, LoseHeartbeat,
     HandlerEnds, Answer, HandlerThrows, TimeoutSettles, HoldCeilingPasses,
     AttemptInv, SessionIsBound
<1>b. ~HoldCeilingPasses(t) /\ ~Heartbeat(t) /\ ~CliExits(t) => Used' = Used
  BY AdvanceKeepsUsed DEF PreSpawnCheck, Spawn, LoseHeartbeat,
     HandlerEnds, Answer, HandlerThrows, TimeoutSettles
<1>c. HoldCeilingPasses(t) \/ Heartbeat(t) \/ CliExits(t) => Used' = Used
  BY DEF Used, HoldCeilingPasses, Heartbeat, CliExits, loopVars
<1>d. Used' = Used
  BY <1>b, <1>c
<1> USE DEF AttemptInv, LoopTypes, PassTypes, Advance, InProcess, KeptAlive,
            passVars, loopVars, historyVars, rowVars
<1>1. CASE PreSpawnCheck(t)
  <2>1. held' = held
    BY <1>0, <1>a, <1>d, <1>1, HeldSame DEF PreSpawnCheck
  <2>2. LeaseIsKept'
    BY <1>0, <1>a, <1>d, <1>1, <2>1 DEF PreSpawnCheck, LeaseIsKept, InstanceOfToken
  <2>3. SessionIsBound'
    BY <1>0, <1>a, <1>d, <1>1, <2>1 DEF PreSpawnCheck, LeaseIsKept, SessionIsBound
  <2>4. AgentsAreLeased'
    <3>1. t \in held /\ InstanceOfToken(t) \notin closed
      BY <1>0, <1>a, <1>1
      DEF PreSpawnCheck, LeaseIsKept, ClosedIsEmpty, InstanceOfToken, Active
    <3>2. ASSUME NEW k \in Used, Live(k), InstanceOfToken(k) = InstanceOfToken(t)
          PROVE  k = t
      <4>1. k \in held
        BY <3>1, <3>2 DEF AgentsAreLeased, Used
      <4>2. itemOf[k] = itemOf[t]
        BY <3>1, <3>2, <4>1, ClaimHasItem
        DEF OneActiveItem, held, Holds, Active, InstanceOfToken, Used
      <4> QED
        BY <3>1, <4>1, <4>2 DEF held, Holds
    <3> QED
      BY <1>0, <1>a, <1>d, <1>1, <2>1, <3>1, <3>2
      DEF PreSpawnCheck, AgentsAreLeased, SessionIsBound, Live, InstanceOfToken
  <2>5. ClosedIsEmpty'
    BY <1>0, <1>a, <1>d, <1>1, <2>1 DEF PreSpawnCheck, ClosedIsEmpty
  <2>6. PassIsSound'
    BY <1>0, <1>a, <1>d, <1>1, <2>1
    DEF PreSpawnCheck, PassIsSound, LeaseIsKept, SessionIsBound, AgentsAreLeased, Live
  <2> QED
    BY <2>2, <2>3, <2>4, <2>5, <2>6
<1>2. CASE Spawn(t)
  <2>1. held' = held
    BY <1>0, <1>a, <1>d, <1>2, HeldSame DEF Spawn
  <2> QED
    BY <1>0, <1>a, <1>d, <1>2, <2>1
    DEF Spawn, LeaseIsKept, SessionIsBound, AgentsAreLeased, ClosedIsEmpty,
        PassIsSound, Live, InstanceOfToken
<1>3. CASE CliExits(t)
  <2>1. held' = held
    BY <1>0, <1>a, <1>d, <1>3, HeldSame DEF CliExits
  <2> QED
    BY <1>0, <1>a, <1>d, <1>3, <2>1
    DEF CliExits, LeaseIsKept, SessionIsBound, AgentsAreLeased, ClosedIsEmpty,
        PassIsSound, Live, InstanceOfToken
<1>4. CASE Heartbeat(t)
  <2>1. held' = held
    BY <1>0, <1>a, <1>d, <1>4, HeldSame DEF Heartbeat, RefreshHeartbeat
  <2>2. LeaseIsKept'
    BY <1>0, <1>a, <1>d, <1>4, <2>1
    DEF Heartbeat, RefreshHeartbeat, LeaseIsKept, InstanceOfToken
  <2>3. SessionIsBound'
    BY <1>0, <1>a, <1>d, <1>4, <2>1
    DEF Heartbeat, RefreshHeartbeat, LeaseIsKept, SessionIsBound
  <2>4. AgentsAreLeased'
    BY <1>0, <1>a, <1>d, <1>4, <2>1
    DEF Heartbeat, RefreshHeartbeat, AgentsAreLeased, LeaseIsKept, SessionIsBound,
        ClosedIsEmpty, Live, InstanceOfToken
  <2>5. ClosedIsEmpty'
    BY <1>0, <1>a, <1>d, <1>4, <2>1 DEF Heartbeat, RefreshHeartbeat, ClosedIsEmpty
  <2>6. PassIsSound'
    <3>1. \A x \in suspects' : \E r \in suspects :
             x.token = r.token /\ x.session = r.session /\ x.shielded = r.shielded
      BY <1>0, <1>4 DEF Heartbeat, Renewed, Candidate
    <3>2. \A x \in condemned' : \E r \in condemned :
             x.token = r.token /\ x.session = r.session
      BY <1>0, <1>4 DEF Heartbeat, Renewed, Candidate
    <3> QED
      BY <1>0, <1>4, <2>1, <3>1, <3>2 DEF Heartbeat, PassIsSound, Live, Candidate
  <2> QED
    BY <2>2, <2>3, <2>4, <2>5, <2>6
<1>5. CASE LoseHeartbeat(t)
  <2>1. held' = held
    BY <1>0, <1>a, <1>d, <1>5, HeldSame DEF LoseHeartbeat
  <2> QED
    BY <1>0, <1>a, <1>d, <1>5, <2>1
    DEF LoseHeartbeat, LeaseIsKept, SessionIsBound, AgentsAreLeased, ClosedIsEmpty,
        PassIsSound, Live, InstanceOfToken
<1>6. CASE Answer(t)
  <2>1. held' = held
    BY <1>0, <1>a, <1>d, <1>6, HeldSame DEF Answer
  <2> QED
    BY <1>0, <1>a, <1>d, <1>6, <2>1
    DEF Answer, LeaseIsKept, SessionIsBound, AgentsAreLeased, ClosedIsEmpty,
        PassIsSound, Live, InstanceOfToken
<1>7. CASE TimeoutSettles(t)
  <2>1. held' = held
    BY <1>0, <1>a, <1>d, <1>7, HeldSame DEF TimeoutSettles
  <2> QED
    BY <1>0, <1>a, <1>d, <1>7, <2>1
    DEF TimeoutSettles, LeaseIsKept, SessionIsBound, AgentsAreLeased, ClosedIsEmpty,
        PassIsSound, Live, InstanceOfToken
<1>8. CASE HoldCeilingPasses(t)
  <2>1. held' = held
    BY <1>0, <1>a, <1>d, <1>8, HeldSame DEF HoldCeilingPasses
  <2> QED
    BY <1>0, <1>a, <1>d, <1>8, <2>1
    DEF HoldCeilingPasses, LeaseIsKept, SessionIsBound, AgentsAreLeased, ClosedIsEmpty,
        PassIsSound, Live, InstanceOfToken
<1>9. CASE HandlerThrows(t)
  <2>1. held' \in {held, held \ {t}}
    <3>1. CASE UNCHANGED <<status, leaseToken>>
      BY <1>a, <1>d, <1>9, <3>1, HeldSame DEF HandlerThrows
    <3>2. CASE ~UNCHANGED <<status, leaseToken>>
      BY <1>a, <1>d, <1>9, <3>2, HeldDropped
      DEF HandlerThrows, RequeueCharged, FinishWorkItem, NextEffects, InsertAllowed,
          held, TypeOK, RowsTypeOK
    <3> QED
      BY <3>1, <3>2
  <2>2. LeaseIsKept'
    BY <1>0, <1>a, <1>d, <1>9, <2>1
    DEF HandlerThrows, RequeueCharged, FinishWorkItem, CompleteSession, LeaseIsKept,
        InstanceOfToken
  <2>3. SessionIsBound'
    BY <1>0, <1>a, <1>d, <1>9, <2>1
    DEF HandlerThrows, RequeueCharged, FinishWorkItem, CompleteSession, LeaseIsKept,
        SessionIsBound
  <2>4. AgentsAreLeased'
    BY <1>0, <1>a, <1>d, <1>9, <2>1
    DEF HandlerThrows, RequeueCharged, FinishWorkItem, CompleteSession,
        AgentsAreLeased, LeaseIsKept, SessionIsBound, ClosedIsEmpty, Live,
        InstanceOfToken
  <2>5. ClosedIsEmpty'
    BY <1>0, <1>a, <1>d, <1>9, <2>1
    DEF HandlerThrows, RequeueCharged, FinishWorkItem, CompleteSession, ClosedIsEmpty,
        held, Holds, TypeOK, RowsTypeOK, Active, NextEffects, ItemsOf
  <2>6. PassIsSound'
    BY <1>0, <1>a, <1>d, <1>9, <2>1
    DEF HandlerThrows, RequeueCharged, FinishWorkItem, CompleteSession, PassIsSound,
        LeaseIsKept, SessionIsBound, AgentsAreLeased, Live
  <2> QED
    BY <2>2, <2>3, <2>4, <2>5, <2>6
<1> QED
  BY <1>1, <1>2, <1>3, <1>4, <1>5, <1>6, <1>7, <1>8, <1>9 DEF HandlerEnds

LEMMA CompletionKeeps ==
  ASSUME TypeOK, AttemptInv, NEW t \in Token, Complete(t) \/ Wrap(t)
  PROVE  AttemptInv'
<1>0. t \in Used /\ itemOf[t] \in Item /\ Used' = Used /\ LoopTypes /\ PassTypes
  BY ClaimHasItem, AdvanceKeepsUsed, TypeOKPassTypes
  
  DEF Complete, CompleteRouted, CompleteDeferred, CompleteLost, RoutingThrows, Wrap,
      TypeOK, LoopTypes
<1> USE DEF AttemptInv, LoopTypes, PassTypes, Advance, InProcess, KeptAlive,
            passVars, loopVars, historyVars, rowVars
<1>1. CASE CompleteRouted(t)
  <2>1. held' = held \ {t}
    BY <1>0, <1>1, HeldDropped
    DEF CompleteRouted, FinishWorkItem, InsertAllowed, NextEffects, held, TypeOK,
        RowsTypeOK
  <2>2. LeaseIsKept'
    BY <1>0, <1>1, <2>1 DEF CompleteRouted, FinishWorkItem, LeaseIsKept, InstanceOfToken
  <2>3. SessionIsBound'
    BY <1>0, <1>1, <2>1 DEF CompleteRouted, FinishWorkItem, LeaseIsKept, SessionIsBound
  <2>4. AgentsAreLeased'
    BY <1>0, <1>1, <2>1
    DEF CompleteRouted, FinishWorkItem, AgentsAreLeased, LeaseIsKept, SessionIsBound,
        ClosedIsEmpty, Live, InstanceOfToken
  <2>5. ClosedIsEmpty'
    BY <1>0, <1>1, <2>1
    DEF CompleteRouted, FinishWorkItem, ClosedIsEmpty, held, Holds, TypeOK, RowsTypeOK,
        Active, NextEffects, ItemsOf
  <2>6. PassIsSound'
    BY <1>0, <1>1, <2>1
    DEF CompleteRouted, FinishWorkItem, PassIsSound, LeaseIsKept, SessionIsBound,
        AgentsAreLeased, Live
  <2> QED
    BY <2>2, <2>3, <2>4, <2>5, <2>6
<1>2. CASE CompleteDeferred(t)
  <2>1. held' = held \ {t}
    BY <1>0, <1>2, HeldDropped
    DEF CompleteDeferred, RequeueRefunded, held, TypeOK, RowsTypeOK
  <2>2. LeaseIsKept'
    BY <1>0, <1>2, <2>1
    DEF CompleteDeferred, RequeueRefunded, LeaseIsKept, InstanceOfToken
  <2>3. SessionIsBound'
    BY <1>0, <1>2, <2>1
    DEF CompleteDeferred, RequeueRefunded, LeaseIsKept, SessionIsBound
  <2>4. AgentsAreLeased'
    BY <1>0, <1>2, <2>1
    DEF CompleteDeferred, RequeueRefunded, AgentsAreLeased, LeaseIsKept,
        SessionIsBound, ClosedIsEmpty, Live, InstanceOfToken
  <2>5. ClosedIsEmpty'
    BY <1>0, <1>2, <2>1
    DEF CompleteDeferred, RequeueRefunded, ClosedIsEmpty, held, Holds, TypeOK,
        RowsTypeOK, Active, NextEffects, ItemsOf
  <2>6. PassIsSound'
    BY <1>0, <1>2, <2>1
    DEF CompleteDeferred, RequeueRefunded, PassIsSound, LeaseIsKept, SessionIsBound,
        AgentsAreLeased, Live
  <2> QED
    BY <2>2, <2>3, <2>4, <2>5, <2>6
<1>3. CASE CompleteLost(t)
  <2>1. held' = held
    BY <1>0, <1>3, HeldSame DEF CompleteLost, CompleteSession
  <2> QED
    BY <1>0, <1>3, <2>1
    DEF CompleteLost, CompleteSession, LeaseIsKept, SessionIsBound, AgentsAreLeased,
        ClosedIsEmpty, PassIsSound, Live, InstanceOfToken
<1>4. CASE RoutingThrows(t)
  <2>1. held' = held
    BY <1>0, <1>4, HeldSame DEF RoutingThrows
  <2> QED
    BY <1>0, <1>4, <2>1
    DEF RoutingThrows, LeaseIsKept, SessionIsBound, AgentsAreLeased, ClosedIsEmpty,
        PassIsSound, Live, InstanceOfToken
<1>5. CASE Wrap(t)
  <2>1. held' = held
    BY <1>0, <1>5, HeldSame DEF Wrap, CompleteSession
  <2> QED
    BY <1>0, <1>5, <2>1
    DEF Wrap, CompleteSession, LeaseIsKept, SessionIsBound, AgentsAreLeased,
        ClosedIsEmpty, PassIsSound, Live, InstanceOfToken
<1> QED
  BY <1>1, <1>2, <1>3, <1>4, <1>5 DEF Complete

LEMMA RowsSame ==
  ASSUME TypeOK, UNCHANGED <<leaseToken, itemOf, Used>>,
         \A i \in Item : status'[i] = "leased" <=> status[i] = "leased"
  PROVE  held' = held
BY ClaimHasItem DEF held, Holds, Used

(***************************************************************************)
(* The steps of the recovery pass keep it: what is condemned is neither    *)
(* kept alive by this process nor left with a live agent.                  *)
(***************************************************************************)
LEMMA JudgeKeeps ==
  ASSUME TypeOK, AttemptInv, NEW r \in suspects, Judge(r)
  PROVE  AttemptInv'
<1>0. LoopTypes /\ PassTypes
  BY TypeOKPassTypes DEF TypeOK, LoopTypes
<1>a. r \in Candidate /\ r.token \in Used /\ itemOf[r.token] \in Item
  BY <1>0, ClaimHasItem DEF PassTypes, Used
<1>b. Used' = Used
  BY DEF Used, Judge, RecoverHolds, RecoverSpares, RecoverCondemns, loopVars
<1> USE DEF AttemptInv, LoopTypes, PassTypes, Advance, InProcess, KeptAlive,
            passVars, loopVars, historyVars, rowVars
<1>1. CASE RecoverHolds(r)
  <2>1. held' = held
    BY <1>0, <1>a, <1>b, <1>1, HeldSame DEF RecoverHolds, RefreshHeartbeat
  <2>2. LeaseIsKept'
    BY <1>0, <1>a, <1>b, <1>1, <2>1
    DEF RecoverHolds, RefreshHeartbeat, LeaseIsKept, InstanceOfToken
  <2>3. SessionIsBound'
    BY <1>0, <1>a, <1>b, <1>1, <2>1
    DEF RecoverHolds, RefreshHeartbeat, LeaseIsKept, SessionIsBound
  <2>4. AgentsAreLeased'
    BY <1>0, <1>a, <1>b, <1>1, <2>1
    DEF RecoverHolds, RefreshHeartbeat, AgentsAreLeased, LeaseIsKept, SessionIsBound,
        ClosedIsEmpty, Live, InstanceOfToken
  <2>5. ClosedIsEmpty'
    BY <1>0, <1>a, <1>b, <1>1, <2>1 DEF RecoverHolds, RefreshHeartbeat, ClosedIsEmpty
  <2>6. PassIsSound'
    BY <1>0, <1>a, <1>b, <1>1, <2>1
    DEF RecoverHolds, RefreshHeartbeat, PassIsSound, LeaseIsKept, SessionIsBound,
        AgentsAreLeased, Live
  <2> QED
    BY <2>2, <2>3, <2>4, <2>5, <2>6
<1>2. CASE RecoverSpares(r)
  <2>1. held' = held
    BY <1>0, <1>a, <1>b, <1>2, HeldSame DEF RecoverSpares
  <2> QED
    BY <1>0, <1>a, <1>b, <1>2, <2>1
    DEF RecoverSpares, LeaseIsKept, SessionIsBound, AgentsAreLeased, ClosedIsEmpty,
        PassIsSound, Live, InstanceOfToken
<1>3. CASE RecoverCondemns(r)
  <2>c. PICK v \in Verdicts(r.session) : \E o \in Outcomes(v) :
           /\ cli' = Signalled(r.session, o)
           /\ stray' = (stray \ Stopped(r.session, o)) \cup Unverified(r.session, o)
    BY <1>3 DEF RecoverCondemns
  <2>0. PICK o \in Outcomes(v) :
           /\ cli' = Signalled(r.session, o)
           /\ stray' = (stray \ Stopped(r.session, o)) \cup Unverified(r.session, o)
    BY <2>c
  <2>b. /\ r.session \in Token /\ cli[r.session] = "alive"
             => cli'[r.session] # "alive" \/ r.session \in stray'
        /\ \A t \in Token :
             cli'[t] = "alive" => cli[t] = "alive" /\ (t \in stray => t \in stray')
        /\ \A t \in Token : cli[t] = "none" <=> cli'[t] = "none"
    <3>1. r.session \in Token \/ v = "dead"
      BY <1>a, <2>c DEF Verdicts, Candidate, TokenOrNone
    <3>2. CASE v = "identified" /\ o = "stopped"
      BY <1>0, <2>c, <2>0, <3>1, <3>2 DEF Verdicts, Signalled, Stopped, Unverified
    <3>3. CASE v = "dead"
      <4>1. o = "over"
        BY <2>0, <3>3 DEF Outcomes
      <4> QED
        BY WorkItemsAssumption, <1>0, <2>c, <2>0, <3>3, <4>1
        DEF Verdicts, Signalled, Stopped, Unverified
    <3>4. CASE o \in {"failed", "unverified"}
      BY <1>0, <2>0, <3>4 DEF Signalled, Stopped, Unverified
    <3> QED
      BY <2>c, <2>0, <3>2, <3>3, <3>4 DEF Verdicts, Outcomes
  <2>1. held' = held
    BY <1>0, <1>a, <1>b, <1>3, <2>b, HeldSame DEF RecoverCondemns
  <2>2. LeaseIsKept'
    BY <1>0, <1>a, <1>b, <1>3, <2>b, <2>1
    DEF RecoverCondemns, LeaseIsKept, InstanceOfToken
  <2>3. SessionIsBound'
    BY <1>0, <1>a, <1>b, <1>3, <2>b, <2>1
    DEF RecoverCondemns, LeaseIsKept, SessionIsBound
  <2>4. AgentsAreLeased'
    <3>1. \A t \in Token : Live(t)' => Live(t)
      BY <2>b, <1>3 DEF RecoverCondemns, Live
    <3>2. UNCHANGED <<phase, closed, itemOf>>
      BY <1>3 DEF RecoverCondemns
    <3>4. ASSUME NEW t \in Token
          PROVE  /\ phase'[t] \in {"setup", "spawning"} => cli'[t] = "none"
                 /\ Live(t)' => /\ phase'[t] \in {"running", "spawning", "stopping", "orphaned"}
                                /\ t \in held' \/ InstanceOfToken(t)' \in closed'
      BY <2>b, <2>1, <3>1, <3>2 DEF AgentsAreLeased, InstanceOfToken
    <3>5. ASSUME NEW t \in Used, NEW k \in Used, Live(t)', Live(k)',
                 InstanceOfToken(t)' = InstanceOfToken(k)'
          PROVE  t = k
      BY <3>1, <3>2, <3>5 DEF AgentsAreLeased, InstanceOfToken, Used
    <3> QED
      BY <1>b, <3>4, <3>5 DEF AgentsAreLeased
  <2>5. ClosedIsEmpty'
    BY <1>0, <1>a, <1>b, <1>3, <2>b, <2>1 DEF RecoverCondemns, ClosedIsEmpty
  <2>6. PassIsSound'
    <3>1. phase[r.token] \notin KeptAlive \cup {"claimed", "unused"} /\ phase' = phase
      BY <1>3 DEF RecoverCondemns, PassIsSound
    <3>2. ASSUME r.token \in held, Live(r.token)'
          PROVE  FALSE
      <4>1. cli'[r.token] = "alive" /\ r.token \notin stray'
        BY <3>1, <3>2 DEF Live
      <4>2. cli[r.token] = "alive" /\ r.token \in Token
        BY <1>a, <4>1, <2>b DEF Candidate
      <4>3. r.session = r.token
        BY <3>2, <4>2 DEF SessionIsBound, PassIsSound
      <4> QED
        BY <2>b, <4>1, <4>2, <4>3
    <3> QED
      BY <1>0, <1>a, <1>b, <1>3, <2>1, <3>1, <3>2 DEF RecoverCondemns, PassIsSound
  <2> QED
    BY <2>2, <2>3, <2>4, <2>5, <2>6
<1> QED
  BY <1>1, <1>2, <1>3 DEF Judge

LEMMA ReclaimKeeps ==
  ASSUME TypeOK, AttemptInv, NEW r \in condemned, Reclaim(r)
  PROVE  AttemptInv'
<1>0. LoopTypes /\ PassTypes
  BY TypeOKPassTypes DEF TypeOK, LoopTypes
<1>a. r \in Candidate /\ r.token \in Used /\ itemOf[r.token] \in Item
  BY <1>0, ClaimHasItem DEF PassTypes, Used
<1>b. Used' = Used
  BY
  DEF Used, Reclaim, ReclaimLost, ReclaimDeferred, ReclaimRequeued, ReclaimDead,
      ReclaimThrows, loopVars
<1>c. StillExpired(r) => r.token \in held
  BY <1>a DEF StillExpired, held
<1> USE DEF AttemptInv, LoopTypes, PassTypes, Advance, InProcess, KeptAlive,
            passVars, loopVars, historyVars, rowVars
<1>1. CASE ReclaimLost(r) \/ ReclaimThrows(r)
  <2>1. held' = held
    BY WorkItemsAssumption, <1>0, <1>a, <1>b, <1>c, <1>1, HeldSame
    DEF ReclaimLost, ReclaimThrows
  <2> QED
    BY WorkItemsAssumption, <1>0, <1>a, <1>b, <1>c, <1>1, <2>1
    DEF ReclaimLost, ReclaimThrows, LeaseIsKept, SessionIsBound, AgentsAreLeased,
        ClosedIsEmpty, PassIsSound, Live, InstanceOfToken
<1>2. CASE ReclaimDeferred(r)
  <2>1. held' = held \ {r.token}
    BY WorkItemsAssumption, <1>0, <1>a, <1>b, <1>c, <1>2, HeldDropped
    DEF ReclaimDeferred, RequeueRefunded, held, TypeOK, RowsTypeOK
  <2>2. LeaseIsKept'
    BY WorkItemsAssumption, <1>0, <1>a, <1>b, <1>c, <1>2, <2>1
    DEF ReclaimDeferred, RequeueRefunded, LeaseIsKept, InstanceOfToken, PassIsSound
  <2>3. SessionIsBound'
    BY WorkItemsAssumption, <1>0, <1>a, <1>b, <1>c, <1>2, <2>1
    DEF ReclaimDeferred, RequeueRefunded, LeaseIsKept, SessionIsBound,
        FailOrphanSession, CompleteSession, Candidate, PassIsSound
  <2>4. AgentsAreLeased'
    BY WorkItemsAssumption, <1>0, <1>a, <1>b, <1>c, <1>2, <2>1
    DEF ReclaimDeferred, RequeueRefunded, AgentsAreLeased, LeaseIsKept, SessionIsBound,
        ClosedIsEmpty, Live, InstanceOfToken, PassIsSound
  <2>5. ClosedIsEmpty'
    BY WorkItemsAssumption, <1>0, <1>a, <1>b, <1>c, <1>2, <2>1
    DEF ReclaimDeferred, RequeueRefunded, ClosedIsEmpty, held, Holds, TypeOK,
        RowsTypeOK, Active, NextEffects, ItemsOf
  <2>6. PassIsSound'
    BY WorkItemsAssumption, <1>0, <1>a, <1>b, <1>c, <1>2, <2>1
    DEF ReclaimDeferred, RequeueRefunded, PassIsSound, LeaseIsKept, SessionIsBound,
        AgentsAreLeased, Live
  <2> QED
    BY <2>2, <2>3, <2>4, <2>5, <2>6
<1>3. CASE ReclaimRequeued(r)
  <2>1. held' = held \ {r.token}
    BY WorkItemsAssumption, <1>0, <1>a, <1>b, <1>c, <1>3, HeldDropped
    DEF ReclaimRequeued, RequeueRefunded, held, TypeOK, RowsTypeOK
  <2>2. LeaseIsKept'
    BY WorkItemsAssumption, <1>0, <1>a, <1>b, <1>c, <1>3, <2>1
    DEF ReclaimRequeued, RequeueRefunded, LeaseIsKept, InstanceOfToken, PassIsSound
  <2>3. SessionIsBound'
    BY WorkItemsAssumption, <1>0, <1>a, <1>b, <1>c, <1>3, <2>1
    DEF ReclaimRequeued, RequeueRefunded, LeaseIsKept, SessionIsBound,
        FailOrphanSession, CompleteSession, Candidate, PassIsSound
  <2>4. AgentsAreLeased'
    BY WorkItemsAssumption, <1>0, <1>a, <1>b, <1>c, <1>3, <2>1
    DEF ReclaimRequeued, RequeueRefunded, AgentsAreLeased, LeaseIsKept, SessionIsBound,
        ClosedIsEmpty, Live, InstanceOfToken, PassIsSound
  <2>5. ClosedIsEmpty'
    BY WorkItemsAssumption, <1>0, <1>a, <1>b, <1>c, <1>3, <2>1
    DEF ReclaimRequeued, RequeueRefunded, ClosedIsEmpty, held, Holds, TypeOK,
        RowsTypeOK, Active, NextEffects, ItemsOf
  <2>6. PassIsSound'
    BY WorkItemsAssumption, <1>0, <1>a, <1>b, <1>c, <1>3, <2>1
    DEF ReclaimRequeued, RequeueRefunded, PassIsSound, LeaseIsKept, SessionIsBound,
        AgentsAreLeased, Live
  <2> QED
    BY <2>2, <2>3, <2>4, <2>5, <2>6
<1>4. CASE ReclaimDead(r)
  <2>1. held' = held \ {r.token}
    BY WorkItemsAssumption, <1>0, <1>a, <1>b, <1>c, <1>4, HeldDropped
    DEF ReclaimDead, FinishWorkItem, InsertAllowed, NextEffects, held, TypeOK,
        RowsTypeOK
  <2>2. LeaseIsKept'
    BY WorkItemsAssumption, <1>0, <1>a, <1>b, <1>c, <1>4, <2>1
    DEF ReclaimDead, FinishWorkItem, LeaseIsKept, InstanceOfToken, PassIsSound
  <2>3. SessionIsBound'
    BY WorkItemsAssumption, <1>0, <1>a, <1>b, <1>c, <1>4, <2>1
    DEF ReclaimDead, FinishWorkItem, LeaseIsKept, SessionIsBound, FailOrphanSession,
        CompleteSession, Candidate, PassIsSound
  <2>4. AgentsAreLeased'
    BY WorkItemsAssumption, <1>0, <1>a, <1>b, <1>c, <1>4, <2>1
    DEF ReclaimDead, FinishWorkItem, AgentsAreLeased, LeaseIsKept, SessionIsBound,
        ClosedIsEmpty, Live, InstanceOfToken, PassIsSound
  <2>5. ClosedIsEmpty'
    BY WorkItemsAssumption, <1>0, <1>a, <1>b, <1>c, <1>4, <2>1
    DEF ReclaimDead, FinishWorkItem, ClosedIsEmpty, held, Holds, TypeOK, RowsTypeOK,
        Active, NextEffects, ItemsOf
  <2>6. PassIsSound'
    BY WorkItemsAssumption, <1>0, <1>a, <1>b, <1>c, <1>4, <2>1
    DEF ReclaimDead, FinishWorkItem, PassIsSound, LeaseIsKept, SessionIsBound,
        AgentsAreLeased, Live
  <2> QED
    BY <2>2, <2>3, <2>4, <2>5, <2>6
<1> QED
  BY <1>1, <1>2, <1>3, <1>4 DEF Reclaim

(***************************************************************************)
(* ... and the operator, the host and time.                                *)
(***************************************************************************)
LEMMA NextKeepsAttempts ==
  ASSUME TypeOK, AttemptInv, OneActiveItem, [Next]_vars
  PROVE  AttemptInv'
<1>0. LoopTypes /\ PassTypes /\ LoopTypes'
  BY TypeOKPassTypes, NextKeepsLoopTypes DEF TypeOK, LoopTypes
<1>a. \A t \in Used : t \in Token /\ itemOf[t] \in Item
  BY ClaimHasItem DEF Used
<1> USE DEF AttemptInv, LoopTypes, PassTypes, Advance, InProcess, KeptAlive,
            passVars, loopVars, historyVars, rowVars
<1>1. ASSUME NEW j \in Item, Enqueue(j)
      PROVE  AttemptInv'
  <2>1. held' = held /\ Used' = Used
    BY <1>0, <1>a, <1>1, RowsSame
    DEF Enqueue, EnqueueWorkItem, Insert, InsertAllowed, Used, TypeOK, RowsTypeOK
  <2>2. LeaseIsKept'
    BY <1>0, <1>a, <1>1, <2>1
    DEF Enqueue, EnqueueWorkItem, Insert, InsertAllowed, LeaseIsKept, InstanceOfToken
  <2>3. SessionIsBound'
    BY <1>0, <1>a, <1>1, <2>1
    DEF Enqueue, EnqueueWorkItem, Insert, InsertAllowed, LeaseIsKept, SessionIsBound
  <2>4. AgentsAreLeased'
    BY <1>0, <1>a, <1>1, <2>1
    DEF Enqueue, EnqueueWorkItem, Insert, InsertAllowed, AgentsAreLeased, LeaseIsKept,
        SessionIsBound, ClosedIsEmpty, Live, InstanceOfToken
  <2>5. ClosedIsEmpty'
    BY <1>0, <1>a, <1>1, <2>1
    DEF Enqueue, EnqueueWorkItem, Insert, InsertAllowed, ClosedIsEmpty, TypeOK,
        RowsTypeOK, Active
  <2>6. PassIsSound'
    BY <1>0, <1>a, <1>1, <2>1
    DEF Enqueue, EnqueueWorkItem, Insert, InsertAllowed, PassIsSound, LeaseIsKept,
        SessionIsBound, AgentsAreLeased, Live
  <2> QED
    BY <2>2, <2>3, <2>4, <2>5, <2>6
<1>2. ASSUME NEW j \in Item, LeaseLapses(j) \/ GateOpens(j)
      PROVE  AttemptInv'
  <2>1. held' = held /\ Used' = Used
    BY <1>0, <1>a, <1>2, HeldSame
    DEF LeaseLapses, LeaseExpires, GateOpens, BackoffElapses, TurnDone, Used
  <2>2. LeaseIsKept'
    BY <1>0, <1>a, <1>2, <2>1
    DEF LeaseLapses, LeaseExpires, GateOpens, BackoffElapses, TurnDone, LeaseIsKept,
        InstanceOfToken, held, Holds
  <2>3. SessionIsBound'
    BY <1>0, <1>a, <1>2, <2>1
    DEF LeaseLapses, LeaseExpires, GateOpens, BackoffElapses, TurnDone, LeaseIsKept,
        SessionIsBound
  <2>4. AgentsAreLeased'
    BY <1>0, <1>a, <1>2, <2>1
    DEF LeaseLapses, LeaseExpires, GateOpens, BackoffElapses, TurnDone,
        AgentsAreLeased, LeaseIsKept, SessionIsBound, ClosedIsEmpty, Live,
        InstanceOfToken
  <2>5. ClosedIsEmpty'
    BY <1>0, <1>a, <1>2, <2>1
    DEF LeaseLapses, LeaseExpires, GateOpens, BackoffElapses, TurnDone, ClosedIsEmpty
  <2>6. PassIsSound'
    BY <1>0, <1>a, <1>2, <2>1
    DEF LeaseLapses, LeaseExpires, GateOpens, BackoffElapses, TurnDone, PassIsSound,
        LeaseIsKept, SessionIsBound, AgentsAreLeased, Live
  <2> QED
    BY <2>2, <2>3, <2>4, <2>5, <2>6
<1>3. ASSUME NEW i \in Item, NEW t \in Token, Claim(i, t)
      PROVE  AttemptInv'
  <2>1. held' = held \cup {t} /\ t \notin held /\ Used' = Used \cup {t}
    BY <1>0, <1>a, <1>3
    DEF Claim, ClaimWorkItem, Claimable, held, Holds, Used, TypeOK, RowsTypeOK,
        ReferencesOK
  <2>2. LeaseIsKept'
    BY <1>0, <1>a, <1>3, <2>1
    DEF Claim, ClaimWorkItem, Claimable, Used, TypeOK, RowsTypeOK, PassDone,
        LeaseIsKept, InstanceOfToken
  <2>3. SessionIsBound'
    BY <1>0, <1>a, <1>3, <2>1
    DEF Claim, ClaimWorkItem, Claimable, Used, TypeOK, RowsTypeOK, PassDone,
        LeaseIsKept, SessionIsBound
  <2>4. AgentsAreLeased'
    BY <1>0, <1>a, <1>3, <2>1
    DEF Claim, ClaimWorkItem, Claimable, Used, TypeOK, RowsTypeOK, PassDone,
        AgentsAreLeased, LeaseIsKept, SessionIsBound, ClosedIsEmpty, Live,
        InstanceOfToken, Used
  <2>5. ClosedIsEmpty'
    BY <1>0, <1>a, <1>3, <2>1
    DEF Claim, ClaimWorkItem, Claimable, Used, TypeOK, RowsTypeOK, PassDone,
        ClosedIsEmpty, Active
  <2>6. PassIsSound'
    BY <1>0, <1>a, <1>3, <2>1
    DEF Claim, ClaimWorkItem, Claimable, Used, TypeOK, RowsTypeOK, PassDone,
        PassIsSound, LeaseIsKept, SessionIsBound, AgentsAreLeased, Live, PassDone
  <2> QED
    BY <2>2, <2>3, <2>4, <2>5, <2>6
<1>5. ASSUME NEW n \in Instance, Abort(n)
      PROVE  AttemptInv'
  <2>1. held' = {t \in held : InstanceOf[itemOf[t]] # n} /\ Used' = Used /\ held \subseteq Used
    BY <1>0, <1>a, <1>5, WorkItemsAssumption
    DEF Abort, CancelWorkItems, Cancellable, Active, ItemsOf, held, Holds, Used,
        loopVars, InstanceOfToken, TypeOK, RowsTypeOK, ReferencesOK
  <2>2. LeaseIsKept'
    BY <1>0, <1>a, <1>5, <2>1
    DEF Abort, CancelWorkItems, ItemsOf, LeaseIsKept, InstanceOfToken, TurnDone
  <2>3. SessionIsBound'
    BY <1>0, <1>a, <1>5, <2>1
    DEF Abort, CancelWorkItems, ItemsOf, LeaseIsKept, SessionIsBound, InstanceOfToken
  <2>4. AgentsAreLeased'
    BY <1>0, <1>a, <1>5, <2>1
    DEF Abort, CancelWorkItems, ItemsOf, AgentsAreLeased, LeaseIsKept, SessionIsBound,
        ClosedIsEmpty, Live, InstanceOfToken
  <2>5. ClosedIsEmpty'
    BY <1>0, <1>a, <1>5, <2>1
    DEF Abort, CancelWorkItems, ItemsOf, ClosedIsEmpty, Cancellable, Active, TypeOK,
        RowsTypeOK
  <2>6. PassIsSound'
    BY <1>0, <1>a, <1>5, <2>1
    DEF Abort, CancelWorkItems, ItemsOf, PassIsSound, LeaseIsKept, SessionIsBound,
        AgentsAreLeased, Live
  <2> QED
    BY <2>2, <2>3, <2>4, <2>5, <2>6
<1>6. CASE RecoverScan
  <2>1. held' = held /\ Used' = Used
    BY <1>0, <1>a, <1>6, HeldSame DEF RecoverScan, Used
  <2>2. LeaseIsKept'
    BY <1>0, <1>a, <1>6, <2>1 DEF RecoverScan, LeaseIsKept, InstanceOfToken
  <2>3. SessionIsBound'
    BY <1>0, <1>a, <1>6, <2>1 DEF RecoverScan, LeaseIsKept, SessionIsBound
  <2>4. AgentsAreLeased'
    BY <1>0, <1>a, <1>6, <2>1
    DEF RecoverScan, AgentsAreLeased, LeaseIsKept, SessionIsBound, ClosedIsEmpty, Live,
        InstanceOfToken
  <2>5. ClosedIsEmpty'
    BY <1>0, <1>a, <1>6, <2>1 DEF RecoverScan, ClosedIsEmpty
  <2>6. PassIsSound'
    <3>1. ASSUME NEW r \in suspects'
          PROVE  /\ r.token \in held /\ r.session = bound[itemOf[r.token]]
                 /\ phase[r.token] \in KeptAlive => r.shielded
                 /\ phase[r.token] \notin {"unused", "claimed"}
      <4>1. PICK i \in ExpiredLeases :
              r = [token |-> leaseToken[i], session |-> bound[i],
                   shielded |-> Shielded(leaseToken[i]), renewed |-> FALSE]
        BY <1>6 DEF RecoverScan
      <4>2. i \in Item /\ i \in expired /\ status[i] = "leased"
        BY <4>1 DEF ExpiredLeases, TypeOK, RowsTypeOK
      <4>3. leaseToken[i] \in Token /\ itemOf[leaseToken[i]] = i /\ leaseToken[i] \in held
        BY <4>2, WorkerLoopAssumption DEF TypeOK, ReferencesOK, held, Holds, Used
      <4> QED
        BY <1>6, <4>1, <4>2, <4>3
        DEF LeaseIsKept, Shielded, held, Used, RecoverScan, TurnDone
    <3> QED
      BY <1>6, <2>1, <3>1 DEF RecoverScan, PassIsSound, PassDone
  <2> QED
    BY <2>2, <2>3, <2>4, <2>5, <2>6
<1>7. CASE Crash
  <2>1. held' = held /\ Used' = Used
    BY <1>0, <1>a, <1>7, HeldSame DEF Crash, Running, Used
  <2> QED
    BY <1>0, <1>a, <1>7, <2>1
    DEF Crash, Running, LeaseIsKept, SessionIsBound, AgentsAreLeased, ClosedIsEmpty,
        PassIsSound, Live, InstanceOfToken
<1>8. CASE HostSleep
  <2>1. held' = held /\ Used' = Used
    BY <1>0, <1>a, <1>8, HeldSame DEF HostSleep, Used
  <2>2. LeaseIsKept'
    BY <1>0, <1>a, <1>8, <2>1
    DEF HostSleep, LeaseIsKept, InstanceOfToken, held, Holds, TurnDone, TypeOK,
        RowsTypeOK, ReferencesOK
  <2>3. SessionIsBound'
    BY <1>0, <1>a, <1>8, <2>1 DEF HostSleep, LeaseIsKept, SessionIsBound
  <2>4. AgentsAreLeased'
    BY <1>0, <1>a, <1>8, <2>1
    DEF HostSleep, AgentsAreLeased, LeaseIsKept, SessionIsBound, ClosedIsEmpty, Live,
        InstanceOfToken
  <2>5. ClosedIsEmpty'
    BY <1>0, <1>a, <1>8, <2>1 DEF HostSleep, ClosedIsEmpty
  <2>6. PassIsSound'
    BY <1>0, <1>a, <1>8, <2>1
    DEF HostSleep, PassIsSound, LeaseIsKept, SessionIsBound, AgentsAreLeased, Live
  <2> QED
    BY <2>2, <2>3, <2>4, <2>5, <2>6
<1>9. CASE GraceEnds
  <2>1. held' = held /\ Used' = Used
    BY <1>0, <1>a, <1>9, HeldSame DEF GraceEnds, Used
  <2>2. LeaseIsKept'
    BY <1>0, <1>a, <1>9, <2>1 DEF GraceEnds, LeaseIsKept, InstanceOfToken, held, Holds
  <2>3. SessionIsBound'
    BY <1>0, <1>a, <1>9, <2>1 DEF GraceEnds, LeaseIsKept, SessionIsBound
  <2>4. AgentsAreLeased'
    BY <1>0, <1>a, <1>9, <2>1
    DEF GraceEnds, AgentsAreLeased, LeaseIsKept, SessionIsBound, ClosedIsEmpty, Live,
        InstanceOfToken
  <2>5. ClosedIsEmpty'
    BY <1>0, <1>a, <1>9, <2>1 DEF GraceEnds, ClosedIsEmpty
  <2>6. PassIsSound'
    BY <1>0, <1>a, <1>9, <2>1
    DEF GraceEnds, PassIsSound, LeaseIsKept, SessionIsBound, AgentsAreLeased, Live
  <2> QED
    BY <2>2, <2>3, <2>4, <2>5, <2>6
<1>10. CASE UNCHANGED vars
  <2>1. held' = held /\ Used' = Used
    BY <1>0, <1>a, <1>10, HeldSame DEF vars, Used
  <2> QED
    BY <1>0, <1>a, <1>10, <2>1
    DEF vars, LeaseIsKept, SessionIsBound, AgentsAreLeased, ClosedIsEmpty, PassIsSound,
        Live, InstanceOfToken
<1> QED
  BY <1>1, <1>2, <1>3, <1>5, <1>6, <1>7, <1>8, <1>9, <1>10, SetupKeeps, HandlerKeeps,
     CompletionKeeps, JudgeKeeps, ReclaimKeeps
  DEF Next, AttemptStep, RecoveryStep

(***************************************************************************)
(* Attempts, sessions, agents, closed issues and the recovery pass stay in *)
(* the relation AttemptInv states, through every interleaving of handlers, *)
(* recovery, aborts, crashes and sleeps (worker-loop.ts, recovery.ts).     *)
(***************************************************************************)
THEOREM AttemptInvariant == Spec => []AttemptInv
<1>1. Init => AttemptInv
  BY
  DEF Init, RowsInit, AttemptInv, LeaseIsKept, SessionIsBound, AgentsAreLeased,
      ClosedIsEmpty, PassIsSound,
         held, Live, Used, KeptAlive, InProcess, Active
<1> QED
  BY <1>1, NextKeepsAttempts, TypeCorrect, OneActiveItemHolds, PTL DEF Spec

(***************************************************************************)
(* A session that says "running" is worked on by this process, or found by *)
(* recovery through the row it is bound to, or torn from its completion by *)
(* a crash (worker-loop.ts, recovery.ts).                                  *)
(***************************************************************************)
THEOREM RunningSessionIsLocatableHolds == Spec => []RunningSessionIsLocatable
<1>1. TypeOK /\ AttemptInv => RunningSessionIsLocatable
  BY
  DEF TypeOK, AttemptInv, SessionIsBound, RunningSessionIsLocatable, Locatable,
      Running, InProcess, held
<1> QED
  BY <1>1, TypeCorrect, AttemptInvariant, PTL

(***************************************************************************)
(* Recovery never condemns an attempt this process keeps alive, however    *)
(* long the host slept and however stale the listed candidates are         *)
(* (clock-jump.ts, recovery.ts).                                           *)
(***************************************************************************)
THEOREM RecoverySparesOwnWorkHolds == Spec => []RecoverySparesOwnWork
<1>1. AttemptInv => RecoverySparesOwnWork
  BY DEF AttemptInv, PassIsSound, RecoverySparesOwnWork
<1> QED
  BY <1>1, AttemptInvariant, PTL

(***************************************************************************)
(* Two agents of an issue never work at once, but for one the code itself  *)
(* gave up on: the lease passes on only when the agent under it is seen    *)
(* dead, killed or unverifiable (recovery.ts, spawn-cli.ts).               *)
(***************************************************************************)
THEOREM OneLiveAgentHolds == Spec => []OneLiveAgent
<1>1. TypeOK /\ AttemptInv => OneLiveAgent
  <2> SUFFICES ASSUME TypeOK, AttemptInv, NEW n \in Instance
               PROVE  Cardinality(AliveIn(n) \ stray) <= 1
    BY DEF OneLiveAgent
  <2>1. \A t, k \in AliveIn(n) \ stray : t = k
    BY DEF AliveIn, AttemptInv, SessionIsBound, AgentsAreLeased, Live, Used, TypeOK
  <2>2. CASE AliveIn(n) \ stray = {}
    BY <2>2, FS_EmptySet
  <2>3. ASSUME NEW t \in AliveIn(n) \ stray
        PROVE  Cardinality(AliveIn(n) \ stray) <= 1
    <3>1. AliveIn(n) \ stray = {t}
      BY <2>1, <2>3
    <3> QED
      BY <3>1, FS_Singleton
  <2> QED
    BY <2>2, <2>3
<1> QED
  BY <1>1, TypeCorrect, AttemptInvariant, PTL

====
