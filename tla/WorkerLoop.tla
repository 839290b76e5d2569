----------------------------- MODULE WorkerLoop -----------------------------
(***************************************************************************)
(* The coordinator's worker loop (coordinator/worker-loop.ts), its lease   *)
(* recovery pass (coordinator/recovery.ts), the sessions and agent CLI     *)
(* processes of the attempts (repository/worker-sessions.ts,               *)
(* runners/spawn-cli.ts, coordinator/process-liveness.ts) and the host     *)
(* clock-jump shield (coordinator/clock-jump.ts), over the outbox rows of  *)
(* WorkItems.                                                              *)
(*                                                                         *)
(* An attempt is named by the lease token its claim minted.  The token     *)
(* also names the attempt's worker session (worker_sessions.id) and its    *)
(* CLI process (process_pid and process_started_at).                       *)
(***************************************************************************)
EXTENDS WorkItems

CONSTANTS
  NoItem,          \* "this token has not been minted"
  MaxConcurrency,  \* MAX_COORDINATOR_CONCURRENCY
  MaxInfra,        \* max_infra_attempts of every issue
  MaxDisruptions,  \* bound of the model: crashes, host sleeps, recovery throws
  PsWorks          \* FALSE: `ps` may fail to identify a pid

ASSUME WorkerLoopAssumption ==
  /\ NoItem \notin Item
  /\ MaxConcurrency \in Nat \ {0}
  /\ MaxInfra \in Nat
  /\ MaxDisruptions \in Nat
  /\ PsWorks \in BOOLEAN

VARIABLES
  itemOf,       \* [Token -> Item or NoItem]: the item the token's claim leased
  phase,        \* [Token -> Phase]: where processWorkItemHeld stands
  session,      \* [Token -> SessionStatus]: worker_sessions.status
  cli,          \* [Token -> {"none", "alive", "gone"}]: the agent process
  bound,        \* [Item -> token or NoToken]: work_items.worker_session_id
  suspects,     \* the recovery pass: candidates it has not looked at yet
  condemned,    \* the candidate it is about to reclaim (at most one)
  shield,       \* leases that lapsed before the last clock jump, in its grace
  overdue,      \* live CLIs whose session is older than maxAliveHoldMs
  infra,        \* [Instance -> Nat]: issues.infra_attempts
  closed,       \* instances whose issue was aborted
  disruptions,  \* crashes, host sleeps and recovery throws so far
  charged,      \* history: failures charged to each item's attempts
  settledBy,    \* history: the token that made the item done or dead
  lastGrant,    \* history: the token of the item's latest claim
  stray         \* history: live CLIs the code has given up on

loopVars == <<itemOf, phase, session, cli, bound>>
passVars == <<suspects, condemned>>
historyVars == <<charged, settledBy, lastGrant, stray>>
vars == <<rowVars, loopVars, passVars, shield, overdue, infra, closed,
          disruptions, historyVars>>

\* The stages of processWorkItemHeld, then how an attempt can end:
\*   over      the function returned
\*   orphaned  its process died, or it gave up, with the lease still held
\*   torn      its process died after the completion committed, before
\*             safeCompleteSession
InProcess == {"claimed", "setup", "running", "spawning", "stopping",
              "answered", "settled"}
Phase == InProcess \cup {"unused", "over", "orphaned", "torn"}
SessionStatus == {"none", "running", "done", "failed", "cancelled"}

\* The health check is bounded well below the lease, and the heartbeat
\* interval runs until the handler settles: these leases are kept alive.
KeptAlive == {"setup", "running", "spawning"}

Candidate == [token : Token, session : TokenOrNone,
              shielded : BOOLEAN, renewed : BOOLEAN]

-----------------------------------------------------------------------------
Init ==
  /\ RowsInit
  /\ itemOf = [t \in Token |-> NoItem]
  /\ phase = [t \in Token |-> "unused"]
  /\ session = [t \in Token |-> "none"]
  /\ cli = [t \in Token |-> "none"]
  /\ bound = [i \in Item |-> NoToken]
  /\ suspects = {} /\ condemned = {}
  /\ shield = {} /\ overdue = {}
  /\ infra = [n \in Instance |-> 0]
  /\ closed = {}
  /\ disruptions = 0
  /\ charged = [i \in Item |-> 0]
  /\ settledBy = [i \in Item |-> NoToken]
  /\ lastGrant = [i \in Item |-> NoToken]
  /\ stray = {}

InstanceOfToken(t) == InstanceOf[itemOf[t]]
Running == {t \in Token : phase[t] \in InProcess}

\* claimWorkItem, the session setup and everything up to the first await run
\* in one turn of the event loop: nothing but a crash comes in between.
TurnDone == \A t \in Token : phase[t] # "claimed"

\* completeSession: a session that is already terminal is left as it is.
CompleteSessionAnyway(s, t, to) == [s EXCEPT ![t] = to]
CompleteSession(s, t, to) == IF s[t] = "running" THEN [s EXCEPT ![t] = to] ELSE s

\* failOrphanSession on work_items.worker_session_id, which may be NULL
LeaveOrphanSession(s, b) == s
FailOrphanSession(s, b) == IF b = NoToken THEN s ELSE CompleteSession(s, b, "failed")

\* The items a routing transaction may create: none, or one of the instance.
NextEffects(i) == {{}} \cup {{j} : j \in ItemsOf(InstanceOf[i]) \ {i}}

Advance(t, to) == phase' = [phase EXCEPT ![t] = to]
Settle(i, t) == settledBy' = [settledBy EXCEPT ![i] = t]

-----------------------------------------------------------------------------
(* Claiming and session setup                                              *)

\* startWorkflowCore and human resolutions put the next effect on the queue;
\* a resume also resets the infra budget.
Enqueue(j) ==
  /\ TurnDone
  /\ InstanceOf[j] \notin closed
  /\ EnqueueWorkItem(j)
  /\ infra' = [infra EXCEPT ![InstanceOf[j]] = 0]
  /\ UNCHANGED <<loopVars, passVars, shield, overdue, closed, disruptions,
                 historyVars>>

\* runCoordinatorTick: one claim of its while loop.  Ticks do not overlap, and
\* the recovery pass of the tick has been awaited before.
PassDone == suspects = {} /\ condemned = {}

Claim(i, t) ==
  /\ TurnDone /\ PassDone
  /\ phase[t] = "unused"
  /\ Cardinality(Running) < MaxConcurrency
  /\ ClaimWorkItem(i, t)
  /\ itemOf' = [itemOf EXCEPT ![t] = i]
  /\ Advance(t, "claimed")
  /\ lastGrant' = [lastGrant EXCEPT ![i] = t]
  /\ UNCHANGED <<session, cli, bound, passVars, shield, overdue, infra, closed,
                 disruptions, charged, settledBy, stray>>

\* One transaction: create the session, bind it to the item, start it.
BeginSession(t) ==
  /\ phase[t] = "claimed"
  /\ session' = [session EXCEPT ![t] = "running"]
  /\ bound' = [bound EXCEPT ![itemOf[t]] = t]
  /\ Advance(t, "setup")
  /\ UNCHANGED <<rowVars, itemOf, cli, passVars, shield, overdue, infra, closed,
                 disruptions, historyVars>>

\* The setup transaction threw and rolled back: the attempt is dropped with
\* its lease held, for recovery to find.
SetupFails(t) ==
  /\ phase[t] = "claimed"
  /\ Advance(t, "orphaned")
  /\ UNCHANGED <<rowVars, itemOf, session, cli, bound, passVars, shield, overdue,
                 infra, closed, disruptions, historyVars>>

\* The runtime is usage-capped: back to pending behind the cap window.
DeferForCap(t) ==
  /\ phase[t] = "claimed"
  /\ RequeueRefunded(itemOf[t], t)
  /\ Advance(t, "over")
  /\ UNCHANGED <<itemOf, session, cli, bound, passVars, shield, overdue, infra,
                 closed, disruptions, historyVars>>

\* The cap has lasted past its ceiling: finish, and route it to a human.
EscalateCap(t) ==
  /\ phase[t] = "claimed"
  /\ FinishWorkItem(itemOf[t], t, "done", {})
  /\ Settle(itemOf[t], t)
  /\ Advance(t, "over")
  /\ UNCHANGED <<itemOf, session, cli, bound, passVars, shield, overdue, infra,
                 closed, disruptions, charged, lastGrant, stray>>

\* The role's agent is unhealthy: defer, and cancel the session.  The deferral
\* is fenced on the lease, the session's end is not.
HealthFails(t) ==
  /\ TurnDone
  /\ phase[t] = "setup"
  /\ IF Holds(itemOf[t], t) THEN RequeueRefunded(itemOf[t], t) ELSE UNCHANGED rowVars
  /\ session' = CompleteSession(session, t, "cancelled")
  /\ Advance(t, "over")
  /\ UNCHANGED <<itemOf, cli, bound, passVars, shield, overdue, infra, closed,
                 disruptions, historyVars>>

\* Healthy: the heartbeat interval starts and the effect handler is called.
HealthOk(t) ==
  /\ TurnDone
  /\ phase[t] = "setup"
  /\ Advance(t, "running")
  /\ UNCHANGED <<rowVars, itemOf, session, cli, bound, passVars, shield, overdue,
                 infra, closed, disruptions, historyVars>>

-----------------------------------------------------------------------------
(* The effect handler                                                      *)

\* The re-check just before the spawn reads the row's status, not its token;
\* the spawn itself comes after more awaits (commits ahead, a spawn slot).
PreSpawnCheck(t) ==
  /\ TurnDone
  /\ phase[t] = "running" /\ cli[t] = "none"
  /\ status[itemOf[t]] = "leased"
  /\ Advance(t, "spawning")
  /\ UNCHANGED <<rowVars, itemOf, session, cli, bound, passVars, shield, overdue,
                 infra, closed, disruptions, historyVars>>

Spawn(t) ==
  /\ TurnDone
  /\ phase[t] = "spawning"
  /\ cli' = [cli EXCEPT ![t] = "alive"]
  /\ Advance(t, "running")
  /\ UNCHANGED <<rowVars, itemOf, session, bound, passVars, shield, overdue, infra,
                 closed, disruptions, historyVars>>

CliExits(t) ==
  /\ TurnDone
  /\ cli[t] = "alive"
  /\ cli' = [cli EXCEPT ![t] = "gone"]
  /\ overdue' = overdue \ {t}
  /\ stray' = stray \ {t}
  /\ UNCHANGED <<rowVars, itemOf, phase, session, bound, passVars, shield, infra,
                 closed, disruptions, charged, settledBy, lastGrant>>

\* The heartbeat interval of a running handler.  A renewal moves the expiry
\* past the cutoff of a recovery pass that already listed the lease, and past
\* the detection time of a clock jump.
Renewed(S, t) == {IF r.token = t THEN [r EXCEPT !.renewed = TRUE] ELSE r : r \in S}

Heartbeat(t) ==
  /\ TurnDone
  /\ phase[t] \in {"running", "spawning"}
  /\ itemOf[t] \in expired
  /\ RefreshHeartbeat(itemOf[t], t)
  /\ suspects' = Renewed(suspects, t)
  /\ condemned' = Renewed(condemned, t)
  /\ shield' = shield \ {t}
  /\ UNCHANGED <<loopVars, overdue, infra, closed, disruptions, historyVars>>

\* The renewal matched nothing: the AbortController fires and spawnCli kills
\* the CLI (SIGTERM, then SIGKILL).  A handler on its way to the spawn still
\* spawns, and finds the signal aborted.
LoseHeartbeat(t) ==
  /\ TurnDone
  /\ phase[t] = "running"
  /\ ~Holds(itemOf[t], t)
  /\ Advance(t, "stopping")
  /\ UNCHANGED <<rowVars, itemOf, session, cli, bound, passVars, shield, overdue,
                 infra, closed, disruptions, historyVars>>

\* The handler returns an outcome; the heartbeat interval is cleared.
Answer(t) ==
  /\ TurnDone
  /\ phase[t] \in {"running", "stopping"}
  /\ cli[t] # "alive"
  /\ Advance(t, "answered")
  /\ UNCHANGED <<rowVars, itemOf, session, cli, bound, passVars, shield, overdue,
                 infra, closed, disruptions, historyVars>>

\* The wall clock or the idle watchdog of spawnCli fires: one SIGTERM, and
\* 500 ms later the promise settles, whether or not the child has closed.  The
\* child is unregistered and never signalled again.
TimeoutSettles(t) ==
  /\ TurnDone
  /\ phase[t] \in {"running", "stopping"}
  /\ cli[t] = "alive"
  /\ stray' = stray \cup {t}
  /\ Advance(t, "answered")
  /\ UNCHANGED <<rowVars, itemOf, session, cli, bound, passVars, shield, overdue,
                 infra, closed, disruptions, charged, settledBy, lastGrant>>

\* handleEffectFailure: the failure costs an attempt; the last one kills the
\* item and routes it as session_failed in the same transaction.
HandlerThrows(t) ==
  LET i == itemOf[t] IN
  /\ TurnDone
  /\ phase[t] \in {"running", "stopping"}
  /\ cli[t] # "alive"
  /\ \/ /\ ~Holds(i, t)
        /\ UNCHANGED <<rowVars, charged, settledBy>>
     \/ /\ ~AttemptCapReached(i)
        /\ RequeueCharged(i, t)
        /\ charged' = [charged EXCEPT ![i] = @ + 1]
        /\ UNCHANGED settledBy
     \/ /\ AttemptCapReached(i)
        /\ \E next \in NextEffects(i) : FinishWorkItem(i, t, "dead", next)
        /\ Settle(i, t)
        /\ UNCHANGED charged
     \/ /\ AttemptCapReached(i) /\ Holds(i, t)   \* routing threw: rolled back
        /\ UNCHANGED <<rowVars, charged, settledBy>>
  /\ session' = CompleteSession(session, t, "failed")
  /\ Advance(t, "over")
  /\ UNCHANGED <<itemOf, cli, bound, passVars, shield, overdue, infra, closed,
                 disruptions, lastGrant, stray>>

-----------------------------------------------------------------------------
(* applyCompletion and what follows it                                     *)

\* finishWorkItem and routing in one transaction; finalizeAutoMerge is then
\* awaited before the session is completed.
CompleteRouted(t) ==
  LET i == itemOf[t] IN
  /\ TurnDone
  /\ phase[t] = "answered"
  /\ \E next \in NextEffects(i) : FinishWorkItem(i, t, "done", next)
  /\ Settle(i, t)
  /\ Advance(t, "settled")
  /\ UNCHANGED <<itemOf, session, cli, bound, passVars, shield, overdue, infra,
                 closed, disruptions, charged, lastGrant, stray>>

\* usage_capped, deck_unavailable, base_fetch_failed, checks_pending,
\* checks_conflicting: back to pending, the claim's bump undone.
CompleteDeferred(t) ==
  /\ TurnDone
  /\ phase[t] = "answered"
  /\ RequeueRefunded(itemOf[t], t)
  /\ Advance(t, "settled")
  /\ UNCHANGED <<itemOf, session, cli, bound, passVars, shield, overdue, infra,
                 closed, disruptions, historyVars>>

\* already_terminal, lease_lost, no_active_instance: nothing is applied.
CompleteLost(t) ==
  /\ TurnDone
  /\ phase[t] = "answered"
  /\ ~Holds(itemOf[t], t)
  /\ session' = CompleteSession(session, t, "cancelled")
  /\ Advance(t, "over")
  /\ UNCHANGED <<rowVars, itemOf, cli, bound, passVars, shield, overdue, infra,
                 closed, disruptions, historyVars>>

\* Routing throws: the transaction rolls back, the lease is left to recovery.
RoutingThrows(t) ==
  /\ TurnDone
  /\ phase[t] = "answered"
  /\ Holds(itemOf[t], t)
  /\ Advance(t, "orphaned")
  /\ UNCHANGED <<rowVars, itemOf, session, cli, bound, passVars, shield, overdue,
                 infra, closed, disruptions, historyVars>>

\* safeCompleteSession after an applied completion; "done" stands for the
\* terminal status the outcome maps to.
Wrap(t) ==
  /\ TurnDone
  /\ phase[t] = "settled"
  /\ session' = CompleteSession(session, t, "done")
  /\ Advance(t, "over")
  /\ UNCHANGED <<rowVars, itemOf, cli, bound, passVars, shield, overdue, infra,
                 closed, disruptions, historyVars>>

-----------------------------------------------------------------------------
(* The operator, the host and time                                         *)

\* abortIssue: one transaction over the issue's items and sessions.  The
\* SIGTERM that follows reaches only CLIs this process still has registered,
\* and promises nothing: it adds no step to what CliExits already allows.
Abort(n) ==
  /\ TurnDone
  /\ n \notin closed
  /\ closed' = closed \cup {n}
  /\ CancelWorkItems(ItemsOf(n))
  /\ session' = [t \in Token |->
                   IF itemOf[t] \in ItemsOf(n) /\ session[t] = "running"
                   THEN "cancelled" ELSE session[t]]
  /\ UNCHANGED <<itemOf, phase, cli, bound, passVars, shield, overdue, infra,
                 disruptions, historyVars>>

\* The server process dies: its memory goes, its child processes do not.
Crash ==
  /\ disruptions < MaxDisruptions
  /\ Running # {} \/ condemned # {}
  /\ disruptions' = disruptions + 1
  /\ phase' = [t \in Token |-> IF phase[t] = "settled" THEN "torn"
                               ELSE IF t \in Running THEN "orphaned" ELSE phase[t]]
  /\ suspects' = {} /\ condemned' = {} /\ shield' = {}
  /\ UNCHANGED <<rowVars, itemOf, session, cli, bound, overdue, infra, closed,
                 historyVars>>

\* The host sleeps: every lease lapses unrenewed.  The poll timer that follows
\* sees the gap (observeClockJump) before it runs any recovery pass.
HostSleep ==
  LET leased == {i \in Item : status[i] = "leased"} IN
  /\ TurnDone
  /\ disruptions < MaxDisruptions
  /\ leased # {}
  /\ disruptions' = disruptions + 1
  /\ expired' = expired \cup leased
  /\ shield' = {leaseToken[i] : i \in leased}
  /\ UNCHANGED <<status, attemptCount, leaseToken, gated, born, loopVars, passVars,
                 overdue, infra, closed, historyVars>>

\* The grace lasts a whole lease, so a running heartbeat renews within it.
GraceEnds ==
  /\ TurnDone
  /\ shield # {}
  /\ \A t \in shield : phase[t] \in KeptAlive => ~Holds(itemOf[t], t)
  /\ shield' = {}
  /\ UNCHANGED <<rowVars, loopVars, passVars, overdue, infra, closed, disruptions,
                 historyVars>>

\* A lease nobody renews: its process is gone, or its handler has settled.
LeaseLapses(i) ==
  /\ TurnDone
  /\ LeaseExpires(i)
  /\ phase[leaseToken[i]] \notin KeptAlive
  /\ UNCHANGED <<loopVars, passVars, shield, overdue, infra, closed, disruptions,
                 historyVars>>

GateOpens(i) ==
  /\ TurnDone
  /\ BackoffElapses(i)
  /\ UNCHANGED <<loopVars, passVars, shield, overdue, infra, closed, disruptions,
                 historyVars>>

\* now - started_at > maxAliveHoldMsFor(role)
HoldCeilingPasses(t) ==
  /\ TurnDone
  /\ cli[t] = "alive"
  /\ t \notin overdue
  /\ overdue' = overdue \cup {t}
  /\ UNCHANGED <<rowVars, loopVars, passVars, shield, infra, closed, disruptions,
                 historyVars>>

-----------------------------------------------------------------------------
(* recoverCoordinator: one pass.  The candidates are listed once, then     *)
(* taken one at a time; only the kill and the git inspection are awaited.  *)

\* protectedByClockJump: lease_expires_at <= detectedAt, within the grace
NoShield(t) == FALSE
Shielded(t) == t \in shield

RecoverScan ==
  /\ TurnDone /\ PassDone
  /\ ExpiredLeases # {}
  /\ suspects' = {[token |-> leaseToken[i], session |-> bound[i],
                   shielded |-> Shielded(leaseToken[i]), renewed |-> FALSE]
                    : i \in ExpiredLeases}
  /\ UNCHANGED <<rowVars, loopVars, condemned, shield, overdue, infra, closed,
                 disruptions, historyVars>>

\* inspectWorkerProcess of the session the row names
Verdicts(b) ==
  IF b = NoToken \/ cli[b] # "alive" THEN {"dead"}
  ELSE {"identified"} \cup IF PsWorks THEN {} ELSE {"unidentified", "unknown"}

HoldForever(b, v) == v \in {"identified", "unidentified"}
HeldAlive(b, v) == v \in {"identified", "unidentified"} /\ b \notin overdue

\* A live worker keeps its lease; the refresh is fenced on the token.
RecoverHolds(r) ==
  /\ TurnDone
  /\ r \in suspects /\ condemned = {}
  /\ \E v \in Verdicts(r.session) : HeldAlive(r.session, v)
  /\ IF Holds(itemOf[r.token], r.token)
     THEN RefreshHeartbeat(itemOf[r.token], r.token) /\ shield' = shield \ {r.token}
     ELSE UNCHANGED <<rowVars, shield>>
  /\ suspects' = suspects \ {r}
  /\ UNCHANGED <<loopVars, condemned, overdue, infra, closed, disruptions, historyVars>>

\* A lease that lapsed while the host slept is not evidence.
RecoverSpares(r) ==
  /\ TurnDone
  /\ r \in suspects /\ condemned = {}
  /\ \E v \in Verdicts(r.session) : ~HeldAlive(r.session, v)
  /\ r.shielded
  /\ suspects' = suspects \ {r}
  /\ UNCHANGED <<rowVars, loopVars, condemned, shield, overdue, infra, closed,
                 disruptions, historyVars>>

\* terminateWorkerProcess: an identified process is signalled and then seen gone,
\* or it outlives even SIGKILL ("failed", as when the call throws); one that is
\* not identified is never signalled.  "over": there was nothing to signal.
Outcomes(v) == CASE v = "dead" -> {"over"}
                 [] v = "identified" -> {"stopped", "failed"}
                 [] OTHER -> {"unverified"}
NotSignalled(b, o) == cli
Signalled(b, o) == IF o = "stopped" THEN [cli EXCEPT ![b] = "gone"] ELSE cli
UnverifiedWithoutPid(b, o) == IF o = "stopped" THEN {} ELSE {b}
Stopped(b, o) == IF o = "stopped" THEN {b} ELSE {}
Unverified(b, o) == IF o \in {"failed", "unverified"} THEN {b} ELSE {}

RecoverCondemns(r) ==
  /\ TurnDone
  /\ r \in suspects /\ condemned = {}
  /\ ~r.shielded
  /\ \E v \in Verdicts(r.session) : \E o \in Outcomes(v) :
       /\ ~HeldAlive(r.session, v)
       /\ cli' = Signalled(r.session, o)
       /\ stray' = (stray \ Stopped(r.session, o)) \cup Unverified(r.session, o)
       /\ overdue' = overdue \ Stopped(r.session, o)
  /\ suspects' = suspects \ {r}
  /\ condemned' = {r}
  /\ UNCHANGED <<rowVars, itemOf, phase, session, bound, shield, infra, closed,
                 disruptions, charged, settledBy, lastGrant>>

\* lease_token = @token AND lease_expires_at < nowIso
StillExpired(r) == Holds(itemOf[r.token], r.token) /\ ~r.renewed

ReclaimLost(r) ==
  /\ TurnDone
  /\ r \in condemned
  /\ ~StillExpired(r)
  /\ condemned' = {}
  /\ UNCHANGED <<rowVars, loopVars, suspects, shield, overdue, infra, closed,
                 disruptions, historyVars>>

\* deferExpiredLeaseForCap: the row's session ran on a capped runtime
ReclaimDeferred(r) ==
  /\ TurnDone
  /\ r \in condemned /\ StillExpired(r)
  /\ r.session # NoToken
  /\ RequeueRefunded(itemOf[r.token], r.token)
  /\ session' = FailOrphanSession(session, r.session)
  /\ condemned' = {}
  /\ UNCHANGED <<itemOf, phase, cli, bound, suspects, shield, overdue, infra, closed,
                 disruptions, historyVars>>

\* Presumed dead: requeue, refund the attempt, charge the infra budget.
ReclaimRequeued(r) ==
  LET i == itemOf[r.token] IN
  /\ TurnDone
  /\ r \in condemned /\ StillExpired(r)
  /\ infra[InstanceOf[i]] < MaxInfra
  /\ RequeueRefunded(i, r.token)
  /\ infra' = [infra EXCEPT ![InstanceOf[i]] = @ + 1]
  /\ session' = FailOrphanSession(session, r.session)
  /\ condemned' = {}
  /\ UNCHANGED <<itemOf, phase, cli, bound, suspects, shield, overdue, closed,
                 disruptions, historyVars>>

\* The infra budget is spent: dead, and routed as session_failed.
ReclaimDead(r) ==
  LET i == itemOf[r.token] IN
  /\ TurnDone
  /\ r \in condemned /\ StillExpired(r)
  /\ infra[InstanceOf[i]] >= MaxInfra
  /\ \E next \in NextEffects(i) : FinishWorkItem(i, r.token, "dead", next)
  /\ Settle(i, r.token)
  /\ session' = FailOrphanSession(session, r.session)
  /\ condemned' = {}
  /\ UNCHANGED <<itemOf, phase, cli, bound, suspects, shield, overdue, infra, closed,
                 disruptions, charged, lastGrant, stray>>

\* Routing the dead item throws: it stays leased for the next pass.
ReclaimThrows(r) ==
  /\ TurnDone
  /\ disruptions < MaxDisruptions
  /\ r \in condemned /\ StillExpired(r)
  /\ infra[InstanceOfToken(r.token)] >= MaxInfra
  /\ disruptions' = disruptions + 1
  /\ condemned' = {}
  /\ UNCHANGED <<rowVars, loopVars, suspects, shield, overdue, infra, closed,
                 historyVars>>

-----------------------------------------------------------------------------
Setup(t) == \/ BeginSession(t) \/ SetupFails(t) \/ DeferForCap(t) \/ EscalateCap(t)
HealthSettles(t) == HealthOk(t) \/ HealthFails(t)
Complete(t) == \/ CompleteRouted(t) \/ CompleteDeferred(t) \/ CompleteLost(t)
               \/ RoutingThrows(t)
HandlerEnds(t) == Answer(t) \/ HandlerThrows(t)
Judge(r) == RecoverHolds(r) \/ RecoverSpares(r) \/ RecoverCondemns(r)
Reclaim(r) == \/ ReclaimLost(r) \/ ReclaimDeferred(r) \/ ReclaimRequeued(r)
              \/ ReclaimDead(r) \/ ReclaimThrows(r)

AttemptStep(t) ==
  \/ Setup(t) \/ HealthSettles(t) \/ PreSpawnCheck(t) \/ Spawn(t) \/ CliExits(t)
  \/ Heartbeat(t) \/ LoseHeartbeat(t) \/ HandlerEnds(t) \/ TimeoutSettles(t)
  \/ Complete(t) \/ Wrap(t) \/ HoldCeilingPasses(t)

RecoveryStep ==
  \/ RecoverScan
  \/ \E r \in suspects : Judge(r)
  \/ \E r \in condemned : Reclaim(r)

Next ==
  \/ \E j \in Item : Enqueue(j) \/ LeaseLapses(j) \/ GateOpens(j)
  \/ \E i \in Item, t \in Token : Claim(i, t)
  \/ \E t \in Token : AttemptStep(t)
  \/ \E n \in Instance : Abort(n)
  \/ RecoveryStep
  \/ Crash \/ HostSleep \/ GraceEnds

Spec == Init /\ [][Next]_vars

\* Timers fire, promises settle, the poll loop ticks.  Nothing is assumed of
\* the operator, of crashes, of timeouts, or of a CLI whose parent is gone; a
\* CLI with a live parent ends by itself or by its wall clock.
Fairness ==
  /\ \A t \in Token :
       /\ WF_vars(Setup(t)) /\ WF_vars(HealthSettles(t)) /\ WF_vars(Spawn(t))
       /\ WF_vars(phase[t] \in {"running", "stopping"}
                  /\ (CliExits(t) \/ TimeoutSettles(t)))
       /\ WF_vars(Heartbeat(t)) /\ WF_vars(LoseHeartbeat(t))
       /\ WF_vars(HandlerEnds(t)) /\ WF_vars(Complete(t)) /\ WF_vars(Wrap(t))
       /\ WF_vars(HoldCeilingPasses(t))
  /\ \A i \in Item : WF_vars(LeaseLapses(i)) /\ WF_vars(GateOpens(i))
  /\ WF_vars(RecoverScan)
  /\ WF_vars(\E r \in suspects : Judge(r))
  /\ WF_vars(\E r \in condemned : Reclaim(r))
  /\ WF_vars(GraceEnds)

FairSpec == Spec /\ Fairness

-----------------------------------------------------------------------------
(* Properties                                                              *)

\* A leased row and its claim name each other; a token is minted once.
ReferencesOK ==
  /\ \A t \in Token : phase[t] = "unused" <=> itemOf[t] = NoItem
  /\ \A i \in Item : IF status[i] = "leased"
                     THEN leaseToken[i] \in Token /\ itemOf[leaseToken[i]] = i
                     ELSE leaseToken[i] = NoToken
  /\ \A r \in suspects \cup condemned : itemOf[r.token] \in Item

\* Type correctness, with the references between rows, claims and the pass.
TypeOK ==
  /\ ReferencesOK
  /\ RowsTypeOK
  /\ itemOf \in [Token -> Item \cup {NoItem}]
  /\ phase \in [Token -> Phase]
  /\ session \in [Token -> SessionStatus]
  /\ cli \in [Token -> {"none", "alive", "gone"}]
  /\ bound \in [Item -> TokenOrNone]
  /\ suspects \subseteq Candidate
  /\ condemned \subseteq Candidate
  /\ shield \subseteq Token
  /\ overdue \subseteq Token
  /\ infra \in [Instance -> Nat]
  /\ closed \subseteq Instance
  /\ disruptions \in Nat
  /\ charged \in [Item -> Nat]
  /\ settledBy \in [Item -> TokenOrNone]
  /\ lastGrant \in [Item -> TokenOrNone]
  /\ stray \subseteq Token

\* attempt_count is exactly the failures charged plus the claim in progress:
\* every deferral and every reclaim, in any order, gives its claim back
\* (NOT-111, NOT-128), so a lease can always be retried or killed in bound.
AttemptAccounting ==
  \A i \in Item :
    /\ status[i] \in {"absent", "pending"} => attemptCount[i] = charged[i]
    /\ status[i] \in {"leased", "done", "dead"} => attemptCount[i] = charged[i] + 1
    /\ charged[i] < MaxAttempts

\* Only the latest claim of an item ever makes it done or dead: a reclaimed
\* attempt that answers late, or a recovery pass that looks at a lease which
\* has moved on, settles nothing (finishWorkItem's fence).
SettledByLatestClaim ==
  \A i \in Item :
    /\ settledBy[i] \in {NoToken, lastGrant[i]}
    /\ status[i] \in {"done", "dead"} <=> settledBy[i] # NoToken

\* A session row says "running" only while this process is working on it, or
\* while recovery can find it through the lease of its item, or (the gap) when
\* the process died between a completion and its bookkeeping.
Locatable(t) ==
  \/ t \in Running
  \/ Holds(itemOf[t], t) /\ bound[itemOf[t]] = t
RunningSessionIsLocatable ==
  \A t \in Token : session[t] = "running" => Locatable(t) \/ phase[t] = "torn"

\* Two agents of one issue never work at once, except next to a CLI the code
\* itself gave up on (a timeout that settled early, a pid it could not
\* identify, a kill that failed): a predecessor is seen dead before its item is handed on.
AliveIn(n) == {t \in Token : cli[t] = "alive" /\ InstanceOfToken(t) = n}
OneLiveAgent == \A n \in Instance : Cardinality(AliveIn(n) \ stray) <= 1

\* Recovery never kills or reclaims an attempt whose handler is still running
\* in this process, however long the host slept and however stale the pass.
RecoverySparesOwnWork == \A r \in condemned : phase[r.token] \notin KeptAlive

\* What is over stays over: no row leaves done, dead or cancelled, no session
\* leaves a terminal status, whichever late writer comes by.
TerminalIsFinal ==
  [][/\ \A i \in Item : status[i] \in Terminal => status'[i] = status[i]
     /\ \A t \in Token : session[t] \in {"done", "failed", "cancelled"}
                           => session'[t] = session[t]]_vars

\* No lease is held forever: through crashes, sleeps and hung CLIs every claim
\* is completed, deferred, reclaimed or cancelled.
NoLeaseForever ==
  \A t \in Token : (phase[t] # "unused" /\ Holds(itemOf[t], t))
                     ~> ~(phase[t] # "unused" /\ Holds(itemOf[t], t))

\* No session is shown running forever: whatever dies, hangs or sleeps, its
\* row becomes terminal, but for the gap RunningSessionIsLocatable names.
EverySessionEnds ==
  \A t \in Token :
    session[t] = "running" ~> (session[t] # "running" \/ phase[t] = "torn")

\* The rows, as the workflow sees them: the abstract outbox.
Fate(i) == CASE status[i] = "absent" -> "unborn"
             [] status[i] \in Active -> "open"
             [] status[i] \in {"done", "dead"} -> "finished"
             [] status[i] = "cancelled" -> "withdrawn"

Promise == INSTANCE Outbox WITH
  fate <- [i \in Item |-> Fate(i)],
  holder <- leaseToken,
  used <- {t \in Token : phase[t] # "unused"}

\* The rows, the worker loop, recovery, crashes and aborts together implement
\* the promise of the outbox: every step is one of its steps or none.
ImplementsOutbox == Promise!Spec

-----------------------------------------------------------------------------
(* Claims of the code's comments that the code does not keep               *)

\* "never two live agents on one issue" (recovery.ts)
NeverTwoLiveAgents == \A n \in Instance : Cardinality(AliveIn(n)) <= 1

\* No "running session that recovery (which keys off work_items) cannot
\* locate" (worker-loop.ts)
EveryRunningSessionIsLocatable ==
  \A t \in Token : session[t] = "running" => Locatable(t)

\* "Abort workflow: stops the current run" (docs/LINEAR_INTEGRATION.md): once
\* an issue is closed, its agent process eventually stops.
AbortStopsTheRun ==
  \A t \in Token : (phase[t] # "unused" /\ InstanceOfToken(t) \in closed)
                     ~> cli[t] # "alive"
=============================================================================
