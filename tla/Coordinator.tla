----------------------------- MODULE Coordinator -----------------------------
(***************************************************************************)
(* The command kernel of one issue: packages/server/src/coordinator/       *)
(* commands.ts with routing.ts, projection.ts, human-resolution.ts, the    *)
(* auto-merge finalizer (auto-merge.ts, merge-conflict-sync.ts) and the    *)
(* base-advanced scan (base-advanced-scan.ts).                             *)
(*                                                                         *)
(* One transaction of the code is one action.  Where the code awaits (the  *)
(* gh merge, the base sync, the lease push, the scan's push) the action    *)
(* ends, and fin, pushing or scan says where the call stands.  A routing   *)
(* transaction that would throw (an illegal status transition, a second    *)
(* active row) rolls back: here it is not enabled.                         *)
(*                                                                         *)
(* Attempts, leases and sessions are the matter of WorkerLoop; here a work *)
(* item is pending or leased, and a leased one is completed with some      *)
(* outcome, put back, or reclaimed.  At most one row is active             *)
(* (idx_work_items_one_active), so the active row is a variable of its own *)
(* and of the terminal rows only the idempotency keys are kept.            *)
(***************************************************************************)
EXTENDS Naturals

CONSTANTS
  MaxInfra,       \* max_infra_attempts
  MaxCi,          \* max_ci_attempts
  FirstMaxRounds, \* max_review_rounds of a new issue
  NeedsOperator,  \* the frozen snapshot holds [operator] criteria
  Windows,        \* awaits other steps may fall into: "push" (the lease push),
                  \* "list" (a recovery pass busy with issues listed before this)
  MaxHeads,       \* bound of the model: heads the PR branch goes through
  MaxDecisions    \* bound of the model: choices other than close

ASSUME CoordinatorAssumption ==
  /\ MaxInfra \in Nat
  /\ MaxCi \in Nat
  /\ FirstMaxRounds \in Nat \ {0}
  /\ NeedsOperator \in BOOLEAN
  /\ Windows \subseteq {"push", "list"}
  /\ MaxHeads \in Nat \ {0}
  /\ MaxDecisions \in Nat

VARIABLES
  status,        \* issues.status
  round,         \* issues.current_round
  maxRounds,     \* issues.max_review_rounds
  infra,         \* issues.infra_attempts
  ci,            \* issues.ci_attempts
  autoMerge,     \* issues.auto_merge
  parked,        \* current_owner = 'system' and intent AUTO_MERGE_INTENT
  head,          \* issues.head_sha (0: none recorded)
  instance,      \* the workflow instance: none, active, or its outcome
  item,          \* the active work item, or NoItem
  keys,          \* idempotency keys that can be derived twice, once used
  open,          \* open human actions
  verified,      \* heads with an operator result on record
  conflictSpent, \* conflictRepairSpent: the episode's repair round has run
  syncSpent,     \* checksWaitSyncSpent: the episode's push-only sync has run
  remote,        \* origin's tip of the issue branch (0: not pushed)
  ours,          \* lastDealerPushedSha is that tip
  pr,            \* the pull request: none, open, merged
  listed,        \* a recoverStrandedAutoMerges pass holds this issue in its list
  fin,           \* finalizeInflight: where the finalizer's await stands
  pushing,       \* the action whose lease push is in flight, or NoAction
  scan,          \* the base-advanced scan: idle, or pushed and not queued yet
  approved,      \* history: the head the last approving verdict was for
  queued,        \* history: rows enqueued since a person last decided
  decisions      \* history: decisions taken, for the bound

issueVars == <<status, round, maxRounds, infra, ci, autoMerge, parked, head, instance>>
rowVars == <<item, keys, open>>
episodeVars == <<conflictSpent, syncSpent>>
ghVars == <<remote, ours, pr>>
callVars == <<listed, fin, pushing, scan>>
historyVars == <<approved, queued, decisions>>
vars == <<issueVars, rowVars, verified, episodeVars, ghVars, callVars, historyVars>>

DeveloperStage == {"developing", "repairing"}
Working == DeveloperStage \cup {"reviewing"}
Parked == {"needs_human", "final_review"}
Ended == {"done", "closed"}
Status == {"ready"} \cup Working \cup Parked \cup Ended

\* ISSUE_STATUS_TRANSITIONS
Transitions ==
  [s \in Status |->
    CASE s = "ready"        -> {"developing", "closed"}
      [] s = "developing"   -> {"developing", "reviewing", "needs_human", "closed"}
      [] s = "reviewing"    -> {"reviewing", "repairing", "final_review", "needs_human", "closed"}
      [] s = "repairing"    -> {"repairing", "reviewing", "needs_human", "closed"}
      [] s = "needs_human"  -> {"developing", "reviewing", "repairing", "final_review", "done", "closed"}
      [] s = "final_review" -> {"final_review", "done", "repairing", "needs_human", "closed"}
      [] OTHER              -> {}]

\* the last one is left to a person's lease push
Head == 0..(MaxHeads + 1)
Kind == {"developer", "reviewer"}
Item == [kind : Kind, state : {"pending", "leased"}, head : Head,
         publish : BOOLEAN, wait : {"none", "capped"}]
NoItem == [kind |-> "none", state |-> "none", head |-> 0,
           publish |-> FALSE, wait |-> "none"]

\* The flavours of a human action that resolve differently: a merge failure and
\* a diverged push are policy_escalations told apart by their evidence.
ActionType == {"final_review", "attempts_exhausted", "escalation", "merge_failure",
               "diverged", "scope", "operator"}
\* role, head and advance are the continuation preview a resume follows.
Action == [id : 1..4, type : ActionType, role : Kind, head : Head, advance : BOOLEAN]
NoAction == [id |-> 0, type |-> "none", role |-> "none", head |-> 0, advance |-> FALSE]

\* An await that is not in Windows is over before anything else happens.
Undisturbed ==
  /\ "push" \notin Windows => pushing = NoAction
  /\ "list" \notin Windows => ~listed

Init ==
  /\ status = "ready" /\ round = 1 /\ maxRounds = FirstMaxRounds
  /\ infra = 0 /\ ci = 0
  /\ autoMerge \in BOOLEAN
  /\ parked = FALSE /\ head = 0 /\ instance = "none"
  /\ item = NoItem /\ keys = {} /\ open = {}
  /\ verified = {}
  /\ conflictSpent = FALSE /\ syncSpent = FALSE
  /\ remote = 0 /\ ours = FALSE /\ pr = "none"
  /\ listed = FALSE /\ fin = "idle" /\ pushing = NoAction /\ scan = "idle"
  /\ approved = 0 /\ queued = 0 /\ decisions = 0

-----------------------------------------------------------------------------
(* The pieces every transaction is put together from                       *)

\* transitionIssue: throws on a transition the table does not have.
Transition(to) ==
  /\ to \in Transitions[status]
  /\ status' = to
  /\ parked' = FALSE

ParkForMerge ==
  /\ "final_review" \in Transitions[status]
  /\ status' = "final_review"
  /\ parked' = TRUE

Row(kind, h, publish) ==
  [kind |-> kind, state |-> "pending", head |-> h, publish |-> publish, wait |-> "none"]

\* enqueueWorkItem under a key no other row can have (it names the causative
\* item, the resolved action, or carries an ordinal).
EnqueueFresh(row) == item' = row /\ keys' = keys

\* enqueueWorkItem under a derived key: a key that already has a row creates
\* nothing, and that row is terminal.
EnqueueKeyed(key, row) ==
  /\ item' = IF key \in keys THEN NoItem ELSE row
  /\ keys' = keys \cup {key}

\* applyEffect's reviewer enqueue: a terminal duplicate gets the retry-of key.
DedupeReviewer(h) == EnqueueKeyed(<<"reviewer", round, h>>, Row("reviewer", h, FALSE))
EnqueueReviewer(h) ==
  IF <<"reviewer", round, h>> \in keys
  THEN EnqueueFresh(Row("reviewer", h, FALSE))
  ELSE EnqueueKeyed(<<"reviewer", round, h>>, Row("reviewer", h, FALSE))

\* An id no open action has, nor the one a lease push in flight refers to
FreshId == CHOOSE n \in 1..4 : \A a \in open \cup {pushing} : a.id # n
NewAction(type, role, h, advance) ==
  [id |-> FreshId, type |-> type, role |-> role, head |-> h, advance |-> advance]
Raise(type, role, h, advance) == open' = open \cup {NewAction(type, role, h, advance)}

AlwaysRemains == TRUE
InfraRemains == infra < MaxInfra
CiRemains == ci < MaxCi
RoundsRemain == round < maxRounds

\* incrementIssueInfraAttempts
Free(n) == n
Charged(n) == n + 1

\* What the loop may run of its own: each developer row but the retried ones is
\* followed by one review, and there is one per round, one conflict repair, one
\* base sync, and the wait for a sync whose push fell before the last decision.
AutonomyBound == 2 * (maxRounds + 3) + MaxInfra + MaxCi

\* An enqueue without a person (counted no further than one past the bound)
Automatic ==
  /\ queued' = IF queued > AutonomyBound THEN queued ELSE queued + 1
  /\ UNCHANGED <<approved, decisions>>

-----------------------------------------------------------------------------
(* Starting, claiming and putting back                                     *)

\* startWorkflowCore
StartWorkflow ==
  /\ status = "ready" /\ instance = "none"
  /\ Transition("developing")
  /\ instance' = "active"
  /\ EnqueueKeyed(<<"developer", 1, 0>>, Row("developer", 0, FALSE))
  /\ queued' = 1
  /\ UNCHANGED <<round, maxRounds, infra, ci, autoMerge, head, open, verified,
                 episodeVars, ghVars, callVars, approved, decisions>>

Lease ==
  /\ item.state = "pending"
  /\ item' = [item EXCEPT !.state = "leased", !.wait = "none"]
  /\ UNCHANGED <<issueVars, keys, open, verified, episodeVars, ghVars, callVars,
                 historyVars>>

\* A throwing handler below its attempt cap, a base fetch that failed
PutBack ==
  /\ item.state = "leased"
  /\ item' = [item EXCEPT !.state = "pending"]
  /\ UNCHANGED <<issueVars, keys, open, verified, episodeVars, ghVars, callVars,
                 historyVars>>

\* recoverCoordinator: a presumed-dead attempt goes back on the queue and is
\* charged to the issue's infra budget.
Reclaim ==
  /\ item.state = "leased"
  /\ InfraRemains
  /\ item' = [item EXCEPT !.state = "pending"]
  /\ infra' = Charged(infra)
  /\ UNCHANGED <<status, round, maxRounds, ci, autoMerge, parked, head, instance,
                 keys, open, verified, episodeVars, ghVars, callVars, historyVars>>

\* A usage cap or a deck outage (parkable), or CI still pending: the item
\* waits, and a CI wait comes back as a publish-only re-poll.
DeferWork(wait, publish) ==
  /\ item.state = "leased" /\ instance = "active"
  /\ publish => item.kind = "developer" /\ pr # "none" /\ wait = "none"
  /\ item' = [item EXCEPT !.state = "pending", !.wait = wait,
                          !.publish = @ \/ publish]
  /\ UNCHANGED <<issueVars, keys, open, verified, episodeVars, ghVars, callVars,
                 historyVars>>

\* The session pushes a commit of its own before it completes.
AgentPushes ==
  /\ item.kind = "developer" /\ item.state = "leased" /\ ~item.publish
  /\ remote < MaxHeads
  /\ remote' = remote + 1 /\ ours' = TRUE
  /\ UNCHANGED <<issueVars, rowVars, verified, episodeVars, pr, callVars, historyVars>>

\* The CI wait of a conflicting PR syncs the base into it, once per episode.
ChecksWaitSync ==
  /\ item.kind = "developer" /\ item.state = "leased" /\ pr = "open"
  /\ ~conflictSpent /\ ~syncSpent
  /\ remote < MaxHeads
  /\ remote' = remote + 1 /\ ours' = TRUE
  /\ syncSpent' = TRUE
  /\ UNCHANGED <<issueVars, rowVars, verified, conflictSpent, pr, callVars, historyVars>>

-----------------------------------------------------------------------------
(* applyCompletion of a leased item, and the same routing for a dead one   *)

Completes(kind) ==
  /\ item.kind = kind /\ item.state = "leased"
  /\ instance = "active"

\* projectDeveloperRoute keeps a retried repair in repairing.
AlwaysDeveloping == "developing"
RetryStage == IF status = "repairing" THEN "repairing" ELSE "developing"

\* clean_handoff: the verified head becomes the issue's, and is reviewed.
DeveloperHandsOff ==
  /\ Completes("developer")
  /\ remote # 0
  /\ Transition("reviewing")
  /\ head' = remote
  /\ pr' = IF pr = "none" THEN "open" ELSE pr
  /\ EnqueueReviewer(remote)
  /\ Automatic
  /\ UNCHANGED <<round, maxRounds, infra, ci, autoMerge, instance, open, verified,
                 episodeVars, remote, ours, callVars>>

\* retry_developer and retry_publish on the infra budget
DeveloperRetries(publish) ==
  /\ Completes("developer")
  /\ InfraRemains
  /\ publish => remote # 0
  /\ Transition(RetryStage)
  /\ infra' = Charged(infra)
  /\ EnqueueFresh(Row("developer", 0, publish))
  /\ Automatic
  /\ UNCHANGED <<round, maxRounds, ci, autoMerge, head, instance, open, verified,
                 episodeVars, ghVars, callVars>>

\* checks_failed: a CI repair on its own budget
DeveloperRepairsCi ==
  /\ Completes("developer")
  /\ pr # "none"
  /\ CiRemains
  /\ Transition(RetryStage)
  /\ ci' = ci + 1
  /\ EnqueueFresh(Row("developer", 0, FALSE))
  /\ Automatic
  /\ UNCHANGED <<round, maxRounds, infra, autoMerge, head, instance, open, verified,
                 episodeVars, ghVars, callVars>>

\* Every other developer outcome, an exhausted budget, a wait past its ceiling:
\* a policy_escalation, of a diverged push or of anything else.
DeveloperEscalates(type) ==
  /\ Completes("developer")
  /\ type = "diverged" => remote # 0
  /\ Transition("needs_human")
  /\ Raise(type, "developer", 0, FALSE)
  /\ item' = NoItem
  /\ UNCHANGED <<round, maxRounds, infra, ci, autoMerge, head, instance, keys,
                 verified, episodeVars, ghVars, callVars, historyVars>>

\* auto_merge.conflict_repair_queued marks the episode's round as spent.
ForgetRepair(b) == b
SpendRepair(b) == TRUE

\* queueConflictRepairRound: a round of its own, from the developer stage
\* (which it keeps) or from a park.
QueueConflictRepair ==
  /\ ~conflictSpent
  /\ Transition(IF status \in DeveloperStage THEN status ELSE "repairing")
  /\ round' = round + 1
  /\ conflictSpent' = SpendRepair(conflictSpent)
  /\ EnqueueFresh(Row("developer", 0, FALSE))
  /\ Automatic
  /\ UNCHANGED <<maxRounds, infra, ci, autoMerge, head, instance, syncSpent>>

\* base_conflict, and checks_conflicting that needs a repair
DeveloperMeetsConflict ==
  /\ Completes("developer")
  /\ QueueConflictRepair
  /\ UNCHANGED <<open, verified, ghVars, callVars>>

-----------------------------------------------------------------------------
\* An approving verdict parks for the merge, or asks for a final review.
ReviewerApproves ==
  /\ Completes("reviewer")
  /\ item' = NoItem
  /\ approved' = item.head
  /\ IF autoMerge
     THEN ParkForMerge /\ open' = open
     ELSE Transition("final_review") /\ Raise("final_review", "developer", 0, FALSE)
  /\ UNCHANGED <<round, maxRounds, infra, ci, autoMerge, head, instance, keys,
                 verified, episodeVars, ghVars, callVars, queued, decisions>>

ReviewerRequestsChanges ==
  /\ Completes("reviewer")
  /\ RoundsRemain
  /\ Transition("repairing")
  /\ round' = round + 1
  /\ EnqueueKeyed(<<"developer", round + 1, 0>>, Row("developer", 0, FALSE))
  /\ Automatic
  /\ UNCHANGED <<maxRounds, infra, ci, autoMerge, head, instance, open, verified,
                 episodeVars, ghVars, callVars>>

\* A verdict that goes to a person: the rounds are used up, the repair loop does
\* not converge (resuming it spends the round it stopped), a scope question.
ReviewerAsks(type, advance) ==
  /\ Completes("reviewer")
  /\ type = "attempts_exhausted" => ~RoundsRemain
  /\ type = "escalation" => RoundsRemain
  /\ advance <=> type = "escalation"
  /\ Transition("needs_human")
  /\ Raise(type, "developer", 0, advance)
  /\ item' = NoItem
  /\ UNCHANGED <<round, maxRounds, infra, ci, autoMerge, head, instance, keys,
                 verified, episodeVars, ghVars, callVars, historyVars>>

\* No verdict: the head moved (stale, recorded on the issue whatever follows),
\* or the session or its publication failed at the pinned head.
KeepHead(h) == head
ObservedHead(h) == h

ReviewerRetries(h) ==
  /\ Completes("reviewer")
  /\ InfraRemains
  /\ Transition("reviewing")
  /\ infra' = Charged(infra)
  /\ head' = ObservedHead(h)
  /\ EnqueueFresh(Row("reviewer", h, FALSE))
  /\ Automatic
  /\ UNCHANGED <<round, maxRounds, ci, autoMerge, instance, open, verified,
                 episodeVars, ghVars, callVars>>

\* The infra budget is used up, or the runtime needs a login: the escalation
\* resumes as a reviewer.  A cap past its ceiling resumes as a developer.
ReviewerEscalates(h, role) ==
  /\ Completes("reviewer")
  /\ Transition("needs_human")
  /\ head' = ObservedHead(h)
  /\ open' = open \cup {NewAction("escalation", role, IF role = "reviewer" THEN h ELSE 0, FALSE)}
  /\ item' = NoItem
  /\ UNCHANGED <<round, maxRounds, infra, ci, autoMerge, instance, keys,
                 verified, episodeVars, ghVars, callVars, historyVars>>

-----------------------------------------------------------------------------
(* resolveHumanActionAndAdvance                                            *)

Decides(a) ==
  /\ a \in open /\ instance = "active"
  /\ decisions < MaxDecisions
  /\ decisions' = decisions + 1

\* human_action.resolved starts a fresh conflict episode.
NewEpisode == conflictSpent' = FALSE /\ syncSpent' = FALSE

\* final_review, merge failure and operator_verification: repair
ResolveRepair(a) ==
  /\ a.type \in {"final_review", "merge_failure", "operator"}
  /\ Decides(a) /\ NewEpisode
  /\ item = NoItem
  /\ Transition("repairing")
  /\ round' = round + 1
  /\ open' = open \ {a}
  /\ EnqueueFresh(Row("developer", 0, FALSE))
  /\ queued' = 1
  /\ UNCHANGED <<maxRounds, infra, ci, autoMerge, head, instance, verified, ghVars,
                 callVars, approved>>

\* attempts_exhausted: retry (grantReviewRetry)
ResolveRetry(a) ==
  /\ a.type = "attempts_exhausted"
  /\ Decides(a) /\ NewEpisode
  /\ item = NoItem
  /\ Transition("repairing")
  /\ round' = round + 1 /\ maxRounds' = maxRounds + 1
  /\ open' = open \ {a}
  /\ EnqueueFresh(Row("developer", 0, FALSE))
  /\ queued' = 1
  /\ UNCHANGED <<infra, ci, autoMerge, head, instance, verified, ghVars, callVars,
                 approved>>

\* resume.  A reviewer resumes at the pinned head h, or at the PR's live head,
\* which the issue is then re-pinned to.
ResolveResume(a, h) ==
  /\ a.type \in {"escalation", "diverged", "scope"}
  /\ Decides(a) /\ NewEpisode
  /\ item = NoItem
  /\ IF a.role = "reviewer"
     THEN /\ h \in {a.head, remote}
          /\ Transition("reviewing")
          /\ head' = IF h = a.head THEN head ELSE h
          /\ EnqueueFresh(Row("reviewer", h, FALSE))
     ELSE /\ h = a.head
          /\ Transition("developing")
          /\ head' = head
          /\ EnqueueFresh(Row("developer", 0, FALSE))
  /\ round' = IF a.advance THEN round + 1 ELSE round
  /\ infra' = IF a.type = "scope" THEN infra ELSE 0
  /\ ci' = IF a.type = "scope" THEN ci ELSE 0
  /\ open' = open \ {a}
  /\ queued' = 1
  /\ UNCHANGED <<maxRounds, autoMerge, instance, verified, ghVars, callVars, approved>>

\* final_review: merge, merge failure: retry_merge, operator_verification:
\* verified and waive (which put the issue's head on record)
ResolveMerge(a) ==
  /\ a.type \in {"final_review", "merge_failure", "operator"}
  /\ Decides(a) /\ NewEpisode
  /\ ParkForMerge
  /\ verified' = IF a.type = "operator" THEN verified \cup {head} ELSE verified
  /\ open' = open \ {a}
  /\ queued' = 0
  /\ UNCHANGED <<round, maxRounds, infra, ci, autoMerge, head, instance, item, keys,
                 ghVars, callVars, approved>>

\* A close lands on done when the PR is known to be merged already.
Landing == {"closed"} \cup (IF pr = "merged" /\ "done" \in Transitions[status]
                            THEN {"done"} ELSE {})

ResolveClose(a, to) ==
  /\ a \in open /\ instance = "active"
  /\ a.type \notin {"scope", "operator"}
  /\ to \in Landing
  /\ Transition(to)
  /\ instance' = to
  /\ open' = open \ {a}
  /\ NewEpisode
  /\ UNCHANGED <<round, maxRounds, infra, ci, autoMerge, head, item, keys, verified,
                 ghVars, callVars, historyVars>>

-----------------------------------------------------------------------------
(* resolvePushWithLeaseAsync: the push is awaited, then the action resolved *)

PushStarts(a) ==
  /\ a.type = "diverged"
  /\ Decides(a)
  /\ pushing = NoAction
  /\ pushing' = a
  /\ UNCHANGED <<issueVars, rowVars, verified, episodeVars, ghVars, listed, fin, scan,
                 approved, queued>>

\* resolveHumanAction does not object to an action resolved in the meantime.
\* The transaction throws if the issue cannot go to developing from where it is
\* now, or already has an active row: then only the push has happened.
PushLands ==
  /\ pushing # NoAction /\ remote <= MaxHeads
  /\ pushing' = NoAction
  /\ remote' = remote + 1
  /\ IF "developing" \in Transitions[status] /\ item = NoItem
     THEN /\ Transition("developing")
          /\ open' = open \ {pushing}
          /\ EnqueueFresh(Row("developer", 0, TRUE))
          /\ NewEpisode
          /\ ours' = TRUE
          /\ queued' = 1
     ELSE /\ ours' = FALSE
          /\ UNCHANGED <<status, parked, rowVars, episodeVars, queued>>
  /\ UNCHANGED <<round, maxRounds, infra, ci, autoMerge, head, instance, verified,
                 pr, listed, fin, scan, approved, decisions>>

PushFails ==
  /\ pushing # NoAction
  /\ pushing' = NoAction
  /\ UNCHANGED <<issueVars, rowVars, verified, episodeVars, ghVars, listed, fin, scan,
                 historyVars>>

-----------------------------------------------------------------------------
(* auto-merge.ts: finalizeAutoMerge of a park, alone in this process       *)

\* listStrandedAutoMerges
StrandedByPolicy == parked /\ autoMerge /\ fin = "idle"
Stranded == parked /\ fin = "idle"

\* recoverStrandedAutoMerges lists once, then works through the list.
ListStranded ==
  /\ Stranded /\ ~listed
  /\ listed' = TRUE
  /\ UNCHANGED <<issueVars, rowVars, verified, episodeVars, ghVars, fin, pushing,
                 scan, historyVars>>

\* hasOperatorVerificationForHead, for the head the issue records
GateAsksOnce == NeedsOperator /\ verified = {}
GateBlocks == NeedsOperator /\ head \notin verified

\* The call that follows the park, and the one the pass gets to later: neither
\* asks whether the issue is still parked.
Finalizes ==
  /\ \/ Undisturbed /\ Stranded /\ listed' = listed
     \/ listed /\ listed' = FALSE
  /\ fin = "idle" /\ instance = "active"

FinalizeStarts ==
  /\ Finalizes
  /\ ~GateBlocks
  /\ fin' = "merging"
  /\ UNCHANGED <<issueVars, rowVars, verified, episodeVars, ghVars, pushing, scan,
                 historyVars>>

\* gateOperatorVerification
GateParks ==
  /\ Finalizes
  /\ GateBlocks /\ status = "final_review"
  /\ Transition("needs_human")
  /\ Raise("operator", "developer", head, FALSE)
  /\ UNCHANGED <<round, maxRounds, infra, ci, autoMerge, head, instance, item, keys,
                 verified, episodeVars, ghVars, fin, pushing, scan, historyVars>>

\* Listed, but no longer the pass's to finalize: the workflow ended, another
\* caller is finalizing it, or the gate declines an issue that left the park.
PassSkips ==
  /\ listed
  /\ \/ instance # "active"
     \/ fin # "idle"
     \/ GateBlocks /\ status # "final_review"
  /\ listed' = FALSE
  /\ UNCHANGED <<issueVars, rowVars, verified, episodeVars, ghVars, fin, pushing,
                 scan, historyVars>>

\* gh merged the pull request, or found it merged; the answer is on its way.
GhMerges ==
  /\ fin \in {"merging", "retrying"}
  /\ pr' = "merged" /\ fin' = "merged"
  /\ UNCHANGED <<issueVars, rowVars, verified, episodeVars, remote, ours, listed,
                 pushing, scan, historyVars>>

\* The success transaction: nothing for a workflow that ended meanwhile; from
\* needs_human it dismisses the open policy_escalation.
FinalizeLands ==
  /\ fin = "merged"
  /\ fin' = "idle"
  /\ IF instance = "active" /\ "done" \in Transitions[status]
     THEN /\ Transition("done")
          /\ instance' = "done"
          /\ open' = IF status = "needs_human"
                     THEN {a \in open : a.type \notin {"escalation", "merge_failure",
                                                       "diverged"}}
                     ELSE open
     ELSE UNCHANGED <<status, parked, instance, open>>
  /\ UNCHANGED <<round, maxRounds, infra, ci, autoMerge, head, item, keys, verified,
                 episodeVars, ghVars, listed, pushing, scan, historyVars>>

\* escalateMergeFailure, for every failure of the merge, the base sync, the
\* checks on the synced head, and a conflict whose repair round is spent
MergeFails ==
  /\ fin \in {"merging", "syncing", "retrying"}
  /\ fin' = "idle"
  /\ IF status = "final_review"
     THEN Transition("needs_human") /\ Raise("merge_failure", "developer", 0, FALSE)
     ELSE UNCHANGED <<status, parked, open>>
  /\ UNCHANGED <<round, maxRounds, infra, ci, autoMerge, head, instance, item, keys,
                 verified, episodeVars, ghVars, listed, pushing, scan, historyVars>>

\* Not mergeable, and this episode's repair round is not spent: sync the base.
MergeConflicts ==
  /\ fin = "merging" /\ pr = "open"
  /\ ~conflictSpent
  /\ fin' = "syncing"
  /\ UNCHANGED <<issueVars, rowVars, verified, episodeVars, ghVars, listed, pushing,
                 scan, historyVars>>

\* The base merged cleanly, its push moved the branch or had nothing to add, and
\* the checks passed.  The merge entry's sync is not on record as a Dealer push.
SyncPushes(moves) ==
  /\ fin = "syncing"
  /\ moves => remote < MaxHeads
  /\ remote' = IF moves THEN remote + 1 ELSE remote
  /\ ours' = (ours /\ ~moves)
  /\ fin' = "retrying"
  /\ UNCHANGED <<issueVars, rowVars, verified, episodeVars, pr, listed, pushing, scan,
                 historyVars>>

\* A textual conflict, or a base that moved again before the retry: one repair
\* round, from the park only.
MergeNeedsRepair ==
  /\ fin \in {"syncing", "retrying"} /\ pr = "open"
  /\ fin' = "idle"
  /\ status = "final_review" /\ instance = "active" /\ item = NoItem
  /\ QueueConflictRepair
  /\ UNCHANGED <<open, verified, ghVars, listed, pushing, scan>>

-----------------------------------------------------------------------------
(* base-advanced-scan.ts: another issue's merge moved the base             *)

\* siblingIdle and activeReason
SiblingIdle == item.state # "leased" /\ fin = "idle"

ScanOpen ==
  /\ instance = "active" /\ pr # "none"
  /\ status \in Working \cup Parked
  /\ SiblingIdle

\* supersedeParkedStep: dismissals that do not start a new episode
Supersede == open' = {}

\* A clean sync of an idle, conflicting, untouched branch: guard and push.
ScanPushes ==
  /\ scan = "idle" /\ ScanOpen
  /\ ours /\ ~conflictSpent /\ ~syncSpent
  /\ remote < MaxHeads
  /\ remote' = remote + 1
  /\ syncSpent' = TRUE
  /\ scan' = "pushed"
  /\ UNCHANGED <<issueVars, rowVars, verified, conflictSpent, ours, pr, listed, fin,
                 pushing, historyVars>>

\* queueChecksWaitAfterBaseSync: keeps an agent round that has not started, and
\* else supersedes the parked step by a publish-only wait.  An issue that became
\* busy in the meantime is left to its worker.
ScanQueues ==
  /\ scan = "pushed"
  /\ scan' = "idle"
  /\ IF ScanOpen /\ ~(item.kind = "developer" /\ ~item.publish)
     THEN /\ Transition(IF status \in DeveloperStage THEN status ELSE "repairing")
          /\ Supersede
          /\ EnqueueFresh(Row("developer", 0, TRUE))
          /\ Automatic
     ELSE UNCHANGED <<status, parked, rowVars, historyVars>>
  /\ UNCHANGED <<round, maxRounds, infra, ci, autoMerge, head, instance, verified,
                 episodeVars, ghVars, listed, fin, pushing>>

\* A textual conflict, or a sync already spent: one repair round.
ScanRepairs ==
  /\ scan = "idle" /\ ScanOpen /\ ours
  /\ Supersede
  /\ QueueConflictRepair
  /\ UNCHANGED <<verified, ghVars, callVars>>

-----------------------------------------------------------------------------
(* The operator's other commands, GitHub, and a crash                      *)

\* parkCapWait: a wait on a cap or an outage goes to a person, who resumes the
\* role that was waiting.
ParkCapWait ==
  /\ instance = "active"
  /\ item.state = "pending" /\ item.wait = "capped"
  /\ Transition("needs_human")
  /\ IF item.kind = "reviewer" /\ head # 0
     THEN Raise("escalation", "reviewer", head, FALSE)
     ELSE Raise("escalation", "developer", 0, FALSE)
  /\ item' = NoItem
  /\ UNCHANGED <<round, maxRounds, infra, ci, autoMerge, head, instance, keys,
                 verified, episodeVars, ghVars, callVars, historyVars>>

\* applyAutoMergePolicyUpdate, where autoMergePolicyEditability allows it
ToggleAutoMerge ==
  /\ \/ status = "ready"
     \/ status \in Working /\ instance = "active"
     \/ /\ status = "needs_human"
        /\ \A a \in open : a.type \notin {"operator", "merge_failure"}
  /\ autoMerge' = ~autoMerge
  /\ UNCHANGED <<status, round, maxRounds, infra, ci, parked, head, instance, rowVars,
                 verified, episodeVars, ghVars, callVars, historyVars>>

\* abortIssue cancels the pending and the leased row alike; the lease token then
\* fences the attempt's late answer (WorkerLoop).
AbortIssue(to) ==
  /\ status \notin Ended
  /\ to \in Landing
  /\ Transition(to)
  /\ item' = NoItem
  /\ open' = {}
  /\ instance' = IF instance = "active" THEN to ELSE instance
  /\ UNCHANGED <<round, maxRounds, infra, ci, autoMerge, head, keys, verified,
                 episodeVars, ghVars, callVars, historyVars>>

CloseReadyIssue ==
  /\ status = "ready" /\ instance = "none" /\ item = NoItem
  /\ Transition("closed")
  /\ open' = {}
  /\ UNCHANGED <<round, maxRounds, infra, ci, autoMerge, head, instance, item, keys,
                 verified, episodeVars, ghVars, callVars, historyVars>>

\* Every await of the process is forgotten.
Crash ==
  /\ callVars # <<FALSE, "idle", NoAction, "idle">>
  /\ listed' = FALSE /\ fin' = "idle" /\ pushing' = NoAction /\ scan' = "idle"
  /\ UNCHANGED <<issueVars, rowVars, verified, episodeVars, ghVars, historyVars>>

\* A person pushes to the branch, or merges the pull request, on GitHub.
OperatorPushes ==
  /\ pr = "open" /\ remote < MaxHeads
  /\ remote' = remote + 1 /\ ours' = FALSE
  /\ UNCHANGED <<issueVars, rowVars, verified, episodeVars, pr, callVars, historyVars>>

OperatorMerges ==
  /\ pr = "open"
  /\ pr' = "merged"
  /\ UNCHANGED <<issueVars, rowVars, verified, episodeVars, remote, ours, callVars,
                 historyVars>>

-----------------------------------------------------------------------------
PushAnswers == PushLands \/ PushFails
Answers == GhMerges \/ MergeFails \/ MergeConflicts
           \/ (\E moves \in BOOLEAN : SyncPushes(moves)) \/ MergeNeedsRepair
FinalizeOrGate == FinalizeStarts \/ GateParks

DeveloperAnswers ==
  \/ DeveloperHandsOff \/ DeveloperRepairsCi \/ DeveloperMeetsConflict
  \/ \E publish \in BOOLEAN : DeveloperRetries(publish)
  \/ \E type \in {"escalation", "diverged"} : DeveloperEscalates(type)
ReviewerAnswers ==
  \/ ReviewerApproves \/ ReviewerRequestsChanges
  \/ \E type \in {"attempts_exhausted", "escalation", "scope"}, advance \in BOOLEAN :
       ReviewerAsks(type, advance)
  \/ \E h \in {item.head, remote} :
       \/ ReviewerRetries(h)
       \/ \E role \in Kind : ReviewerEscalates(h, role)
Routed == DeveloperAnswers \/ ReviewerAnswers

WorkSteps ==
  \/ StartWorkflow \/ Lease \/ PutBack \/ Reclaim \/ AgentPushes \/ ChecksWaitSync
  \/ \E wait \in {"none", "capped"}, publish \in BOOLEAN : DeferWork(wait, publish)
  \/ Routed
Decisions ==
  \E a \in open :
    \/ ResolveRepair(a) \/ ResolveRetry(a) \/ ResolveMerge(a) \/ PushStarts(a)
    \/ \E h \in {a.head, remote} : ResolveResume(a, h)
    \/ \E to \in Ended : ResolveClose(a, to)
Background ==
  \/ ListStranded \/ Answers \/ FinalizeLands
  \/ ScanPushes \/ ScanQueues \/ ScanRepairs
  \/ ParkCapWait \/ ToggleAutoMerge \/ CloseReadyIssue
  \/ \E to \in Ended : AbortIssue(to)
  \/ OperatorPushes \/ OperatorMerges

Next ==
  \/ PushAnswers
  \/ FinalizeOrGate \/ PassSkips
  \/ Crash
  \/ Undisturbed /\ (WorkSteps \/ Decisions \/ Background)

Spec == Init /\ [][Next]_vars

\* The poll loop claims what is pending.  Put-backs, deferrals and reclaims of an
\* item are capped (WorkerLoop), so a claim that is repeated is answered at last.
\* The tick finalizes what is parked, again and again through crashes, and gh
\* answers every call with success or an error.
Fairness ==
  /\ WF_vars(Undisturbed /\ Lease)
  /\ SF_vars(Undisturbed /\ Routed)
  /\ SF_vars(FinalizeOrGate)
  /\ SF_vars(Undisturbed /\ (GhMerges \/ MergeFails))
  /\ SF_vars(Undisturbed /\ FinalizeLands)
  /\ WF_vars(PushAnswers) /\ WF_vars(PassSkips)
FairSpec == Spec /\ Fairness

-----------------------------------------------------------------------------
(* Properties                                                              *)

IssueTypeOK ==
  /\ status \in Status
  /\ round \in Nat \ {0} /\ maxRounds \in Nat \ {0}
  /\ infra \in 0..MaxInfra /\ ci \in 0..MaxCi
  /\ autoMerge \in BOOLEAN /\ parked \in BOOLEAN
  /\ head \in Head
  /\ instance \in {"none", "active"} \cup Ended
  /\ item \in Item \cup {NoItem}
  /\ keys \subseteq Kind \X (Nat \ {0}) \X Head
  /\ open \subseteq Action
EpisodeTypeOK ==
  /\ verified \subseteq Head
  /\ conflictSpent \in BOOLEAN /\ syncSpent \in BOOLEAN
  /\ remote \in Head /\ ours \in BOOLEAN /\ pr \in {"none", "open", "merged"}
  /\ listed \in BOOLEAN
  /\ fin \in {"idle", "merging", "syncing", "retrying", "merged"}
  /\ pushing \in Action \cup {NoAction}
  /\ scan \in {"idle", "pushed"}
  /\ approved \in Head
  /\ queued \in Nat /\ decisions \in 0..MaxDecisions

\* The value of every column, with the budgets the routing enforces: no path
\* charges an issue more infra or CI attempts than it has.
TypeOK == IssueTypeOK /\ EpisodeTypeOK

\* Whatever raced with whatever, an issue has exactly one thing that moves it on:
\* a work item of the kind its stage runs, one open human action, or the merge
\* park, and none once it has ended (projection.ts, applyEffect, supersede, abort).
WorkHasItsItem ==
  status \in Working =>
    /\ item.kind = (IF status = "reviewing" THEN "reviewer" ELSE "developer")
    /\ open = {}
PersonIsAsked ==
  status = "needs_human" => item = NoItem /\ \E a \in open : open = {a}
ReviewedIsParkedOrAsked ==
  status = "final_review" =>
    /\ item = NoItem
    /\ IF parked THEN open = {} ELSE \E a \in open : open = {a} /\ a.type = "final_review"
RestIsQuiet ==
  status \notin Working \cup Parked =>
    item = NoItem /\ open = {} /\ instance \in {"none", status}
ExactlyOneNextEffect ==
  /\ WorkHasItsItem /\ PersonIsAsked /\ ReviewedIsParkedOrAsked /\ RestIsQuiet
  /\ parked => status = "final_review"
  /\ status \in Working \cup Parked <=> instance = "active"

\* No completion of a leased item is ever refused by the status table: the
\* transaction would roll back with the answer lost and the item stuck.
RouteTargets ==
  IF item.kind = "developer"
  THEN {"reviewing", "needs_human", RetryStage, IF status \in DeveloperStage THEN status
                                                ELSE "repairing"}
  ELSE {"final_review", "repairing", "needs_human", "reviewing"}
RoutingNeverRefused ==
  item.state = "leased" /\ instance = "active" => RouteTargets \subseteq Transitions[status]

\* The head a reviewer is pinned to, the head a verdict approved and the head an
\* escalated review resumes at are the head the issue records, across stale
\* verdicts, base syncs, operator pushes and resumes.
ReviewIsPinned ==
  /\ item.kind = "reviewer" => item.head = head
  /\ status = "final_review" => approved = head
  /\ \A a \in open : a.role = "reviewer" => a.head = head

\* Between two decisions of a person the loop enqueues a bounded number of rows,
\* whatever fails, conflicts or is pushed meanwhile.
AutonomyBounded == queued <= AutonomyBound

\* The finalizer calls gh only for the head an approving verdict was for, parked
\* for the merge, with an operator result on record if one is needed.
MergeIsCleared ==
  [][fin = "idle" /\ fin' = "merging" =>
       /\ status = "final_review" /\ approved = head
       /\ NeedsOperator => head \in verified]_vars

\* A merge park ends: merged, escalated, gated, repaired or aborted, through any
\* number of crashes and whatever the auto-merge policy says.
MergeParkSettles == parked ~> ~parked

\* Autonomous work ends at a person or at the merge park.
WorkReachesAPerson == (status \in Working) ~> (status \notin Working)

-----------------------------------------------------------------------------
(* What the sources say, and the code does not keep                        *)

\* commands.ts: a lease push resolves the action it was chosen for, and throws
\* when the action "already resolved".
WorkHasNoOpenAction == status \in Working => open = {}

\* auto-merge.ts: the finalizer "completes an auto-merge parked in final_review".
OnlyParkedIsMerged ==
  [][pr = "open" /\ fin = "merging" /\ fin' = "merged" => parked \/ status \in Ended]_vars

\* workflow.ts: "The gate re-blocks when the head moves past the waived SHA."
MovedHeadIsGatedAgain ==
  [][pr = "open" /\ fin = "retrying" /\ fin' = "merged" =>
       (NeedsOperator => remote \in verified)]_vars
==================
