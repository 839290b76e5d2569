--------------------------- MODULE DeveloperEffect ---------------------------
(***************************************************************************)
(* coordinator/developer-effect.ts over adapters/git-worktree.ts: the      *)
(* developer attempts of one issue, one after the other (a lease admits    *)
(* one effect at a time, WorkerLoop), through checkout, agent, salvage,    *)
(* first-push probe, push, PR and CI, and the publish-only attempt.        *)
(* A ref is the set of commits it adds to the base branch, so it is a      *)
(* fast-forward of another when it is a superset of it; a ref that adds    *)
(* none stands for a missing one too.  Commits of one patch are equivalent *)
(* in the sense of git cherry.  Others push, CI answers, the server        *)
(* crashes and agents outlive it at any time.                              *)
(***************************************************************************)
EXTENDS Integers, FiniteSets

CONSTANTS
  MaxAttempts,  \* bound on the attempts explored
  AgentPatch,   \* the changes agents may make
  OthersPatch   \* a change of somebody else

ASSUME DevAssumption ==
  /\ MaxAttempts \in Nat \ {0}
  /\ OthersPatch \notin AgentPatch

VARIABLES
  origin,     \* the issue branch on GitHub
  tracked,    \* refs/remotes/origin/<branch> of the managed clone
  issueRef,   \* refs/heads/<branch> of the managed clone
  trees,      \* [Attempts -> the worktree at the path named after its session]
  fresh,      \* patches nobody has made
  agentIn,    \* [Attempts -> worktree_path of the session while the process
              \* of its agent is alive, then 0]
  known,      \* [Attempts -> what this server knows of that agent: its own
              \* child; of a former server; or of one, and taken for dead by
              \* an owner check that gave its checkout on]
  attempt,    \* the attempt of the effect
  devAt,      \* where the effect stands
  publishOnly,\* the payload's flag, of this attempt or of the next one
  workTree,   \* the worktree of the attempt, 0 for none
  exit,       \* how the agent's session ended
  pinned,     \* localHead or remoteHead: the head the PR is held to
  evidence,   \* local and remote tip of a refused push
  prHead,     \* the PR's head as GitHub reports it
  ciSeen,     \* the head the poll looked at, and what it concluded
  handedOff   \* issue.headSha: the last head handed off

gitVars == <<origin, tracked, issueRef, trees, fresh>>
prVars == <<prHead, ciSeen, handedOff>>
devVars == <<origin, tracked, issueRef, trees, fresh, agentIn, known, attempt,
             devAt, publishOnly, workTree, exit, pinned, evidence, prHead, ciSeen,
             handedOff>>

Attempts == 1..MaxAttempts
Patch == AgentPatch \cup {OthersPatch}
Commit == [patch : Patch, text : {"first", "again"}]
Heads == SUBSET Commit
Patches(h) == {c.patch : c \in h}
Committed(ps) == [patch : ps, text : {"first"}]

DevPlaces == {"idle", "resolve", "ready", "running", "exited", "settled",
              "probe", "push", "lease", "pushed", "pr", "identity", "checks",
              "polled"}
NoFacts == [local |-> {}, remote |-> {}]
NoTree == [on |-> "gone", head |-> {}, edits |-> {}]

DevTypeOK ==
  /\ origin \in Heads /\ tracked \in Heads /\ issueRef \in Heads
  /\ trees \in [Attempts -> [on : {"gone", "branch", "side"}, head : Heads,
                             edits : SUBSET Patch]]
  /\ fresh \in SUBSET Patch
  /\ agentIn \in [Attempts -> 0..MaxAttempts]
  /\ known \in [Attempts -> {"child", "former", "missed"}]
  /\ attempt \in 0..MaxAttempts
  /\ devAt \in DevPlaces
  /\ publishOnly \in BOOLEAN
  /\ workTree \in 0..MaxAttempts
  /\ exit \in {"ok", "failed"}
  /\ pinned \in Heads
  /\ evidence \in [local : Heads, remote : Heads]
  /\ prHead \in Heads
  /\ ciSeen \in [head : Heads, says : {"success", "failure", "waiting"}]
  /\ handedOff \in Heads

DevInit ==
  /\ origin = {} /\ tracked = {} /\ issueRef = {}
  /\ trees = [t \in Attempts |-> NoTree]
  /\ fresh = Patch
  /\ agentIn = [k \in Attempts |-> 0]
  /\ known = [k \in Attempts |-> "child"]
  /\ attempt = 0 /\ devAt = "idle" /\ publishOnly = FALSE
  /\ workTree = 0 /\ exit = "ok" /\ pinned = {}
  /\ evidence = NoFacts
  /\ prHead = {}
  /\ ciSeen = [head |-> {}, says |-> "waiting"]
  /\ handedOff = {}

-----------------------------------------------------------------------------
HeadOf(t) == IF trees[t].on = "branch" THEN issueRef ELSE trees[t].head
Clean(t) == trees[t].edits = {}

\* findWorktreeForBranch: git lets one worktree at most hold the branch
Leftover == {t \in Attempts : trees[t].on = "branch"}

\* the sessions owning worktree t: the one it is named after, and every one
\* that recorded its path
NamedAfter(t) == {k \in Attempts : k = t}
Owners(t) == {k \in Attempts : k = t \/ agentIn[k] = t}

\* checkDeveloperWorktreeOwnerLiveness: a living child of this server reads
\* alive, that of a former one alive or unknown (no start time, no ps), which
\* for a session that is over counts as dead.  (A recycled pid taken for the
\* owner refuses, and that returns as every refusal does.)
Living(t) == {k \in Owners(t) : agentIn[k] # 0}
LooksLive(t) == Living(t) # {}
LooksDead(t) == \A k \in Living(t) : known[k] # "child"

\* the effect returns an outcome; what the kernel makes of it comes down to
\* whether another attempt follows, with an agent or publish-only
Returns(again) ==
  /\ devAt' = "idle"
  /\ publishOnly' = again
  /\ workTree' = 0 /\ exit' = "ok" /\ pinned' = {}
  /\ ciSeen' = [head |-> {}, says |-> "waiting"]

GoesTo(place) == devAt' = place /\ UNCHANGED <<publishOnly, workTree, exit, pinned, ciSeen>>

\* safeRemoveWorktree as bestEffortRemove calls it; the removal itself may fail
Removable(t) == Clean(t)
BestEffortRemove(t) ==
  \/ UNCHANGED trees
  \/ Removable(t) /\ trees' = [trees EXCEPT ![t] = NoTree]

\* fastForwardLocalBranchToSha
FastForwards(ref, head) == ref \subseteq head
ResetIssueRef(head) == issueRef' = head
FastForwardIssueRef(head) ==
  issueRef' = IF FastForwards(issueRef, head) THEN head ELSE issueRef

\* salvageDirtyWorktree: add -A and commit, on whatever HEAD is
SalvageCommit(t) ==
  LET saved == Committed(trees[t].edits) IN
  IF trees[t].on = "branch"
  THEN /\ issueRef' = issueRef \cup saved
       /\ trees' = [trees EXCEPT ![t].edits = {}]
  ELSE /\ trees' = [trees EXCEPT ![t].edits = {}, ![t].head = @ \cup saved]
       /\ UNCHANGED issueRef

-----------------------------------------------------------------------------
(* Checkout *)

\* a worktree whose HEAD is elsewhere is not found again: it is dropped here
BeginAttempt ==
  /\ devAt = "idle" /\ attempt < MaxAttempts
  /\ attempt' = attempt + 1
  /\ evidence' = NoFacts
  /\ trees' = [t \in Attempts |-> IF trees[t].on = "side" THEN NoTree ELSE trees[t]]
  /\ GoesTo("resolve")
  /\ UNCHANGED <<origin, tracked, issueRef, fresh, agentIn, known, prHead, handedOff>>

\* live_owner: neither adopted nor a conflict
RefuseLiveOwner ==
  /\ devAt = "resolve" /\ ~publishOnly
  /\ \E t \in Leftover : LooksLive(t)
  /\ Returns(FALSE)
  /\ UNCHANGED <<gitVars, agentIn, known, attempt, evidence, prHead, handedOff>>

\* a dead predecessor's edits become a commit; when that fails the checkout is
\* restored and a person decides (worktree_conflict)
SalvagePredecessor ==
  /\ devAt = "resolve" /\ ~publishOnly
  /\ \E t \in Leftover :
       /\ LooksDead(t) /\ ~Clean(t)
       /\ \/ /\ SalvageCommit(t)
             /\ GoesTo("resolve")
          \/ /\ Returns(FALSE)
             /\ UNCHANGED <<trees, issueRef>>
  /\ UNCHANGED <<origin, tracked, fresh, agentIn, known, attempt, evidence, prHead, handedOff>>

\* fetchReusedBranch, fetchFreshBase: the deferral of a failed fetch
FetchFailsAtStart ==
  /\ devAt = "resolve" /\ ~publishOnly
  /\ \A t \in Leftover : LooksDead(t) /\ Clean(t)
  /\ Returns(FALSE)
  /\ UNCHANGED <<gitVars, agentIn, known, attempt, evidence, prHead, handedOff>>

\* whoever still lives there is not seen
PassedOver(t) == [k \in Attempts |->
  IF k \in Living(t) /\ known[k] = "former" THEN "missed" ELSE known[k]]

\* a clean leftover is used in place, advanced to the fetched tip when that is
\* a fast-forward (a failed merge is swallowed)
ReuseLeftover ==
  /\ devAt = "resolve" /\ ~publishOnly
  /\ tracked' = origin
  /\ \E t \in Leftover :
       /\ LooksDead(t) /\ Clean(t)
       /\ FastForwardIssueRef(origin) \/ UNCHANGED issueRef
       /\ workTree' = t
       /\ known' = PassedOver(t)
  /\ devAt' = "ready"
  /\ UNCHANGED <<origin, trees, fresh, agentIn, attempt, publishOnly, exit, pinned,
                 evidence, prVars>>

\* the branch is advanced or cut and gets a worktree of its own, unless git
\* refuses
AddWorktree ==
  /\ devAt = "resolve" /\ ~publishOnly
  /\ Leftover = {}
  /\ tracked' = origin
  /\ FastForwardIssueRef(origin)
  /\ \/ /\ trees' = [trees EXCEPT ![attempt].on = "branch"]
        /\ workTree' = attempt
        /\ devAt' = "ready"
        /\ UNCHANGED <<publishOnly, exit, pinned, ciSeen>>
     \/ Returns(FALSE) /\ UNCHANGED trees
  /\ UNCHANGED <<origin, fresh, agentIn, known, attempt, evidence, prHead, handedOff>>

\* the salvage checkpoint, dependencies, attachments, exclude file or prompt
\* fail, or the item is no longer leased: the checkout stays.  No deck, or one
\* that does not answer: it goes.
SetUpFails ==
  /\ devAt = "ready"
  /\ UNCHANGED trees \/ BestEffortRemove(workTree)
  /\ Returns(FALSE)
  /\ UNCHANGED <<origin, tracked, issueRef, fresh, agentIn, known, attempt, evidence,
                 prHead, handedOff>>

Spawn ==
  /\ devAt = "ready"
  /\ agentIn' = [agentIn EXCEPT ![attempt] = workTree]
  /\ GoesTo("running")
  /\ UNCHANGED <<gitVars, known, attempt, evidence, prHead, handedOff>>

-----------------------------------------------------------------------------
(* What an agent does in its worktree, supervised or outliving the server *)

\* (what an orphan does off the branch is of no consequence)
AgentAt(t) ==
  /\ \E k \in Attempts : agentIn[k] = t
  /\ trees[t].on = "branch" \/ (trees[t].on = "side" /\ workTree = t)

AgentEdits(t) ==
  \E p \in fresh \ {OthersPatch} :
    /\ fresh' = fresh \ {p}
    /\ trees' = [trees EXCEPT ![t].edits = @ \cup {p}]
    /\ UNCHANGED issueRef

AgentCommits(t) ==
  /\ ~Clean(t)
  /\ SalvageCommit(t)
  /\ UNCHANGED fresh

\* a rebase or amend: some patches again, the others dropped (bound: what was
\* rewritten is not rewritten once more)
AgentRewrites(t) ==
  /\ \E c \in HeadOf(t) : c.text = "first"
  /\ \E ps \in SUBSET Patches(HeadOf(t)) :
       LET redone == [patch : ps, text : {"again"}] IN
       /\ IF trees[t].on = "branch"
          THEN issueRef' = redone /\ UNCHANGED trees
          ELSE trees' = [trees EXCEPT ![t].head = redone] /\ UNCHANGED issueRef
  /\ UNCHANGED fresh

\* onto a branch of its own, or a detached HEAD
AgentLeavesBranch(t) ==
  /\ trees[t].on = "branch"
  /\ trees' = [trees EXCEPT ![t].on = "side", ![t].head = issueRef]
  /\ UNCHANGED <<issueRef, fresh>>

AgentActs ==
  /\ \E t \in Attempts :
       /\ AgentAt(t)
       /\ AgentEdits(t) \/ AgentCommits(t) \/ AgentRewrites(t) \/ AgentLeavesBranch(t)
  /\ UNCHANGED <<origin, tracked, agentIn, known, attempt, devAt, publishOnly, workTree,
                 exit, pinned, evidence, prHead, ciSeen, handedOff>>

\* the CLI ends; spawn settles with it, or has given it up after a timeout
AgentDies(k) ==
  /\ agentIn[k] # 0
  /\ agentIn' = [agentIn EXCEPT ![k] = 0]
  /\ known' = [known EXCEPT ![k] = "child"]
  /\ IF k = attempt /\ devAt = "running"
     THEN /\ devAt' = "exited"
          /\ exit' \in {"ok", "failed"}
     ELSE UNCHANGED <<devAt, exit>>
  /\ UNCHANGED <<gitVars, attempt, publishOnly, workTree, pinned,
                 evidence, prVars>>

TimeoutSettles ==
  /\ devAt = "running"
  /\ devAt' = "exited" /\ exit' = "failed"
  /\ UNCHANGED <<gitVars, agentIn, known, attempt, publishOnly, workTree, pinned,
                 evidence, prVars>>

-----------------------------------------------------------------------------
(* The session is over *)

\* muse_cron_used, or a throw: the checkout is left for inspection
SessionUnusable ==
  /\ devAt \in {"exited", "settled", "push", "pushed", "pr", "identity", "checks",
               "polled"}
  /\ workTree # 0
  /\ Returns(FALSE)
  /\ UNCHANGED <<gitVars, agentIn, known, attempt, evidence, prHead, handedOff>>

\* dirty_worktree: the salvage fails, or is not tried because of a usage cap
LeaveDirty ==
  /\ devAt = "exited" /\ ~Clean(workTree)
  /\ Returns(FALSE)
  /\ UNCHANGED <<gitVars, agentIn, known, attempt, evidence, prHead, handedOff>>

Salvage ==
  /\ devAt = "exited" /\ ~Clean(workTree)
  /\ SalvageCommit(workTree)
  /\ GoesTo("settled")
  /\ UNCHANGED <<origin, tracked, fresh, agentIn, known, attempt, evidence, prHead, handedOff>>

Settled == devAt = "settled" \/ (devAt = "exited" /\ Clean(workTree))

\* session_failed, timed_out, usage_capped, no_pr; dirty_worktree when the
\* checkout of a salvage could not be removed
ConcludeWithoutPush ==
  /\ Settled
  /\ exit = "ok" => HeadOf(workTree) = {}
  /\ BestEffortRemove(workTree)
  /\ Returns(FALSE)
  /\ UNCHANGED <<origin, tracked, issueRef, fresh, agentIn, known, attempt, evidence,
                 prHead, handedOff>>

\* commits ahead of the base, after a clean exit (a cap notwithstanding)
GoOnToPush ==
  /\ Settled
  /\ exit = "ok" /\ HeadOf(workTree) # {}
  /\ GoesTo(IF tracked = {} THEN "probe" ELSE "push")
  /\ UNCHANGED <<gitVars, agentIn, known, attempt, evidence, prHead, handedOff>>

\* what is published: HEAD of the worktree, or the branch ref without one
Published == IF workTree = 0 THEN issueRef ELSE HeadOf(workTree)

\* keepCommits: the branch takes HEAD if it can, and then the checkout goes
KeepCommits ==
  IF workTree = 0
  THEN UNCHANGED <<issueRef, trees>>
  ELSE /\ FastForwardIssueRef(HeadOf(workTree))
       /\ IF FastForwards(issueRef, HeadOf(workTree))
          THEN BestEffortRemove(workTree)
          ELSE UNCHANGED trees

\* prePublishBaseProbe: the base cannot be fetched (base_fetch_failed,
\* publish-only from now on, or unpushed_commit when the commits could not be
\* kept), conflicts (base_conflict, an agent repairs), or no answer
ProbeStops ==
  /\ devAt = "probe"
  /\ \/ /\ KeepCommits
        /\ \/ Returns(FastForwards(issueRef, Published))
           \/ Returns(FALSE)
     \/ Returns(FALSE) /\ UNCHANGED <<issueRef, trees>>
  /\ UNCHANGED <<origin, tracked, fresh, agentIn, known, attempt, evidence, prHead, handedOff>>

ProbePasses ==
  /\ devAt = "probe"
  /\ GoesTo("push")
  /\ UNCHANGED <<gitVars, agentIn, known, attempt, evidence, prHead, handedOff>>

-----------------------------------------------------------------------------
(* Push *)

\* leasePushExpectedRemoteSha: the tip is the last verified head and whatever
\* it has and we do not, we have an equivalent of
PinnedIsEnough(ours, theirs) == theirs # {} /\ theirs \ ours # {}
ProvenEquivalent(ours, theirs) ==
  /\ theirs # {} /\ theirs = handedOff
  /\ theirs \ ours # {}
  /\ Patches(theirs \ ours) \subseteq Patches(ours \ theirs)

\* gatherPushRejectionFacts, kept when the histories have diverged
Facts(ours, theirs) ==
  IF FastForwards(ours, theirs) THEN NoFacts ELSE [local |-> ours, remote |-> theirs]

Push ==
  /\ devAt = "push"
  /\ tracked' = IF FastForwards(origin, Published) THEN Published ELSE origin
  /\ IF FastForwards(origin, Published)
     THEN /\ origin' = Published
          /\ GoesTo("pushed")
          /\ UNCHANGED evidence
     ELSE /\ UNCHANGED origin
          /\ evidence' = Facts(Published, origin)
          /\ IF ProvenEquivalent(Published, origin)
             THEN GoesTo("lease")
             ELSE Returns(FALSE)     \* unpushed_commit, the checkout stays
  /\ UNCHANGED <<issueRef, trees, fresh, agentIn, known, attempt, prHead, handedOff>>

\* --force-with-lease pinned to the tip the proof was about
LeaseHolds(pin) == origin = pin

LeasePush ==
  /\ devAt = "lease"
  /\ \/ /\ LeaseHolds(evidence.remote)
        /\ origin' = Published /\ tracked' = Published
        /\ evidence' = NoFacts
        /\ GoesTo("pushed")
     \/ /\ tracked' = origin
        /\ evidence' = Facts(Published, origin)
        /\ Returns(FALSE)
        /\ UNCHANGED origin
  /\ UNCHANGED <<issueRef, trees, fresh, agentIn, known, attempt, prHead, handedOff>>

\* the push could not be made at all: adapter_failure.  A publish-only attempt
\* stays publish-only.
PushErrors ==
  /\ devAt = "push"
  /\ Returns(publishOnly)
  /\ UNCHANGED <<gitVars, agentIn, known, attempt, evidence, prHead, handedOff>>

\* the branch follows a HEAD that was pushed from elsewhere, if it can; without a
\* worktree the remote tip is fetched, or the attempt is redone
AfterPush ==
  /\ devAt = "pushed"
  /\ \/ /\ workTree # 0
        /\ FastForwardIssueRef(HeadOf(workTree)) \/ UNCHANGED issueRef
        /\ GoesTo("pr")
        /\ UNCHANGED tracked
     \/ /\ workTree = 0 /\ origin # {}
        /\ tracked' = origin
        /\ GoesTo("pr")
        /\ UNCHANGED issueRef
     \/ /\ workTree = 0
        /\ Returns(TRUE)
        /\ UNCHANGED <<tracked, issueRef>>
  /\ UNCHANGED <<origin, trees, fresh, agentIn, known, attempt, evidence, prHead, handedOff>>

-----------------------------------------------------------------------------
(* Publish-only: inspectBranchProgress decides between push and PR *)

InspectBranch ==
  /\ devAt = "resolve" /\ publishOnly
  /\ tracked' \in {tracked, origin}
  /\ GoesTo(IF issueRef \subseteq tracked' THEN "pushed"
            ELSE IF tracked' = {} THEN "probe" ELSE "push")
  /\ UNCHANGED <<origin, issueRef, trees, fresh, agentIn, known, attempt, evidence, prHead,
                 handedOff>>

-----------------------------------------------------------------------------
(* PR and CI *)

PrExists == prHead # {}

\* the head the PR is held to
PinnedNow == IF workTree = 0 THEN tracked ELSE HeadOf(workTree)

\* viewPr, or createDraftPr for commits the base lacks; then HEAD, or the
\* fetched tip, is read once
PrSeen ==
  /\ devAt = "pr" /\ (PrExists \/ origin # {})
  /\ prHead' = IF PrExists THEN prHead ELSE origin
  /\ pinned' = PinnedNow
  /\ devAt' = "identity"
  /\ UNCHANGED <<gitVars, agentIn, known, attempt, publishOnly, workTree, exit,
                 evidence, ciSeen, handedOff>>

\* reconcilePrHead, validatePrIdentity
PrVerified ==
  /\ devAt = "identity" /\ prHead = pinned
  /\ GoesTo("checks")
  /\ UNCHANGED <<gitVars, agentIn, known, attempt, evidence, prHead, handedOff>>

\* the checkout of an attempt with an agent is not needed any more
Concluded ==
  IF workTree = 0 THEN UNCHANGED trees ELSE BestEffortRemove(workTree)

\* the PR cannot be created or seen, or its head, base or number is not the
\* expected one: adapter_failure, to be redone publish-only, or no_pr
PrNotVerified ==
  /\ devAt \in {"pr", "identity"}
  /\ Concluded
  /\ Returns(TRUE) \/ (devAt = "pr" /\ ~PrExists /\ Returns(FALSE))
  /\ UNCHANGED <<origin, tracked, issueRef, fresh, agentIn, known, attempt, evidence, prHead,
                 handedOff>>

\* pollPrChecksDetailed and resolveChecksWait: waiting stands for pending,
\* timed out and conflicting
PollChecks ==
  /\ devAt = "checks"
  /\ \E says \in {"success", "failure", "waiting"} :
       ciSeen' = [head |-> prHead, says |-> says]
  /\ devAt' = "polled"
  /\ UNCHANGED <<gitVars, agentIn, known, attempt, publishOnly, workTree, exit, pinned,
                 evidence, prHead, handedOff>>

\* the second look at the PR, against the same head
NotLookedAgain == TRUE
StillOurs == prHead = pinned

\* not seen, or another head, base or number
PrMoved ==
  /\ devAt = "polled"
  /\ Concluded
  /\ Returns(TRUE)
  /\ UNCHANGED <<origin, tracked, issueRef, fresh, agentIn, known, attempt, evidence, prHead,
                 handedOff>>

\* checks_failed or timed_out: an agent is next; checks_pending: publish-only;
\* checks_conflicting: the base sync, then an agent or a wait
ChecksNotGreen ==
  /\ devAt = "polled" /\ StillOurs /\ ciSeen.says # "success"
  /\ Concluded
  /\ Returns(FALSE) \/ (ciSeen.says = "waiting" /\ Returns(TRUE))
  /\ UNCHANGED <<origin, tracked, issueRef, fresh, agentIn, known, attempt, evidence, prHead,
                 handedOff>>

\* clean_handoff; the kernel stores the head.  Later an agent repairs it.
HandOff ==
  /\ devAt = "polled" /\ StillOurs /\ ciSeen.says = "success"
  /\ handedOff' = prHead
  /\ Concluded
  /\ Returns(FALSE)
  /\ UNCHANGED <<origin, tracked, issueRef, fresh, agentIn, known, attempt, evidence, prHead>>

-----------------------------------------------------------------------------
(* The others *)

\* the process dies, its agents do not, and the next server has only their
\* rows; recovery publishes what the branch has
CrashServer ==
  /\ \/ devAt # "idle" /\ Returns(FALSE)
     \/ devAt # "idle" /\ issueRef # {} /\ Returns(TRUE)
     \/ devAt = "idle" /\ UNCHANGED <<devAt, publishOnly, workTree, exit, pinned, ciSeen>>
  /\ known' = [k \in Attempts |->
       IF agentIn[k] # 0 /\ known[k] = "child" THEN "former" ELSE known[k]]
  /\ UNCHANGED <<gitVars, agentIn, attempt, evidence, prHead, handedOff>>

OthersPush ==
  /\ OthersPatch \in fresh /\ origin # {}
  /\ fresh' = fresh \ {OthersPatch}
  /\ origin' = origin \cup Committed({OthersPatch})
  /\ UNCHANGED <<tracked, issueRef, trees, agentIn, known, attempt, devAt, publishOnly,
                 workTree, exit, pinned, evidence, prVars>>

\* GitHub's view of the PR catches up; explored only where the view is read
PrCatchesUp ==
  /\ devAt \in {"pr", "identity", "checks", "polled"} /\ PrExists
  /\ prHead' = origin
  /\ UNCHANGED <<gitVars, agentIn, known, attempt, devAt, publishOnly, workTree, exit,
                 pinned, evidence, ciSeen, handedOff>>

\* push_with_lease: the tip the operator saw is overwritten with the recorded
\* commits, and a publish-only attempt follows
OperatorPushesWithLease ==
  /\ devAt = "idle" /\ evidence.local # {}
  /\ LeaseHolds(evidence.remote)
  /\ origin' = evidence.local /\ tracked' = evidence.local
  /\ evidence' = NoFacts
  /\ publishOnly' = TRUE
  /\ UNCHANGED <<issueRef, trees, fresh, agentIn, known, attempt, devAt, workTree, exit,
                 pinned, prVars>>

\* worktree remove --force, once the conflict was put to a person
OperatorClearsTree ==
  /\ devAt = "idle"
  /\ \E t \in Leftover : LooksDead(t) /\ ~Clean(t) /\ trees' = [trees EXCEPT ![t] = NoTree]
  /\ UNCHANGED <<origin, tracked, issueRef, fresh, agentIn, known, attempt, devAt,
                 publishOnly, workTree, exit, pinned, evidence, prVars>>

-----------------------------------------------------------------------------
EffectSteps ==
  \/ BeginAttempt \/ RefuseLiveOwner \/ SalvagePredecessor \/ FetchFailsAtStart
  \/ ReuseLeftover \/ AddWorktree \/ SetUpFails \/ Spawn \/ TimeoutSettles
  \/ SessionUnusable \/ LeaveDirty \/ Salvage
  \/ ConcludeWithoutPush \/ GoOnToPush \/ ProbeStops \/ ProbePasses
  \/ Push \/ LeasePush \/ PushErrors \/ AfterPush \/ InspectBranch
  \/ PrSeen \/ PrVerified \/ PrNotVerified \/ PollChecks \/ PrMoved
  \/ ChecksNotGreen \/ HandOff \/ CrashServer

Operator == OperatorPushesWithLease \/ OperatorClearsTree

DevNext ==
  \/ EffectSteps
  \/ AgentActs \/ \E k \in Attempts : AgentDies(k)
  \/ OthersPush \/ PrCatchesUp \/ Operator

DevSpec == DevInit /\ [][DevNext]_devVars

-----------------------------------------------------------------------------
\* Two live agents work in one checkout only when one of them outlived its
\* server and the check of the checkout's owners could not tell that it was
\* alive: however often the checkout changed hands, one that a child of this
\* server lives in, time-out or not, is not given on.  A worktree keeps the
\* name of the session that made it, so its owners are all the sessions that
\* ever recorded its path (worktree-owner-liveness.ts:31-101,
\* git-worktree.ts:1213-1222).
TreesNotShared ==
  \A k, m \in Attempts :
    k # m /\ agentIn[k] # 0 /\ agentIn[k] = agentIn[m]
      => "missed" \in {known[k], known[m]}

\* The branch was rewritten between the proof and the push, which names the
\* ref and not the commit: only a stray agent can do that, under a publish-only
\* attempt, which does not ask for one, or in a checkout it was not seen in
MovedSinceProof == devAt = "lease" /\ Published # evidence.local

\* What Dealer can come back to: the branch on either side, and the edits in
\* the worktree that holds it
Recoverable ==
  Patches(origin) \cup Patches(issueRef) \cup UNION {trees[t].edits : t \in Leftover}

\* No step but an agent's own or a person's loses a change made on the issue
\* branch, committed or not: not a timeout, a crash, a refused push, a
\* removed worktree or the start of the next attempt (developer-effect.ts:
\* 1810-1975, git-worktree.ts:925-952).  A change on another branch or a
\* detached HEAD is outside this promise.
WorkNeverLost ==
  [][\/ AgentActs \/ Operator
     \/ MovedSinceProof
     \/ Recoverable \subseteq Recoverable']_devVars

\* No push takes a change off the branch on GitHub, whoever pushed in between,
\* unless a person approved overwriting that very tip
\* (git-worktree.ts:624-709, 775-791).
OriginKeepsChanges ==
  [][\/ OperatorPushesWithLease
     \/ MovedSinceProof
     \/ Patches(origin) \subseteq Patches(origin')]_devVars

\* What is handed to the reviewer is the head whose checks were seen green, and
\* the head of the PR the attempt read after its push and held the PR to from
\* then on (developer-effect.ts:2104-2303).
HandoffWasChecked ==
  [][handedOff' # handedOff =>
       handedOff' = pinned /\ ciSeen = [head |-> handedOff', says |-> "success"]]_devVars
=============================================================================
