------------------------ MODULE DeveloperEffectProofs ------------------------
(***************************************************************************)
(* The developer effect, for any number of attempts and any changes: no    *)
(* checkout is shared but with a survivor of a crash that was passed over, *)
(* no work on the branch is lost, no push drops what is on GitHub, and     *)
(* what is handed off is what was checked.                                 *)
(*                                                                         *)
(* The steps are sorted twice.  By what they do to the checkouts: all but  *)
(* AddWorktree and the agents' leave the branch where it is or advance it, *)
(* and keep or commit the edits in the tree that holds it (TreesStay).  By *)
(* control: most end the attempt (EndsAttempt) or take it one place        *)
(* further (Onward).                                                       *)
(***************************************************************************)
EXTENDS DeveloperEffect, TLAPS

TreeRecs == [on : {"gone", "branch", "side"}, head : Heads, edits : SUBSET Patch]

GitShape == trees \in [Attempts -> TreeRecs] /\ issueRef \in Heads

Ledger ==
  /\ origin \in Heads /\ tracked \in Heads
  /\ fresh \in SUBSET Patch
  /\ pinned \in Heads
  /\ evidence \in [local : Heads, remote : Heads]
  /\ prHead \in Heads
  /\ ciSeen \in [head : Heads, says : {"success", "failure", "waiting"}]
  /\ handedOff \in Heads

Control ==
  /\ agentIn \in [Attempts -> 0..MaxAttempts]
  /\ known \in [Attempts -> {"child", "former", "missed"}]
  /\ attempt \in 0..MaxAttempts
  /\ devAt \in DevPlaces
  /\ publishOnly \in BOOLEAN
  /\ workTree \in 0..MaxAttempts
  /\ exit \in {"ok", "failed"}

Publishing ==
  {"probe", "push", "lease", "pushed", "pr", "identity", "checks", "polled"}

\* which places have a worktree, and which only a good session reaches
Standing ==
  /\ devAt \in {"idle", "resolve"} => workTree = 0
  /\ devAt \in {"ready", "running", "exited", "settled"} => workTree # 0
  /\ exit = "failed" => devAt \in {"exited", "settled"}

LEMMA DevTypes == DevTypeOK <=> GitShape /\ Ledger /\ Control
BY DEF DevTypeOK, GitShape, Ledger, Control, TreeRecs

LEMMA DevNumbers == MaxAttempts \in Nat /\ MaxAttempts > 0 /\ 0 \notin Attempts
BY DevAssumption DEF Attempts

LEMMA TreeAttempt == ASSUME Control, workTree # 0 PROVE workTree \in Attempts
BY DevNumbers DEF Control, Attempts

LEMMA PatchesOf ==
  /\ \A a, b : a \subseteq b => Patches(a) \subseteq Patches(b)
  /\ \A a, b : Patches(a \cup b) = Patches(a) \cup Patches(b)
BY DEF Patches

LEMMA CommittedOf ==
  ASSUME NEW ps \in SUBSET Patch
  PROVE  Committed(ps) \in Heads /\ Patches(Committed(ps)) = ps
<1>1. \A p \in ps : [patch |-> p, text |-> "first"] \in Committed(ps)
  BY DEF Committed
<1>2. \A c \in Committed(ps) : c \in Commit /\ c.patch \in ps
  BY DEF Committed, Commit
<1>3. Committed(ps) \in Heads
  BY <1>2 DEF Heads
<1>4. Patches(Committed(ps)) \subseteq ps
  BY <1>2 DEF Patches
<1>5. ps \subseteq Patches(Committed(ps))
  <2>. SUFFICES ASSUME NEW p \in ps PROVE \E c \in Committed(ps) : c.patch = p
    BY DEF Patches
  <2>. QED
    BY <1>1
<1>. QED
  BY <1>3, <1>4, <1>5

LEMMA HeadOfType == ASSUME GitShape, NEW t \in Attempts PROVE HeadOf(t) \in Heads
BY DEF GitShape, TreeRecs, HeadOf

LEMMA PublishedType ==
  ASSUME GitShape, Ledger, Control
  PROVE  Published \in Heads /\ PinnedNow \in Heads
BY HeadOfType, TreeAttempt DEF Published, PinnedNow, GitShape, Ledger

-----------------------------------------------------------------------------
(* What a step does to the branch and to the checkouts *)

GrowsRef == issueRef' \in Heads /\ issueRef \subseteq issueRef'

TreesStay ==
  /\ GitShape'
  /\ issueRef \subseteq issueRef'
  /\ \A t \in Attempts : trees'[t].on = "branch" => trees[t].on = "branch"
  /\ \A t \in Attempts : trees[t].on = "branch" =>
       \/ trees[t].edits \subseteq Patches(issueRef')
       \/ trees'[t].on = "branch" /\ trees'[t].edits = trees[t].edits

LEMMA UnchangedStays ==
  ASSUME GitShape, UNCHANGED trees, GrowsRef
  PROVE  TreesStay
BY DEF GitShape, GrowsRef, TreesStay

LEMMA NoTreeType == NoTree \in TreeRecs /\ NoTree.on = "gone"
BY DEF NoTree, TreeRecs, Heads

LEMMA RemoveStays ==
  ASSUME GitShape, NEW t, BestEffortRemove(t), GrowsRef
  PROVE  TreesStay
<1>1. CASE UNCHANGED trees
  BY <1>1, UnchangedStays
<1>2. CASE Clean(t) /\ trees' = [trees EXCEPT ![t] = NoTree]
  <2>1. trees' \in [Attempts -> TreeRecs]
        /\ \A u \in Attempts : trees'[u] = IF u = t THEN NoTree ELSE trees[u]
    BY <1>2, NoTreeType DEF GitShape
  <2>2. \A u \in Attempts : u = t => trees[u].edits = {}
    BY <1>2 DEF Clean
  <2>. QED
    BY <2>1, <2>2, NoTreeType DEF TreesStay, GitShape, GrowsRef
<1>. QED
  BY <1>1, <1>2 DEF BestEffortRemove, Removable

\* The edits become commits of the branch, when the tree holds it.
LEMMA SalvageStays ==
  ASSUME GitShape, NEW t \in Attempts, SalvageCommit(t)
  PROVE  TreesStay
<1>1. trees[t].edits \in SUBSET Patch /\ trees[t].head \in Heads
  BY DEF GitShape, TreeRecs
<1> DEFINE saved == Committed(trees[t].edits)
<1>2. saved \in Heads /\ Patches(saved) = trees[t].edits
  BY <1>1, CommittedOf
<1>3. CASE trees[t].on = "branch"
  <2>1. issueRef' = issueRef \cup saved /\ trees' = [trees EXCEPT ![t].edits = {}]
    BY <1>3 DEF SalvageCommit
  <2>. HIDE DEF saved
  <2>2. trees' \in [Attempts -> TreeRecs]
        /\ \A u \in Attempts : /\ trees'[u].on = trees[u].on
                               /\ u # t => trees'[u].edits = trees[u].edits
    BY <2>1 DEF GitShape, TreeRecs
  <2>3. issueRef' \in Heads
    BY <1>2, <2>1 DEF GitShape, Heads
  <2>4. trees[t].edits \subseteq Patches(issueRef')
    BY <1>2, <2>1, PatchesOf
  <2>. QED
    BY <2>1, <2>2, <2>3, <2>4 DEF TreesStay, GitShape
<1>4. CASE trees[t].on # "branch"
  <2>1. /\ trees' = [trees EXCEPT ![t] =
                      [trees[t] EXCEPT !.edits = {}, !.head = trees[t].head \cup saved]]
        /\ issueRef' = issueRef
    BY <1>4 DEF SalvageCommit, GitShape
  <2> DEFINE r == [trees[t] EXCEPT !.edits = {}, !.head = trees[t].head \cup saved]
  <2>2. trees[t].head \cup saved \in Heads /\ trees[t] \in TreeRecs
    BY <1>1, <1>2 DEF Heads, GitShape
  <2>. HIDE DEF saved
  <2>3. r \in TreeRecs /\ r.on = trees[t].on
    BY <2>2 DEF TreeRecs
  <2>. HIDE DEF r
  <2>4. trees' \in [Attempts -> TreeRecs]
        /\ \A u \in Attempts : trees'[u] = IF u = t THEN r ELSE trees[u]
    BY <2>1, <2>3 DEF GitShape, r
  <2>. QED
    BY <1>4, <2>1, <2>3, <2>4 DEF TreesStay, GitShape
<1>. QED
  BY <1>3, <1>4

LEMMA FastForwardGrows ==
  ASSUME GitShape, NEW head \in Heads, FastForwardIssueRef(head)
  PROVE  GrowsRef
BY DEF GitShape, FastForwardIssueRef, FastForwards, GrowsRef

LEMMA RefStays == ASSUME GitShape, UNCHANGED issueRef PROVE GrowsRef
BY DEF GitShape, GrowsRef

LEMMA GitStays == ASSUME GitShape, UNCHANGED <<issueRef, trees>> PROVE TreesStay
BY RefStays, UnchangedStays

LEMMA KeepCommitsStays == ASSUME GitShape, Control, KeepCommits PROVE TreesStay
<1>1. CASE workTree = 0
  BY <1>1, GitStays DEF KeepCommits
<1>2. CASE workTree # 0
  <2>1. GrowsRef
    BY <1>2, TreeAttempt, HeadOfType, FastForwardGrows DEF KeepCommits
  <2>. QED
    BY <1>2, <2>1, RemoveStays, UnchangedStays DEF KeepCommits
<1>. QED
  BY <1>1, <1>2

LEMMA ConcludedStays == ASSUME GitShape, Concluded, UNCHANGED issueRef PROVE TreesStay
BY GitStays, RefStays, RemoveStays DEF Concluded

-----------------------------------------------------------------------------
(* Every step of the effect but AddWorktree and BeginAttempt keeps what the
   branch and its checkout hold; BeginAttempt only drops what it cannot find *)

\* Actions that leave the checkouts and the branch alone
Hands ==
  \/ RefuseLiveOwner \/ FetchFailsAtStart \/ Spawn \/ TimeoutSettles
  \/ SessionUnusable \/ LeaveDirty \/ GoOnToPush \/ ProbePasses
  \/ Push \/ LeasePush \/ PushErrors \/ InspectBranch
  \/ PrSeen \/ PrVerified \/ PollChecks \/ CrashServer

LEMMA HandsStay == ASSUME GitShape, Hands PROVE TreesStay
<1>1. CASE RefuseLiveOwner \/ FetchFailsAtStart \/ Spawn \/ TimeoutSettles
  BY <1>1, GitStays DEF RefuseLiveOwner, FetchFailsAtStart, Spawn, TimeoutSettles, gitVars
<1>2. CASE SessionUnusable \/ LeaveDirty \/ GoOnToPush \/ ProbePasses
  BY <1>2, GitStays DEF SessionUnusable, LeaveDirty, GoOnToPush, ProbePasses, gitVars
<1>3. CASE Push \/ LeasePush \/ PushErrors \/ InspectBranch
  BY <1>3, GitStays DEF Push, LeasePush, PushErrors, InspectBranch, gitVars
<1>4. CASE PrSeen \/ PrVerified \/ PollChecks \/ CrashServer
  BY <1>4, GitStays DEF PrSeen, PrVerified, PollChecks, CrashServer, gitVars
<1>. QED
  BY <1>1, <1>2, <1>3, <1>4 DEF Hands

LEMMA BeginAttemptStays == ASSUME GitShape, BeginAttempt PROVE TreesStay
<1>1. issueRef' = issueRef
      /\ trees' = [t \in Attempts |-> IF trees[t].on = "side" THEN NoTree ELSE trees[t]]
  BY DEF BeginAttempt
<1>. QED
  BY <1>1, NoTreeType DEF TreesStay, GitShape

LEMMA SalvagePredecessorStays == ASSUME GitShape, SalvagePredecessor PROVE TreesStay
BY SalvageStays, GitStays DEF SalvagePredecessor, Leftover

LEMMA ReuseLeftoverStays == ASSUME GitShape, Ledger, ReuseLeftover PROVE TreesStay
<1>1. UNCHANGED trees /\ (FastForwardIssueRef(origin) \/ UNCHANGED issueRef)
  BY DEF ReuseLeftover
<1>. QED
  BY <1>1, FastForwardGrows, RefStays, UnchangedStays DEF Ledger

LEMMA SetUpFailsStays == ASSUME GitShape, SetUpFails PROVE TreesStay
BY GitStays, RefStays, RemoveStays DEF SetUpFails

LEMMA SalvageOwnStays == ASSUME GitShape, Control, Standing, Salvage PROVE TreesStay
BY TreeAttempt, SalvageStays DEF Salvage, Standing

LEMMA ConcludeWithoutPushStays == ASSUME GitShape, ConcludeWithoutPush PROVE TreesStay
BY RefStays, RemoveStays DEF ConcludeWithoutPush

LEMMA ProbeStopsStays == ASSUME GitShape, Control, ProbeStops PROVE TreesStay
BY KeepCommitsStays, GitStays DEF ProbeStops

LEMMA AfterPushStays == ASSUME GitShape, Control, AfterPush PROVE TreesStay
<1>1. UNCHANGED trees
  BY DEF AfterPush
<1>2. UNCHANGED issueRef \/ (workTree # 0 /\ FastForwardIssueRef(HeadOf(workTree)))
  BY DEF AfterPush
<1>. QED
  BY <1>1, <1>2, TreeAttempt, HeadOfType, FastForwardGrows, RefStays, UnchangedStays

LEMMA VerdictStays ==
  ASSUME GitShape, PrNotVerified \/ PrMoved \/ ChecksNotGreen \/ HandOff
  PROVE  TreesStay
BY ConcludedStays DEF PrNotVerified, PrMoved, ChecksNotGreen, HandOff

LEMMA EffectStays ==
  ASSUME GitShape, Ledger, Control, Standing, EffectSteps
  PROVE  TreesStay \/ AddWorktree
BY HandsStay, BeginAttemptStays, SalvagePredecessorStays, ReuseLeftoverStays,
   SetUpFailsStays, SalvageOwnStays, ConcludeWithoutPushStays, ProbeStopsStays,
   AfterPushStays, VerdictStays DEF EffectSteps, Hands

\* The new checkout may hold anything that was there: it is the first on the
\* branch.
LEMMA AddWorktreeGit ==
  ASSUME GitShape, Ledger, Control, AddWorktree
  PROVE  /\ GitShape' /\ issueRef \subseteq issueRef'
         /\ \A t \in Attempts : trees[t].on # "branch"
         /\ \A t \in Attempts : trees'[t].on = "branch" => t = attempt
<1>1. GrowsRef
  BY FastForwardGrows DEF AddWorktree, Ledger
<1>2. UNCHANGED trees \/ trees' = [trees EXCEPT ![attempt].on = "branch"]
  BY DEF AddWorktree
<1>3. trees' \in [Attempts -> TreeRecs]
  BY <1>2 DEF GitShape, TreeRecs
<1>4. \A t \in Attempts : trees[t].on # "branch"
  BY DEF AddWorktree, Leftover
<1>5. \A t \in Attempts : t # attempt => trees'[t] = trees[t]
  BY <1>2 DEF GitShape
<1>. QED
  BY <1>1, <1>3, <1>4, <1>5 DEF GrowsRef, GitShape

\* An agent's step keeps the shapes, and never puts a checkout on the branch.
AgentsMove ==
  /\ GitShape' /\ fresh' \in SUBSET Patch
  /\ \A t \in Attempts : trees'[t].on = "branch" => trees[t].on = "branch"

LEMMA AgentActsMove == ASSUME GitShape, Ledger, AgentActs PROVE AgentsMove
<1>. SUFFICES ASSUME NEW t \in Attempts,
                     AgentEdits(t) \/ AgentCommits(t) \/ AgentRewrites(t) \/ AgentLeavesBranch(t)
              PROVE  AgentsMove
  BY DEF AgentActs
<1>1. CASE AgentEdits(t)
  <2>1. PICK p \in Patch : /\ trees' = [trees EXCEPT ![t].edits = @ \cup {p}]
                           /\ issueRef' = issueRef /\ fresh' = fresh \ {p}
    BY <1>1 DEF AgentEdits, Ledger
  <2>2. trees' \in [Attempts -> TreeRecs]
        /\ \A u \in Attempts : trees'[u].on = trees[u].on
    BY <2>1 DEF GitShape, TreeRecs
  <2>. QED
    BY <2>1, <2>2 DEF AgentsMove, GitShape, Ledger
<1>2. CASE AgentCommits(t)
  BY <1>2, SalvageStays DEF AgentCommits, AgentsMove, TreesStay, Ledger
<1>3. CASE AgentRewrites(t)
  <2>1. PICK ps \in SUBSET Patches(HeadOf(t)) :
          LET redone == [patch : ps, text : {"again"}] IN
          IF trees[t].on = "branch"
          THEN issueRef' = redone /\ UNCHANGED trees
          ELSE trees' = [trees EXCEPT ![t].head = redone] /\ UNCHANGED issueRef
    BY <1>3 DEF AgentRewrites
  <2>2. fresh' = fresh
    BY <1>3 DEF AgentRewrites
  <2> DEFINE redone == [patch : ps, text : {"again"}]
  <2>3. redone \in Heads
    <3>1. HeadOf(t) \in SUBSET Commit
      BY HeadOfType DEF Heads
    <3>2. ps \in SUBSET Patch
      BY <3>1 DEF Patches, Commit
    <3>. QED
      BY <3>2 DEF Heads, Commit
  <2>4. IF trees[t].on = "branch"
        THEN issueRef' = redone /\ UNCHANGED trees
        ELSE trees' = [trees EXCEPT ![t].head = redone] /\ UNCHANGED issueRef
    BY <2>1
  <2>. HIDE DEF redone
  <2>5. CASE trees[t].on = "branch"
    BY <2>2, <2>3, <2>4, <2>5 DEF AgentsMove, GitShape, Ledger
  <2>6. CASE trees[t].on # "branch"
    <3>1. trees' \in [Attempts -> TreeRecs]
          /\ \A u \in Attempts : trees'[u].on = trees[u].on
      BY <2>3, <2>4, <2>6 DEF GitShape, TreeRecs
    <3>. QED
      BY <2>2, <2>4, <2>6, <3>1 DEF AgentsMove, GitShape, Ledger
  <2>. QED
    BY <2>5, <2>6
<1>4. CASE AgentLeavesBranch(t)
  <2>1. trees' = [trees EXCEPT ![t].on = "side", ![t].head = issueRef]
        /\ issueRef' = issueRef /\ fresh' = fresh
    BY <1>4 DEF AgentLeavesBranch
  <2> DEFINE r == [trees[t] EXCEPT !.on = "side", !.head = issueRef]
  <2>2. r \in TreeRecs /\ r.on = "side"
    BY DEF GitShape, TreeRecs
  <2>3. trees' = [trees EXCEPT ![t] = r]
    BY <2>1 DEF GitShape
  <2>. HIDE DEF r
  <2>. QED
    BY <2>1, <2>2, <2>3 DEF AgentsMove, GitShape, Ledger
<1>. QED
  BY <1>1, <1>2, <1>3, <1>4

\* The person who clears a conflicting checkout, too.
LEMMA OperatorMoves == ASSUME GitShape, Ledger, Operator PROVE AgentsMove
<1>1. CASE OperatorPushesWithLease
  BY <1>1 DEF OperatorPushesWithLease, AgentsMove, GitShape, Ledger
<1>2. CASE OperatorClearsTree
  <2>1. PICK t : trees' = [trees EXCEPT ![t] = NoTree]
    BY <1>2 DEF OperatorClearsTree
  <2>2. issueRef' = issueRef /\ fresh' = fresh
    BY <1>2 DEF OperatorClearsTree
  <2>. QED
    BY <2>1, <2>2, NoTreeType DEF AgentsMove, GitShape, Ledger
<1>. QED
  BY <1>1, <1>2 DEF Operator

-----------------------------------------------------------------------------
(* What a step does to the heads that are kept about *)

LEMMA ReturnsCi ==
  ASSUME NEW again, Returns(again)
  PROVE  /\ ciSeen' \in [head : Heads, says : {"success", "failure", "waiting"}]
         /\ pinned' \in Heads
BY DEF Returns, Heads

LEMMA GoesToCi ==
  ASSUME Ledger, NEW place, GoesTo(place)
  PROVE  /\ ciSeen' \in [head : Heads, says : {"success", "failure", "waiting"}]
         /\ pinned' \in Heads
BY DEF GoesTo, Ledger

LEMMA FactsType ==
  ASSUME NEW ours \in Heads, NEW theirs \in Heads
  PROVE  Facts(ours, theirs) \in [local : Heads, remote : Heads]
BY DEF Facts, NoFacts, Heads

LEMMA NoFactsType == NoFacts \in [local : Heads, remote : Heads]
BY DEF NoFacts, Heads

\* Actions that end the attempt or go on, and touch nothing else here
LEMMA LedgerKept ==
  ASSUME Ledger, UNCHANGED <<origin, tracked, fresh, evidence, prHead, handedOff>>,
         \/ UNCHANGED <<pinned, ciSeen>>
         \/ \E again \in BOOLEAN : Returns(again)
         \/ \E place \in DevPlaces : GoesTo(place)
  PROVE  Ledger'
<1>1. /\ ciSeen' \in [head : Heads, says : {"success", "failure", "waiting"}]
      /\ pinned' \in Heads
  BY ReturnsCi, GoesToCi DEF Ledger
<1>. QED
  BY <1>1 DEF Ledger

LEMMA PlainLedger ==
  ASSUME Ledger, Control,
         \/ RefuseLiveOwner \/ SalvagePredecessor \/ FetchFailsAtStart \/ SetUpFails
         \/ Spawn \/ TimeoutSettles \/ SessionUnusable \/ LeaveDirty \/ Salvage
         \/ ConcludeWithoutPush \/ GoOnToPush \/ ProbeStops \/ ProbePasses
         \/ PushErrors \/ PrVerified \/ PrNotVerified \/ PrMoved \/ ChecksNotGreen
         \/ CrashServer
  PROVE  Ledger'
<1>1. CASE RefuseLiveOwner \/ FetchFailsAtStart \/ SetUpFails \/ SessionUnusable \/ LeaveDirty
  BY <1>1, LedgerKept DEF RefuseLiveOwner, FetchFailsAtStart, SetUpFails, SessionUnusable,
     LeaveDirty, gitVars
<1>2. CASE SalvagePredecessor
  BY <1>2, LedgerKept DEF SalvagePredecessor, DevPlaces
<1>3. CASE Spawn \/ Salvage \/ ProbePasses
  BY <1>3, LedgerKept DEF Spawn, Salvage, ProbePasses, gitVars, DevPlaces
<1>4. CASE TimeoutSettles
  BY <1>4, LedgerKept DEF TimeoutSettles, gitVars, prVars
<1>5. CASE GoOnToPush
  BY <1>5, LedgerKept DEF GoOnToPush, gitVars, DevPlaces
<1>6. CASE ProbeStops
  <2>1. PICK again \in BOOLEAN : Returns(again)
    BY <1>6 DEF ProbeStops, FastForwards
  <2>. QED
    BY <1>6, <2>1, LedgerKept DEF ProbeStops
<1>7. CASE ConcludeWithoutPush \/ PrNotVerified \/ PrMoved
  BY <1>7, LedgerKept DEF ConcludeWithoutPush, PrNotVerified, PrMoved
<1>8. CASE ChecksNotGreen
  BY <1>8, LedgerKept DEF ChecksNotGreen
<1>10. CASE PrVerified
  BY <1>10, LedgerKept DEF PrVerified, gitVars, DevPlaces
<1>11. CASE CrashServer
  <2>1. UNCHANGED <<origin, tracked, fresh, evidence, prHead, handedOff>>
        /\ (Returns(FALSE) \/ Returns(TRUE) \/ UNCHANGED <<pinned, ciSeen>>)
    BY <1>11 DEF CrashServer, gitVars
  <2>. QED
    BY <2>1, LedgerKept
<1>9. CASE PushErrors
  BY <1>9, LedgerKept DEF PushErrors, gitVars, Control
<1>. QED
  BY <1>1, <1>2, <1>3, <1>4, <1>5, <1>6, <1>7, <1>8, <1>9, <1>10, <1>11

LEMMA PushLedger ==
  ASSUME GitShape, Ledger, Control, Push \/ LeasePush
  PROVE  Ledger'
<1>1. Published \in Heads /\ Facts(Published, origin) \in [local : Heads, remote : Heads]
  BY PublishedType, FactsType DEF Ledger
<1>2. origin' \in Heads /\ tracked' \in Heads
  BY <1>1 DEF Push, LeasePush, Ledger
<1>3. evidence' \in [local : Heads, remote : Heads]
  BY <1>1, NoFactsType DEF Push, LeasePush, Ledger
<1>4. /\ ciSeen' \in [head : Heads, says : {"success", "failure", "waiting"}]
      /\ pinned' \in Heads
  BY ReturnsCi, GoesToCi DEF Push, LeasePush
<1>5. UNCHANGED <<fresh, prHead, handedOff>>
  BY DEF Push, LeasePush
<1>. QED
  BY <1>2, <1>3, <1>4, <1>5 DEF Ledger

LEMMA FetchLedger ==
  ASSUME Ledger,
         BeginAttempt \/ ReuseLeftover \/ AddWorktree \/ AfterPush \/ InspectBranch
  PROVE  Ledger'
<1>1. origin' \in Heads /\ tracked' \in Heads
  BY DEF BeginAttempt, ReuseLeftover, AddWorktree, AfterPush, InspectBranch, Ledger
<1>2. evidence' \in [local : Heads, remote : Heads]
  BY NoFactsType DEF BeginAttempt, ReuseLeftover, AddWorktree, AfterPush, InspectBranch, Ledger
<1>3. /\ ciSeen' \in [head : Heads, says : {"success", "failure", "waiting"}]
      /\ pinned' \in Heads
  BY ReturnsCi, GoesToCi DEF BeginAttempt, ReuseLeftover, AddWorktree, AfterPush,
     InspectBranch, Ledger, prVars
<1>4. UNCHANGED <<fresh, prHead, handedOff>>
  BY DEF BeginAttempt, ReuseLeftover, AddWorktree, AfterPush, InspectBranch, prVars
<1>. QED
  BY <1>1, <1>2, <1>3, <1>4 DEF Ledger

LEMMA PrLedger ==
  ASSUME GitShape, Ledger, Control, PrSeen \/ PollChecks \/ HandOff
  PROVE  Ledger'
<1>1. UNCHANGED <<origin, tracked, fresh, evidence>>
  BY DEF PrSeen, PollChecks, HandOff, gitVars
<1>2. CASE PrSeen
  BY <1>1, <1>2, PublishedType DEF PrSeen, Ledger
<1>3. CASE PollChecks
  BY <1>1, <1>3 DEF PollChecks, Ledger
<1>4. CASE HandOff
  BY <1>1, <1>4, ReturnsCi DEF HandOff, Ledger
<1>. QED
  BY <1>2, <1>3, <1>4

LEMMA WorldLedger ==
  ASSUME GitShape, Ledger,
         \/ AgentActs \/ (\E k \in Attempts : AgentDies(k))
         \/ OthersPush \/ PrCatchesUp \/ Operator
  PROVE  Ledger'
<1>1. CASE AgentActs
  BY <1>1, AgentActsMove DEF AgentActs, AgentsMove, Ledger
<1>2. CASE \E k \in Attempts : AgentDies(k)
  BY <1>2, LedgerKept DEF AgentDies, gitVars, prVars
<1>3. CASE OthersPush
  <2>1. Committed({OthersPatch}) \in Heads
    BY CommittedOf DEF Patch
  <2>2. origin \cup Committed({OthersPatch}) \in Heads
    BY <2>1 DEF Ledger, Heads
  <2>. QED
    BY <1>3, <2>2 DEF OthersPush, Ledger, prVars
<1>4. CASE PrCatchesUp
  BY <1>4 DEF PrCatchesUp, Ledger, gitVars
<1>5. CASE OperatorPushesWithLease
  BY <1>5, NoFactsType DEF OperatorPushesWithLease, Ledger, prVars
<1>6. CASE OperatorClearsTree
  BY <1>6 DEF OperatorClearsTree, Ledger, prVars
<1>. QED
  BY <1>1, <1>2, <1>3, <1>4, <1>5, <1>6 DEF Operator

LEMMA LedgerInv ==
  ASSUME GitShape, Ledger, Control, [DevNext]_devVars
  PROVE  Ledger'
<1>1. CASE EffectSteps
  BY <1>1, PlainLedger, PushLedger, FetchLedger, PrLedger DEF EffectSteps
<1>2. CASE UNCHANGED devVars
  BY <1>2 DEF devVars, Ledger
<1>. QED
  BY <1>1, <1>2, WorldLedger DEF DevNext

-----------------------------------------------------------------------------
(* What a step does to the place the effect stands at *)

EndsAttempt ==
  /\ devAt' = "idle" /\ workTree' = 0 /\ exit' = "ok"
  /\ publishOnly' \in BOOLEAN
  /\ UNCHANGED <<agentIn, known, attempt>>

\* to the same place, from a session to its salvage, or on to the publishing
Onward ==
  /\ \/ devAt' = devAt
     \/ devAt = "exited" /\ devAt' = "settled"
     \/ /\ devAt \in {"resolve", "exited", "settled"} \cup Publishing
        /\ devAt' \in Publishing /\ exit = "ok"
  /\ publishOnly' \in BOOLEAN
  /\ UNCHANGED <<agentIn, known, attempt, workTree, exit>>

LEMMA ReturnsEnds ==
  ASSUME NEW again \in BOOLEAN, Returns(again), UNCHANGED <<agentIn, known, attempt>>
  PROVE  EndsAttempt
BY DEF Returns, EndsAttempt

LEMMA CheckoutEndsOrGoes ==
  ASSUME Control,
         RefuseLiveOwner \/ SalvagePredecessor \/ FetchFailsAtStart \/ SetUpFails
  PROVE  EndsAttempt \/ Onward
<1>1. CASE SalvagePredecessor
  <2>1. UNCHANGED <<agentIn, known, attempt>> /\ devAt = "resolve"
    BY <1>1 DEF SalvagePredecessor
  <2>2. GoesTo("resolve") \/ Returns(FALSE)
    BY <1>1 DEF SalvagePredecessor
  <2>3. CASE GoesTo("resolve")
    BY <2>1, <2>3 DEF GoesTo, Onward, Control
  <2>. QED
    BY <2>1, <2>2, <2>3, ReturnsEnds
<1>. QED
  BY <1>1, ReturnsEnds DEF RefuseLiveOwner, FetchFailsAtStart, SetUpFails

LEMMA SessionEndsOrGoes ==
  ASSUME Control, Standing,
         \/ SessionUnusable \/ LeaveDirty \/ Salvage
         \/ ConcludeWithoutPush \/ GoOnToPush \/ ProbeStops \/ ProbePasses
  PROVE  EndsAttempt \/ Onward
<1>1. CASE SessionUnusable \/ LeaveDirty \/ ConcludeWithoutPush
  BY <1>1, ReturnsEnds DEF SessionUnusable, LeaveDirty, ConcludeWithoutPush
<1>2. CASE Salvage
  BY <1>2 DEF Salvage, GoesTo, Onward, Control
<1>3. CASE GoOnToPush
  BY <1>3 DEF GoOnToPush, Settled, GoesTo, Onward, Control, Publishing
<1>4. CASE ProbeStops
  <2>1. PICK again \in BOOLEAN : Returns(again)
    BY <1>4 DEF ProbeStops, FastForwards
  <2>. QED
    BY <1>4, <2>1, ReturnsEnds DEF ProbeStops
<1>5. CASE ProbePasses
  BY <1>5 DEF ProbePasses, GoesTo, Onward, Control, Publishing, Standing
<1>. QED
  BY <1>1, <1>2, <1>3, <1>4, <1>5

LEMMA PublishEndsOrGoes ==
  ASSUME Control, Standing,
         \/ Push \/ LeasePush \/ PushErrors \/ AfterPush \/ InspectBranch
         \/ PrSeen \/ PrVerified \/ PrNotVerified \/ PollChecks \/ PrMoved
         \/ ChecksNotGreen \/ HandOff
  PROVE  EndsAttempt \/ Onward
<1>1. CASE Push
  <2>1. UNCHANGED <<agentIn, known, attempt>> /\ devAt = "push"
        /\ (GoesTo("pushed") \/ GoesTo("lease") \/ Returns(FALSE))
    BY <1>1 DEF Push
  <2>2. CASE GoesTo("pushed") \/ GoesTo("lease")
    BY <2>1, <2>2 DEF GoesTo, Onward, Control, Publishing, Standing
  <2>. QED
    BY <2>1, <2>2, ReturnsEnds
<1>2. CASE LeasePush
  <2>1. UNCHANGED <<agentIn, known, attempt>> /\ devAt = "lease"
        /\ (GoesTo("pushed") \/ Returns(FALSE))
    BY <1>2 DEF LeasePush
  <2>2. CASE GoesTo("pushed")
    BY <2>1, <2>2 DEF GoesTo, Onward, Control, Publishing, Standing
  <2>. QED
    BY <2>1, <2>2, ReturnsEnds
<1>3. CASE AfterPush
  <2>1. UNCHANGED <<agentIn, known, attempt>> /\ devAt = "pushed"
        /\ (GoesTo("pr") \/ Returns(TRUE))
    BY <1>3 DEF AfterPush
  <2>2. CASE GoesTo("pr")
    BY <2>1, <2>2 DEF GoesTo, Onward, Control, Publishing, Standing
  <2>. QED
    BY <2>1, <2>2, ReturnsEnds
<1>4. CASE InspectBranch
  <2>1. UNCHANGED <<agentIn, known, attempt>> /\ devAt = "resolve"
        /\ \E place \in Publishing : GoesTo(place)
    BY <1>4 DEF InspectBranch, Publishing
  <2>. QED
    BY <2>1 DEF GoesTo, Onward, Control, Publishing, Standing
<1>5. CASE PrSeen \/ PrVerified \/ PollChecks
  BY <1>5 DEF PrSeen, PrVerified, PollChecks, GoesTo, Onward, Control, Publishing, Standing
<1>6. CASE PrNotVerified \/ PrMoved \/ ChecksNotGreen \/ HandOff
  BY <1>6, ReturnsEnds DEF PrNotVerified, PrMoved, ChecksNotGreen, HandOff
<1>7. CASE PushErrors
  BY <1>7, ReturnsEnds DEF PushErrors, Control
<1>. QED
  BY <1>1, <1>2, <1>3, <1>4, <1>5, <1>6, <1>7

LEMMA WorldGoes ==
  ASSUME Control, AgentActs \/ OthersPush \/ PrCatchesUp \/ Operator
  PROVE  Onward
<1>1. UNCHANGED <<agentIn, known, attempt, workTree, exit, devAt>>
  BY DEF AgentActs, OthersPush, PrCatchesUp, Operator, OperatorPushesWithLease,
         OperatorClearsTree
<1>2. publishOnly' \in BOOLEAN
  BY DEF AgentActs, OthersPush, PrCatchesUp, Operator, OperatorPushesWithLease,
         OperatorClearsTree, Control
<1>. QED
  BY <1>1, <1>2 DEF Onward

\* The steps that change who works where
Turns ==
  \/ BeginAttempt \/ ReuseLeftover \/ AddWorktree \/ Spawn \/ TimeoutSettles
  \/ CrashServer \/ \E k \in Attempts : AgentDies(k)

LEMMA ControlKinds ==
  ASSUME Control, Standing, [DevNext]_devVars
  PROVE  EndsAttempt \/ Onward \/ Turns
<1>1. CASE UNCHANGED devVars
  BY <1>1 DEF devVars, Onward, Control
<1>2. CASE EffectSteps
  BY <1>2, CheckoutEndsOrGoes, SessionEndsOrGoes, PublishEndsOrGoes DEF EffectSteps, Turns
<1>. QED
  BY <1>1, <1>2, WorldGoes DEF DevNext, Turns

-----------------------------------------------------------------------------
(* Who works where *)

\* those of the attempts ks whose agents live in checkout t are not seen there
Unseen(t, ks) == \A k \in ks : agentIn[k] = t => known[k] = "missed"

\* an agent that may still be alive stays in a checkout made before its own
\* attempt began, or in its own: but for those that are not seen, none is in
\* the checkout about to be used, in use, or being published
AgentsApart ==
  /\ TreesNotShared
  /\ \A k \in Attempts : agentIn[k] <= attempt
  /\ workTree <= attempt
  /\ devAt # "idle" => attempt > 0
  /\ devAt = "resolve" => \A k \in Attempts : agentIn[k] # attempt
  /\ devAt = "ready" => Unseen(workTree, Attempts)
  /\ devAt = "running" => Unseen(workTree, Attempts \ {attempt})
  /\ /\ devAt \in {"exited", "settled"} \cup Publishing
     /\ exit = "ok" /\ workTree # 0
     => Unseen(workTree, Attempts)

\* one checkout at most holds the branch, and it was made already
OnBranch ==
  /\ \A t \in Attempts : trees[t].on = "branch" => t <= attempt
  /\ \A t, u \in Attempts : trees[t].on = "branch" /\ trees[u].on = "branch" => t = u

DevInv == GitShape /\ Ledger /\ Control /\ Standing /\ AgentsApart /\ OnBranch

ControlInv == Control' /\ Standing' /\ AgentsApart'

LEMMA EndsControl == ASSUME DevInv, EndsAttempt PROVE ControlInv
<1>1. Control'
  BY DevNumbers DEF DevInv, EndsAttempt, Control, DevPlaces
<1>2. Standing'
  BY DEF EndsAttempt, Standing
<1>3. AgentsApart'
  BY DevNumbers DEF DevInv, EndsAttempt, AgentsApart, TreesNotShared, Control, Publishing
<1>. QED
  BY <1>1, <1>2, <1>3 DEF ControlInv

LEMMA OnwardControl == ASSUME DevInv, Onward PROVE ControlInv
<1>1. devAt' \in DevPlaces
  BY DEF DevInv, Control, Onward, DevPlaces, Publishing
<1>2. Control'
  BY <1>1 DEF DevInv, Onward, Control
<1>3. Standing'
  BY DEF DevInv, Onward, Standing, Publishing
<1>4. AgentsApart'
  <2>1. UNCHANGED <<agentIn, known, attempt, workTree, exit>>
    BY DEF Onward
  <2>2. TreesNotShared' /\ (\A k \in Attempts : agentIn'[k] <= attempt') /\ workTree' <= attempt'
    BY <2>1 DEF DevInv, AgentsApart, TreesNotShared
  <2>3. CASE devAt' = devAt
    BY <2>1, <2>2, <2>3 DEF DevInv, AgentsApart, Unseen
  <2>4. CASE devAt = "exited" /\ devAt' = "settled"
    BY <2>1, <2>2, <2>4 DEF DevInv, AgentsApart, Publishing, Unseen
  <2>5. CASE /\ devAt \in {"resolve", "exited", "settled"} \cup Publishing
             /\ devAt' \in Publishing /\ exit = "ok"
    <3>1. devAt = "resolve" => workTree = 0
      BY DEF DevInv, Standing
    <3>2. workTree' # 0 => Unseen(workTree, Attempts)'
      BY <2>1, <2>5, <3>1 DEF DevInv, AgentsApart, Unseen
    <3>3. devAt # "idle" /\ devAt' \notin {"idle", "resolve", "ready", "running"}
      BY <2>5 DEF Publishing
    <3>. QED
      BY <2>1, <2>2, <3>2, <3>3 DEF DevInv, AgentsApart
  <2>. QED
    BY <2>3, <2>4, <2>5 DEF Onward
<1>. QED
  BY <1>2, <1>3, <1>4 DEF ControlInv

-----------------------------------------------------------------------------
LEMMA BeginAttemptControl == ASSUME DevInv, BeginAttempt PROVE ControlInv
<1>1. /\ devAt = "idle" /\ attempt < MaxAttempts /\ attempt' = attempt + 1
      /\ devAt' = "resolve"
      /\ UNCHANGED <<publishOnly, workTree, exit, agentIn, known>>
  BY DEF BeginAttempt, GoesTo
<1>2. attempt \in Nat /\ attempt' \in 0..MaxAttempts
  BY <1>1, DevNumbers DEF DevInv, Control
<1>3. Control'
  BY <1>1, <1>2 DEF DevInv, Control, DevPlaces
<1>4. Standing'
  BY <1>1 DEF DevInv, Standing
<1>5. \A k \in Attempts : agentIn'[k] \in Int /\ agentIn'[k] < attempt'
  <2>1. \A k \in Attempts : agentIn[k] \in Int /\ agentIn[k] <= attempt
    BY DEF DevInv, Control, AgentsApart
  <2>. QED
    BY <1>1, <1>2, <2>1
<1>6. workTree' <= attempt' /\ attempt' > 0 /\ attempt' \in Int
  BY <1>1, <1>2 DEF DevInv, AgentsApart, Control
<1>7. AgentsApart'
  BY <1>1, <1>5, <1>6 DEF DevInv, AgentsApart, TreesNotShared, Publishing
<1>. QED
  BY <1>3, <1>4, <1>7 DEF ControlInv

\* Whoever still lives in a leftover that is used again is passed over.
LEMMA PassedOverMissed ==
  ASSUME Control, NEW t \in Attempts, LooksDead(t), known' = PassedOver(t)
  PROVE  /\ known' \in [Attempts -> {"child", "former", "missed"}]
         /\ \A k \in Attempts : known[k] = "missed" => known'[k] = "missed"
         /\ \A k \in Attempts : agentIn[k] = t => known'[k] = "missed"
<1>1. \A k \in Attempts :
        known'[k] = IF k \in Living(t) /\ known[k] = "former" THEN "missed" ELSE known[k]
  BY DEF PassedOver
<1>2. known' \in [Attempts -> {"child", "former", "missed"}]
  BY DEF PassedOver, Control
<1>3. \A k \in Attempts : agentIn[k] = t => k \in Living(t)
  BY DevNumbers DEF Living, Owners
<1>4. \A k \in Living(t) : known[k] \in {"former", "missed"}
  BY DEF LooksDead, Living, Owners, Control
<1>. QED
  BY <1>1, <1>2, <1>3, <1>4

LEMMA ReuseLeftoverControl == ASSUME DevInv, ReuseLeftover PROVE ControlInv
<1>1. PICK t \in Attempts : /\ trees[t].on = "branch" /\ LooksDead(t) /\ workTree' = t
                            /\ known' = PassedOver(t)
  BY DEF ReuseLeftover, Leftover
<1>2. /\ devAt = "resolve" /\ devAt' = "ready"
      /\ UNCHANGED <<agentIn, attempt, publishOnly, exit>>
  BY DEF ReuseLeftover
<1>3. t # 0 /\ t \in 0..MaxAttempts
  BY DevNumbers DEF Attempts
<1>4. /\ known' \in [Attempts -> {"child", "former", "missed"}]
      /\ \A k \in Attempts : known[k] = "missed" => known'[k] = "missed"
      /\ \A k \in Attempts : agentIn[k] = t => known'[k] = "missed"
  BY <1>1, PassedOverMissed DEF DevInv
<1>5. Control'
  BY <1>1, <1>2, <1>3, <1>4 DEF DevInv, Control, DevPlaces
<1>6. Standing'
  BY <1>1, <1>2, <1>3 DEF DevInv, Standing
<1>7. workTree' <= attempt'
  BY <1>1, <1>2 DEF DevInv, OnBranch
<1>8. TreesNotShared'
  BY <1>2, <1>4 DEF DevInv, AgentsApart, TreesNotShared
<1>9. Unseen(workTree, Attempts)'
  BY <1>1, <1>2, <1>4 DEF Unseen
<1>10. AgentsApart'
  BY <1>2, <1>7, <1>8, <1>9 DEF DevInv, AgentsApart, Publishing
<1>. QED
  BY <1>5, <1>6, <1>10 DEF ControlInv

LEMMA AddWorktreeControl == ASSUME DevInv, AddWorktree PROVE ControlInv
<1>1. devAt = "resolve" /\ UNCHANGED <<agentIn, known, attempt>>
  BY DEF AddWorktree
<1>2. CASE Returns(FALSE)
  BY <1>1, <1>2, ReturnsEnds, EndsControl
<1>3. CASE workTree' = attempt /\ devAt' = "ready" /\ UNCHANGED <<publishOnly, exit>>
  <2>1. attempt # 0 /\ attempt \in 0..MaxAttempts /\ attempt <= attempt
    BY <1>1 DEF DevInv, Control, AgentsApart
  <2>2. Control'
    BY <1>1, <1>3, <2>1 DEF DevInv, Control, DevPlaces
  <2>3. Standing'
    BY <1>1, <1>3, <2>1 DEF DevInv, Standing
  <2>4. AgentsApart'
    BY <1>1, <1>3, <2>1 DEF DevInv, AgentsApart, TreesNotShared, Publishing, Unseen
  <2>. QED
    BY <2>2, <2>3, <2>4 DEF ControlInv
<1>. QED
  BY <1>2, <1>3 DEF AddWorktree

LEMMA SpawnControl == ASSUME DevInv, Spawn PROVE ControlInv
<1>1. /\ devAt = "ready" /\ devAt' = "running"
      /\ agentIn' = [agentIn EXCEPT ![attempt] = workTree]
      /\ UNCHANGED <<known, attempt, publishOnly, workTree, exit>>
  BY DEF Spawn, GoesTo
<1>2. attempt \in Attempts /\ workTree \in 0..MaxAttempts
  BY <1>1 DEF DevInv, Control, AgentsApart, Attempts
<1>3. /\ agentIn' \in [Attempts -> 0..MaxAttempts]
      /\ \A k \in Attempts : agentIn'[k] = IF k = attempt THEN workTree ELSE agentIn[k]
  BY <1>1, <1>2 DEF DevInv, Control
<1>4. Control'
  BY <1>1, <1>3 DEF DevInv, Control, DevPlaces
<1>5. Standing'
  BY <1>1 DEF DevInv, Standing
<1>6. /\ \A k \in Attempts : agentIn[k] <= attempt
      /\ Unseen(workTree, Attempts)
      /\ workTree <= attempt /\ attempt > 0
  BY <1>1 DEF DevInv, AgentsApart
<1>7. TreesNotShared'
  BY <1>1, <1>3, <1>6 DEF DevInv, AgentsApart, TreesNotShared, Unseen
<1>9. Unseen(workTree, Attempts \ {attempt})'
  BY <1>1, <1>3, <1>6 DEF Unseen
<1>8. AgentsApart'
  BY <1>1, <1>3, <1>6, <1>7, <1>9 DEF AgentsApart, Publishing
<1>. QED
  BY <1>4, <1>5, <1>8 DEF ControlInv

LEMMA TimeoutSettlesControl == ASSUME DevInv, TimeoutSettles PROVE ControlInv
<1>1. /\ devAt = "running" /\ devAt' = "exited" /\ exit' = "failed"
      /\ UNCHANGED <<agentIn, known, attempt, publishOnly, workTree>>
  BY DEF TimeoutSettles
<1>2. Control'
  BY <1>1 DEF DevInv, Control, DevPlaces
<1>3. Standing'
  BY <1>1 DEF DevInv, Standing
<1>4. AgentsApart'
  BY <1>1 DEF DevInv, AgentsApart, TreesNotShared, Publishing
<1>. QED
  BY <1>2, <1>3, <1>4 DEF ControlInv

LEMMA AgentDiesControl ==
  ASSUME DevInv, NEW k \in Attempts, AgentDies(k)
  PROVE  ControlInv
<1>1. /\ agentIn' = [agentIn EXCEPT ![k] = 0]
      /\ known' = [known EXCEPT ![k] = "child"]
      /\ UNCHANGED <<attempt, publishOnly, workTree>>
  BY DEF AgentDies
<1>2. /\ agentIn' \in [Attempts -> 0..MaxAttempts]
      /\ \A m \in Attempts : agentIn'[m] = IF m = k THEN 0 ELSE agentIn[m]
      /\ known' \in [Attempts -> {"child", "former", "missed"}]
      /\ \A m \in Attempts : known'[m] = IF m = k THEN "child" ELSE known[m]
  BY <1>1, DevNumbers DEF DevInv, Control
<1>3. TreesNotShared'
  BY <1>2 DEF DevInv, AgentsApart, TreesNotShared
<1>6. /\ \A m \in Attempts : agentIn'[m] <= attempt'
      /\ workTree' <= attempt'
  BY <1>1, <1>2, DevNumbers DEF DevInv, AgentsApart, Control
<1>4. CASE k = attempt /\ devAt = "running"
  <2>1. devAt' = "exited" /\ exit' \in {"ok", "failed"}
    BY <1>4 DEF AgentDies
  <2>2. Control'
    BY <1>1, <1>2, <2>1 DEF DevInv, Control, DevPlaces
  <2>3. Standing'
    BY <1>1, <1>4, <2>1 DEF DevInv, Standing
  <2>4. workTree' # 0 => Unseen(workTree, Attempts)'
    BY <1>1, <1>2, <1>4 DEF DevInv, AgentsApart, Unseen
  <2>5. AgentsApart'
    BY <1>1, <1>3, <1>4, <1>6, <2>1, <2>4 DEF DevInv, AgentsApart, Publishing
  <2>. QED
    BY <2>2, <2>3, <2>5 DEF ControlInv
<1>5. CASE ~(k = attempt /\ devAt = "running")
  <2>1. UNCHANGED <<devAt, exit>>
    BY <1>5 DEF AgentDies
  <2>2. Control'
    BY <1>1, <1>2, <2>1 DEF DevInv, Control
  <2>3. Standing'
    BY <1>1, <2>1 DEF DevInv, Standing
  <2>4. devAt = "resolve" => \A m \in Attempts : agentIn'[m] # attempt
    BY <1>2 DEF DevInv, AgentsApart
  <2>5. ASSUME NEW ks \in SUBSET Attempts, workTree # 0, Unseen(workTree, ks)
        PROVE  Unseen(workTree, ks)'
    BY <1>1, <1>2, <2>5 DEF Unseen
  <2>6. /\ devAt' = "ready" => Unseen(workTree, Attempts)'
        /\ devAt' = "running" => Unseen(workTree, Attempts \ {attempt})'
        /\ /\ devAt' \in {"exited", "settled"} \cup Publishing
           /\ exit' = "ok" /\ workTree' # 0
           => Unseen(workTree, Attempts)'
    BY <1>1, <2>1, <2>5 DEF DevInv, AgentsApart, Standing
  <2>7. devAt # "idle" => attempt > 0
    BY DEF DevInv, AgentsApart
  <2>8. AgentsApart'
    BY <1>1, <1>3, <1>6, <2>1, <2>4, <2>6, <2>7 DEF AgentsApart
  <2>. QED
    BY <2>2, <2>3, <2>8 DEF ControlInv
<1>. QED
  BY <1>4, <1>5

LEMMA CrashServerControl == ASSUME DevInv, CrashServer PROVE ControlInv
<1>1. devAt' = "idle" /\ workTree' = 0 /\ exit' = "ok" /\ publishOnly' \in BOOLEAN
  BY DEF CrashServer, Returns, DevInv, Control, Standing
<1>2. /\ UNCHANGED <<agentIn, attempt>>
      /\ known' = [k \in Attempts |->
           IF agentIn[k] # 0 /\ known[k] = "child" THEN "former" ELSE known[k]]
  BY DEF CrashServer
<1>3. /\ known' \in [Attempts -> {"child", "former", "missed"}]
      /\ \A k \in Attempts : known[k] = "missed" => known'[k] = "missed"
  BY <1>2 DEF DevInv, Control
<1>4. Control'
  BY <1>1, <1>2, <1>3, DevNumbers DEF DevInv, Control, DevPlaces
<1>5. Standing'
  BY <1>1 DEF Standing
<1>6. TreesNotShared'
  BY <1>2, <1>3 DEF DevInv, AgentsApart, TreesNotShared
<1>7. workTree' <= attempt'
  BY <1>1, <1>2, DevNumbers DEF DevInv, Control
<1>8. AgentsApart'
  BY <1>1, <1>2, <1>6, <1>7 DEF DevInv, AgentsApart, Publishing
<1>. QED
  BY <1>4, <1>5, <1>8 DEF ControlInv

LEMMA NextControl == ASSUME DevInv, [DevNext]_devVars PROVE ControlInv
<1>1. EndsAttempt \/ Onward \/ Turns
  BY ControlKinds DEF DevInv
<1>. QED
  BY <1>1, EndsControl, OnwardControl, BeginAttemptControl, ReuseLeftoverControl,
     AddWorktreeControl, SpawnControl, TimeoutSettlesControl, CrashServerControl,
     AgentDiesControl DEF Turns

-----------------------------------------------------------------------------
(* The checkouts *)

\* every other step keeps them where they are
LEMMA TreesMove ==
  ASSUME DevInv, [DevNext]_devVars
  PROVE  \/ AddWorktree
         \/ /\ GitShape'
            /\ \A t \in Attempts : trees'[t].on = "branch" => trees[t].on = "branch"
<1>1. CASE EffectSteps
  BY <1>1, EffectStays DEF DevInv, TreesStay
<1>2. CASE AgentActs \/ Operator
  BY <1>2, AgentActsMove, OperatorMoves DEF DevInv, AgentsMove
<1>3. CASE (\E k \in Attempts : AgentDies(k)) \/ OthersPush \/ PrCatchesUp \/ UNCHANGED devVars
  <2>1. UNCHANGED <<trees, issueRef>>
    BY <1>3 DEF AgentDies, OthersPush, PrCatchesUp, gitVars, devVars
  <2>. QED
    BY <2>1 DEF DevInv, GitShape
<1>. QED
  BY <1>1, <1>2, <1>3 DEF DevNext

LEMMA AttemptGrows ==
  ASSUME DevInv, [DevNext]_devVars
  PROVE  attempt' \in Int /\ attempt <= attempt' /\ attempt \in Int
<1>1. attempt' \in Int /\ attempt \in Int
  BY NextControl DEF DevInv, ControlInv, Control
<1>2. attempt' = attempt \/ attempt' = attempt + 1
  <2>1. EndsAttempt \/ Onward \/ Turns
    BY ControlKinds DEF DevInv
  <2>2. CASE Turns
    BY <2>2 DEF Turns, BeginAttempt, ReuseLeftover, AddWorktree, Spawn, TimeoutSettles,
       CrashServer, AgentDies
  <2>. QED
    BY <2>1, <2>2 DEF EndsAttempt, Onward
<1>. QED
  BY <1>1, <1>2

LEMMA NextOnBranch ==
  ASSUME DevInv, [DevNext]_devVars
  PROVE  GitShape' /\ OnBranch'
<1>1. CASE AddWorktree
  <2>1. attempt' = attempt /\ attempt \in Int
    BY <1>1 DEF AddWorktree, DevInv, Control
  <2>. QED
    BY <1>1, <2>1, AddWorktreeGit DEF DevInv, OnBranch
<1>2. CASE /\ GitShape'
           /\ \A t \in Attempts : trees'[t].on = "branch" => trees[t].on = "branch"
  <2>1. \A t \in Attempts : trees[t].on = "branch" => t <= attempt /\ t \in Int
    BY DEF DevInv, OnBranch, Attempts
  <2>2. \A t \in Attempts : trees'[t].on = "branch" => t <= attempt'
    BY <1>2, <2>1, AttemptGrows
  <2>. QED
    BY <1>2, <2>2 DEF DevInv, OnBranch
<1>. QED
  BY <1>1, <1>2, TreesMove

LEMMA DevInitInv == DevInit => DevInv
<1>. SUFFICES ASSUME DevInit PROVE DevInv
  OBVIOUS
<1>1. GitShape /\ OnBranch
  BY NoTreeType DEF DevInit, GitShape, OnBranch, Heads
<1>2. Ledger
  BY NoFactsType DEF DevInit, Ledger, Heads
<1>3. Control
  <2>1. 0 \in 0..MaxAttempts
    BY DevNumbers
  <2>. QED
    BY <2>1 DEF DevInit, Control, DevPlaces
<1>5. Standing
  BY DEF DevInit, Standing
<1>4. AgentsApart
  BY DEF DevInit, AgentsApart, TreesNotShared, Publishing
<1>. QED
  BY <1>1, <1>2, <1>3, <1>4, <1>5 DEF DevInv

LEMMA DevNextInv == ASSUME DevInv, [DevNext]_devVars PROVE DevInv'
BY NextControl, NextOnBranch, LedgerInv DEF DevInv, ControlInv

\* No agent that may be alive is in the checkout of another, or in one about
\* to be used, in use or being published, but for one that outlived its server
\* and that the owner check could not tell to be alive.
THEOREM DevelopersStayApart == DevSpec => []DevInv
<1>1. DevInv /\ [DevNext]_devVars => DevInv'
  BY DevNextInv
<1>. QED
  BY DevInitInv, <1>1, PTL DEF DevSpec

\* Every state is one of the model's.
THEOREM DevTypesAlways == DevSpec => []DevTypeOK
<1>1. DevInv => DevTypeOK
  BY DevTypes DEF DevInv
<1>. QED
  BY DevelopersStayApart, <1>1, PTL

\* No two live agents ever work in one checkout, for any number of attempts,
\* crashes, time-outs and orphans, unless an owner check passed over one that
\* outlived its server.
THEOREM TreesNeverShared == DevSpec => []TreesNotShared
<1>1. DevInv => TreesNotShared
  BY DEF DevInv, AgentsApart
<1>. QED
  BY DevelopersStayApart, <1>1, PTL

-----------------------------------------------------------------------------
(* What the branch on GitHub keeps *)

\* a lease push is about to replace a tip by commits with its changes
LeaseProven ==
  devAt = "lease" => Patches(evidence.remote) \subseteq Patches(evidence.local)

LEMMA ProvenKeeps ==
  ASSUME NEW ours \in Heads, NEW theirs \in Heads, ProvenEquivalent(ours, theirs)
  PROVE  LET f == Facts(ours, theirs) IN Patches(f.remote) \subseteq Patches(f.local)
<1>1. PICK c \in theirs : c \notin ours
  BY DEF ProvenEquivalent
<1>2. Patches(theirs) \subseteq Patches(ours)
  BY DEF ProvenEquivalent, Patches
<1>. QED
  BY <1>2 DEF Facts, NoFacts, Patches

LEMMA OutOfLease ==
  ASSUME [DevNext]_devVars, ~Push
  PROVE  devAt' = "lease" => devAt = "lease" /\ evidence' = evidence
<1>1. CASE BeginAttempt \/ RefuseLiveOwner \/ SalvagePredecessor \/ FetchFailsAtStart
           \/ ReuseLeftover \/ AddWorktree \/ SetUpFails \/ Spawn \/ TimeoutSettles
  BY <1>1 DEF BeginAttempt, RefuseLiveOwner, SalvagePredecessor, FetchFailsAtStart,
     ReuseLeftover, AddWorktree, SetUpFails, Spawn, TimeoutSettles, Returns, GoesTo
<1>2. CASE SessionUnusable \/ LeaveDirty \/ Salvage \/ ConcludeWithoutPush \/ GoOnToPush
           \/ ProbePasses
  BY <1>2 DEF SessionUnusable, LeaveDirty, Salvage, ConcludeWithoutPush, GoOnToPush,
     ProbePasses, Returns, GoesTo
<1>3. CASE ProbeStops \/ LeasePush \/ PushErrors \/ AfterPush \/ InspectBranch \/ CrashServer
  BY <1>3 DEF ProbeStops, LeasePush, PushErrors, AfterPush, InspectBranch, CrashServer,
     Returns, GoesTo
<1>4. CASE PrSeen \/ PrVerified \/ PrNotVerified \/ PollChecks \/ PrMoved \/ ChecksNotGreen
           \/ HandOff
  BY <1>4 DEF PrSeen, PrVerified, PrNotVerified, PollChecks, PrMoved, ChecksNotGreen, HandOff,
     GoesTo, Returns
<1>5. CASE AgentActs \/ OthersPush \/ PrCatchesUp \/ UNCHANGED devVars
  BY <1>5 DEF AgentActs, OthersPush, PrCatchesUp, devVars
<1>6. CASE \E k \in Attempts : AgentDies(k)
  BY <1>6 DEF AgentDies
<1>7. CASE Operator
  BY <1>7 DEF Operator, OperatorPushesWithLease, OperatorClearsTree
<1>. QED
  BY <1>1, <1>2, <1>3, <1>4, <1>5, <1>6, <1>7 DEF DevNext, EffectSteps

LEMMA LeaseProvenInv ==
  ASSUME DevInv, LeaseProven, [DevNext]_devVars
  PROVE  LeaseProven'
<1>1. CASE Push
  <2>. SUFFICES ASSUME devAt' = "lease"
                PROVE  Patches(evidence'.remote) \subseteq Patches(evidence'.local)
    BY DEF LeaseProven
  <2>1. evidence' = Facts(Published, origin) /\ ProvenEquivalent(Published, origin)
    BY <1>1 DEF Push, GoesTo, Returns
  <2>2. Published \in Heads /\ origin \in Heads
    BY PublishedType DEF DevInv, Ledger
  <2>. QED
    BY <2>1, <2>2, ProvenKeeps
<1>2. CASE ~Push
  BY <1>2, OutOfLease DEF LeaseProven
<1>. QED
  BY <1>1, <1>2

OriginKept == Patches(origin) \subseteq Patches(origin')

\* Only three kinds of step write there.
LEMMA OriginWritten ==
  ASSUME [DevNext]_devVars
  PROVE  \/ Push \/ LeasePush \/ OthersPush \/ OperatorPushesWithLease
         \/ origin' = origin
<1>1. CASE EffectSteps
  BY <1>1 DEF EffectSteps, BeginAttempt, RefuseLiveOwner, SalvagePredecessor,
     FetchFailsAtStart, ReuseLeftover, AddWorktree, SetUpFails, Spawn, TimeoutSettles,
     SessionUnusable, LeaveDirty, Salvage, ConcludeWithoutPush, GoOnToPush, ProbeStops,
     ProbePasses, PushErrors, AfterPush, InspectBranch, PrSeen, PrVerified, PrNotVerified,
     PollChecks, PrMoved, ChecksNotGreen, HandOff, CrashServer, gitVars
<1>2. CASE ~EffectSteps
  BY <1>2 DEF DevNext, AgentActs, AgentDies, PrCatchesUp, Operator, OperatorClearsTree,
     gitVars, devVars
<1>. QED
  BY <1>1, <1>2

LEMMA OriginStepKeeps ==
  ASSUME DevInv, LeaseProven, [DevNext]_devVars
  PROVE  OperatorPushesWithLease \/ MovedSinceProof \/ OriginKept
<1>1. CASE Push
  <2>1. origin' = origin \/ (FastForwards(origin, Published) /\ origin' = Published)
    BY <1>1 DEF Push
  <2>. QED
    BY <2>1, PatchesOf DEF FastForwards, OriginKept
<1>2. CASE LeasePush /\ ~MovedSinceProof
  <2>1. devAt = "lease" /\ Published = evidence.local
    BY <1>2 DEF LeasePush, MovedSinceProof
  <2>2. origin' = origin \/ (origin = evidence.remote /\ origin' = Published)
    BY <1>2 DEF LeasePush, LeaseHolds
  <2>. QED
    BY <2>1, <2>2 DEF LeaseProven, OriginKept
<1>3. CASE OthersPush
  BY <1>3, PatchesOf DEF OthersPush, OriginKept
<1>. QED
  BY <1>1, <1>2, <1>3, OriginWritten DEF OriginKept

\* No push takes a change off the branch on GitHub, unless a person overwrote
\* that tip or the branch was moved under the proof.
THEOREM OriginAlwaysKeeps == DevSpec => OriginKeepsChanges
<1>1. DevInv /\ LeaseProven /\ [DevNext]_devVars => LeaseProven'
  BY LeaseProvenInv
<1>2. DevInit => LeaseProven
  BY DEF DevInit, LeaseProven
<1>3. DevInv /\ LeaseProven /\ [DevNext]_devVars
      => [OperatorPushesWithLease \/ MovedSinceProof \/ OriginKept]_devVars
  BY OriginStepKeeps
<1>. QED
  BY DevelopersStayApart, <1>1, <1>2, <1>3, PTL DEF DevSpec, OriginKeepsChanges, OriginKept

-----------------------------------------------------------------------------
(* What is never lost *)

RecoverableKept == Recoverable \subseteq Recoverable'

\* A change on the branch or in its checkout is there after the step.
LEMMA StayKeeps ==
  ASSUME TreesStay, OriginKept
  PROVE  RecoverableKept
<1>1. Patches(issueRef) \subseteq Patches(issueRef')
  BY PatchesOf DEF TreesStay
<1>2. ASSUME NEW t \in Leftover
      PROVE  trees[t].edits \subseteq
               Patches(issueRef') \cup UNION {trees'[u].edits : u \in Leftover'}
  BY <1>2 DEF Leftover, TreesStay
<1>. QED
  BY <1>1, <1>2 DEF RecoverableKept, Recoverable, OriginKept

LEMMA NoLoss ==
  ASSUME DevInv, LeaseProven, [DevNext]_devVars
  PROVE  AgentActs \/ Operator \/ MovedSinceProof \/ RecoverableKept
<1>. SUFFICES ASSUME ~AgentActs, ~Operator, ~MovedSinceProof
              PROVE  RecoverableKept
  OBVIOUS
<1>1. OriginKept
  BY OriginStepKeeps DEF Operator
<1>2. CASE AddWorktree
  <2>1. Leftover = {} /\ issueRef \subseteq issueRef'
    BY <1>2, AddWorktreeGit DEF DevInv, Leftover
  <2>. QED
    BY <1>1, <2>1, PatchesOf DEF RecoverableKept, Recoverable, OriginKept
<1>3. CASE EffectSteps /\ ~AddWorktree
  BY <1>1, <1>3, EffectStays, StayKeeps DEF DevInv
<1>4. CASE (\E k \in Attempts : AgentDies(k)) \/ OthersPush \/ PrCatchesUp \/ UNCHANGED devVars
  <2>1. UNCHANGED <<trees, issueRef>>
    BY <1>4 DEF AgentDies, OthersPush, PrCatchesUp, gitVars, devVars
  <2>. QED
    BY <1>1, <2>1, GitStays, StayKeeps DEF DevInv
<1>. QED
  BY <1>2, <1>3, <1>4 DEF DevNext

\* No step of the effect, crash, time-out or removal loses a change made on
\* the issue branch.
THEOREM WorkIsNeverLost == DevSpec => WorkNeverLost
<1>1. DevInv /\ LeaseProven /\ [DevNext]_devVars => LeaseProven'
  BY LeaseProvenInv
<1>2. DevInit => LeaseProven
  BY DEF DevInit, LeaseProven
<1>3. DevInv /\ LeaseProven /\ [DevNext]_devVars
      => [AgentActs \/ Operator \/ MovedSinceProof \/ RecoverableKept]_devVars
  BY NoLoss
<1>. QED
  BY DevelopersStayApart, <1>1, <1>2, <1>3, PTL DEF DevSpec, WorkNeverLost, RecoverableKept

-----------------------------------------------------------------------------
(* What is handed off *)

\* Until somebody else has pushed, nothing of theirs is anywhere.
NoOthers(h) == OthersPatch \notin Patches(h)
TreesUnmade ==
  /\ NoOthers(issueRef)
  /\ \A t \in Attempts : NoOthers(trees[t].head) /\ OthersPatch \notin trees[t].edits
HeadsUnmade ==
  NoOthers(origin) /\ NoOthers(tracked) /\ NoOthers(pinned) /\ NoOthers(evidence.local)
Unmade == OthersPatch \in fresh => TreesUnmade /\ HeadsUnmade

LEMMA NoOthersOf ==
  /\ NoOthers({})
  /\ \A a, b : NoOthers(a \cup b) <=> NoOthers(a) /\ NoOthers(b)
BY PatchesOf DEF NoOthers, Patches

LEMMA NoTreeUnmade == NoOthers(NoTree.head) /\ OthersPatch \notin NoTree.edits
BY NoOthersOf DEF NoTree

LEMMA HeadUnmade ==
  ASSUME TreesUnmade, NEW t \in Attempts
  PROVE  NoOthers(HeadOf(t))
BY DEF TreesUnmade, HeadOf

LEMMA PublishedUnmade ==
  ASSUME Control, TreesUnmade, HeadsUnmade
  PROVE  NoOthers(Published) /\ NoOthers(PinnedNow)
BY TreeAttempt, HeadUnmade DEF Published, PinnedNow, TreesUnmade, HeadsUnmade

LEMMA RemoveUnmade ==
  ASSUME GitShape, TreesUnmade, NEW t, BestEffortRemove(t), NoOthers(issueRef')
  PROVE  TreesUnmade'
<1>1. \A u \in Attempts : trees'[u] = trees[u] \/ trees'[u] = NoTree
  BY DEF BestEffortRemove, GitShape
<1>. QED
  BY <1>1, NoTreeUnmade DEF TreesUnmade

LEMMA FastForwardUnmade ==
  ASSUME TreesUnmade, NEW head, NoOthers(head), FastForwardIssueRef(head)
  PROVE  NoOthers(issueRef')
BY DEF FastForwardIssueRef, TreesUnmade

LEMMA KeepCommitsUnmade ==
  ASSUME GitShape, Control, TreesUnmade, KeepCommits
  PROVE  TreesUnmade'
<1>1. CASE workTree = 0
  BY <1>1 DEF KeepCommits, TreesUnmade
<1>2. CASE workTree # 0
  <2>1. NoOthers(issueRef')
    BY <1>2, TreeAttempt, HeadUnmade, FastForwardUnmade DEF KeepCommits
  <2>2. BestEffortRemove(workTree) \/ UNCHANGED trees
    BY <1>2 DEF KeepCommits
  <2>. QED
    BY <2>1, <2>2, RemoveUnmade DEF TreesUnmade
<1>. QED
  BY <1>1, <1>2

LEMMA ConcludedUnmade ==
  ASSUME GitShape, TreesUnmade, Concluded, UNCHANGED issueRef
  PROVE  TreesUnmade'
<1>1. NoOthers(issueRef')
  BY DEF TreesUnmade
<1>. QED
  BY <1>1, RemoveUnmade DEF Concluded, TreesUnmade

LEMMA SalvageUnmade ==
  ASSUME GitShape, TreesUnmade, NEW t \in Attempts, SalvageCommit(t)
  PROVE  TreesUnmade'
<1> DEFINE saved == Committed(trees[t].edits)
<1>1. NoOthers(saved)
  BY CommittedOf DEF NoOthers, TreesUnmade, GitShape, TreeRecs
<1>2. \/ issueRef' = issueRef \cup saved /\ trees' = [trees EXCEPT ![t].edits = {}]
      \/ /\ trees' = [trees EXCEPT ![t].edits = {}, ![t].head = @ \cup saved]
         /\ issueRef' = issueRef
  BY DEF SalvageCommit
<1>. HIDE DEF saved
<1>3. NoOthers(issueRef')
  BY <1>1, <1>2, NoOthersOf DEF TreesUnmade
<1>4. \A u \in Attempts : trees'[u].edits = trees[u].edits \/ trees'[u].edits = {}
  BY <1>2 DEF GitShape, TreeRecs
<1>5. \A u \in Attempts : \/ trees'[u].head = trees[u].head
                          \/ trees'[u].head = trees[u].head \cup saved
  BY <1>2 DEF GitShape, TreeRecs
<1>. QED
  BY <1>1, <1>3, <1>4, <1>5, NoOthersOf DEF TreesUnmade

LEMMA AgentActsUnmade ==
  ASSUME GitShape, Ledger, TreesUnmade, AgentActs
  PROVE  TreesUnmade'
<1>. SUFFICES ASSUME NEW t \in Attempts,
                     AgentEdits(t) \/ AgentCommits(t) \/ AgentRewrites(t) \/ AgentLeavesBranch(t)
              PROVE  TreesUnmade'
  BY DEF AgentActs
<1>1. CASE AgentEdits(t)
  <2>1. PICK p \in fresh \ {OthersPatch} :
          trees' = [trees EXCEPT ![t].edits = @ \cup {p}] /\ issueRef' = issueRef
    BY <1>1 DEF AgentEdits
  <2>2. \A u \in Attempts : /\ trees'[u].head = trees[u].head
                            /\ trees'[u].edits \subseteq trees[u].edits \cup {p}
    BY <2>1 DEF GitShape, TreeRecs
  <2>. QED
    BY <2>1, <2>2 DEF TreesUnmade
<1>2. CASE AgentCommits(t)
  BY <1>2, SalvageUnmade DEF AgentCommits
<1>3. CASE AgentRewrites(t)
  <2>1. PICK ps \in SUBSET Patches(HeadOf(t)) :
          LET redone == [patch : ps, text : {"again"}] IN
          IF trees[t].on = "branch"
          THEN issueRef' = redone /\ UNCHANGED trees
          ELSE trees' = [trees EXCEPT ![t].head = redone] /\ UNCHANGED issueRef
    BY <1>3 DEF AgentRewrites
  <2> DEFINE redone == [patch : ps, text : {"again"}]
  <2>2. NoOthers(redone)
    <3>1. OthersPatch \notin ps
      BY HeadUnmade DEF NoOthers
    <3>. QED
      BY <3>1 DEF NoOthers, Patches
  <2>3. \/ issueRef' = redone /\ UNCHANGED trees
        \/ trees' = [trees EXCEPT ![t].head = redone] /\ UNCHANGED issueRef
    BY <2>1
  <2>. HIDE DEF redone
  <2>4. CASE issueRef' = redone /\ UNCHANGED trees
    BY <2>2, <2>4 DEF TreesUnmade
  <2>5. CASE trees' = [trees EXCEPT ![t].head = redone] /\ UNCHANGED issueRef
    <3>1. \A u \in Attempts : /\ trees'[u].head = trees[u].head \/ trees'[u].head = redone
                              /\ trees'[u].edits = trees[u].edits
      BY <2>5 DEF GitShape, TreeRecs
    <3>. QED
      BY <2>2, <2>5, <3>1 DEF TreesUnmade
  <2>. QED
    BY <2>3, <2>4, <2>5
<1>4. CASE AgentLeavesBranch(t)
  <2>1. trees' = [trees EXCEPT ![t].on = "side", ![t].head = issueRef] /\ issueRef' = issueRef
    BY <1>4 DEF AgentLeavesBranch
  <2>2. \A u \in Attempts : /\ trees'[u].head = trees[u].head \/ trees'[u].head = issueRef
                            /\ trees'[u].edits = trees[u].edits
    BY <2>1 DEF GitShape, TreeRecs
  <2>. QED
    BY <2>1, <2>2 DEF TreesUnmade
<1>. QED
  BY <1>1, <1>2, <1>3, <1>4

\* No step brings what is not there into a checkout or onto the branch.
LEMMA TreesStayUnmade ==
  ASSUME GitShape, Ledger, Control, Standing, TreesUnmade, HeadsUnmade, [DevNext]_devVars
  PROVE  TreesUnmade'
<1>1. CASE UNCHANGED <<issueRef, trees>>
  BY <1>1 DEF TreesUnmade
<1>2. CASE BeginAttempt
  <2>1. issueRef' = issueRef
        /\ \A t \in Attempts : trees'[t] = trees[t] \/ trees'[t] = NoTree
    BY <1>2 DEF BeginAttempt
  <2>. QED
    BY <2>1, NoTreeUnmade DEF TreesUnmade
<1>3. CASE SalvagePredecessor \/ Salvage
  BY <1>1, <1>3, SalvageUnmade, TreeAttempt
     DEF SalvagePredecessor, Salvage, Leftover, Standing
<1>4. CASE ReuseLeftover
  <2>1. trees' = trees /\ (FastForwardIssueRef(origin) \/ issueRef' = issueRef)
    BY <1>4 DEF ReuseLeftover
  <2>. QED
    BY <2>1, FastForwardUnmade DEF TreesUnmade, HeadsUnmade
<1>5. CASE AddWorktree
  <2>1. NoOthers(issueRef')
    BY <1>5, FastForwardUnmade DEF AddWorktree, HeadsUnmade
  <2>2. trees' = trees \/ trees' = [trees EXCEPT ![attempt].on = "branch"]
    BY <1>5 DEF AddWorktree
  <2>3. \A t \in Attempts : trees'[t].head = trees[t].head /\ trees'[t].edits = trees[t].edits
    BY <2>2 DEF GitShape, TreeRecs
  <2>. QED
    BY <2>1, <2>3 DEF TreesUnmade
<1>6. CASE SetUpFails \/ ConcludeWithoutPush
  <2>1. issueRef' = issueRef /\ (trees' = trees \/ BestEffortRemove(workTree))
    BY <1>6 DEF SetUpFails, ConcludeWithoutPush
  <2>2. NoOthers(issueRef')
    BY <2>1 DEF TreesUnmade
  <2>. QED
    BY <1>1, <2>1, <2>2, RemoveUnmade
<1>7. CASE ProbeStops
  BY <1>1, <1>7, KeepCommitsUnmade DEF ProbeStops
<1>8. CASE AfterPush
  <2>1. trees' = trees
        /\ (issueRef' = issueRef \/ (workTree # 0 /\ FastForwardIssueRef(HeadOf(workTree))))
    BY <1>8 DEF AfterPush
  <2>. QED
    BY <2>1, TreeAttempt, HeadUnmade, FastForwardUnmade DEF TreesUnmade
<1>9. CASE PrNotVerified \/ PrMoved \/ ChecksNotGreen \/ HandOff
  BY <1>9, ConcludedUnmade DEF PrNotVerified, PrMoved, ChecksNotGreen, HandOff
<1>10. CASE AgentActs
  BY <1>10, AgentActsUnmade
<1>11. CASE OperatorClearsTree
  <2>1. PICK t : trees' = [trees EXCEPT ![t] = NoTree]
    BY <1>11 DEF OperatorClearsTree
  <2>2. issueRef' = issueRef
        /\ \A u \in Attempts : trees'[u] = trees[u] \/ trees'[u] = NoTree
    BY <1>11, <2>1 DEF OperatorClearsTree, GitShape
  <2>. QED
    BY <2>2, NoTreeUnmade DEF TreesUnmade
<1>12. CASE (\E k \in Attempts : AgentDies(k)) \/ OthersPush \/ PrCatchesUp
            \/ OperatorPushesWithLease \/ UNCHANGED devVars
  BY <1>1, <1>12 DEF AgentDies, OthersPush, PrCatchesUp, OperatorPushesWithLease, gitVars,
     devVars
<1>13. CASE RefuseLiveOwner \/ FetchFailsAtStart \/ Spawn \/ TimeoutSettles
            \/ SessionUnusable \/ LeaveDirty \/ GoOnToPush \/ ProbePasses
  BY <1>1, <1>13 DEF RefuseLiveOwner, FetchFailsAtStart, Spawn, TimeoutSettles,
     SessionUnusable, LeaveDirty, GoOnToPush, ProbePasses, gitVars
<1>14. CASE Push \/ LeasePush \/ PushErrors \/ InspectBranch
            \/ PrSeen \/ PrVerified \/ PollChecks \/ CrashServer
  BY <1>1, <1>14 DEF Push, LeasePush, PushErrors, InspectBranch, PrSeen, PrVerified,
     PollChecks, CrashServer, gitVars
<1>. QED
  BY <1>2, <1>3, <1>4, <1>5, <1>6, <1>7, <1>8, <1>9, <1>10, <1>11, <1>12, <1>13, <1>14, Zenon
  DEF DevNext, EffectSteps, Operator

\* where the heads that are kept come from
HeadsKept == UNCHANGED <<origin, tracked, evidence>> /\ (pinned' = pinned \/ pinned' = {})

LEMMA PlainHeads ==
  ASSUME \/ RefuseLiveOwner \/ SalvagePredecessor \/ FetchFailsAtStart \/ SetUpFails
         \/ Spawn \/ TimeoutSettles \/ SessionUnusable \/ LeaveDirty \/ Salvage
         \/ ConcludeWithoutPush \/ GoOnToPush \/ ProbeStops \/ ProbePasses
         \/ PushErrors \/ PrVerified \/ PrNotVerified \/ PollChecks \/ PrMoved
         \/ ChecksNotGreen \/ HandOff \/ CrashServer
         \/ AgentActs \/ (\E k \in Attempts : AgentDies(k)) \/ PrCatchesUp
         \/ OperatorClearsTree \/ UNCHANGED devVars
  PROVE  HeadsKept
<1>1. CASE RefuseLiveOwner \/ SalvagePredecessor \/ FetchFailsAtStart \/ SetUpFails
           \/ Spawn \/ TimeoutSettles
  BY <1>1 DEF RefuseLiveOwner, SalvagePredecessor, FetchFailsAtStart, SetUpFails, Spawn,
     TimeoutSettles, Returns, GoesTo, gitVars, HeadsKept
<1>2. CASE SessionUnusable \/ LeaveDirty \/ Salvage \/ ConcludeWithoutPush \/ GoOnToPush
           \/ ProbeStops \/ ProbePasses
  BY <1>2 DEF SessionUnusable, LeaveDirty, Salvage, ConcludeWithoutPush, GoOnToPush,
     ProbeStops, ProbePasses, Returns, GoesTo, gitVars, HeadsKept
<1>3. CASE PushErrors \/ PrVerified \/ PrNotVerified \/ PollChecks \/ PrMoved
  BY <1>3 DEF PushErrors, PrVerified, PrNotVerified, PollChecks, PrMoved, Returns, GoesTo,
     gitVars, HeadsKept
<1>4. CASE ChecksNotGreen \/ HandOff \/ CrashServer
  BY <1>4 DEF ChecksNotGreen, HandOff, CrashServer, Returns, gitVars, HeadsKept
<1>5. CASE AgentActs \/ PrCatchesUp \/ OperatorClearsTree \/ UNCHANGED devVars
  BY <1>5 DEF AgentActs, PrCatchesUp, OperatorClearsTree, devVars, gitVars, HeadsKept
<1>6. CASE \E k \in Attempts : AgentDies(k)
  BY <1>6 DEF AgentDies, gitVars, HeadsKept
<1>. QED
  BY <1>1, <1>2, <1>3, <1>4, <1>5, <1>6

LEMMA HeadsStayUnmade ==
  ASSUME Control, TreesUnmade, HeadsUnmade, [DevNext]_devVars, ~OthersPush
  PROVE  HeadsUnmade'
<1>1. NoOthers(Published) /\ NoOthers(PinnedNow)
  BY PublishedUnmade
<1>2. CASE HeadsKept
  BY <1>2, NoOthersOf DEF HeadsKept, HeadsUnmade
<1>3. CASE Push \/ LeasePush
  <2>1. /\ origin' = origin \/ origin' = Published
        /\ tracked' = origin \/ tracked' = Published
        /\ pinned' = pinned \/ pinned' = {}
    BY <1>3 DEF Push, LeasePush, Returns, GoesTo
  <2>2. \/ evidence' = evidence \/ evidence' = NoFacts
        \/ evidence' = [local |-> Published, remote |-> origin]
    BY <1>3 DEF Push, LeasePush, Facts
  <2>3. NoOthers(evidence'.local)
    BY <1>1, <2>2, NoOthersOf DEF HeadsUnmade, NoFacts
  <2>. QED
    BY <1>1, <2>1, <2>3, NoOthersOf DEF HeadsUnmade
<1>4. CASE BeginAttempt \/ ReuseLeftover \/ AddWorktree \/ AfterPush \/ InspectBranch
  <2>1. /\ origin' = origin
        /\ tracked' = tracked \/ tracked' = origin
        /\ pinned' = pinned \/ pinned' = {}
    BY <1>4 DEF BeginAttempt, ReuseLeftover, AddWorktree, AfterPush, InspectBranch,
       Returns, GoesTo
  <2>2. evidence' = evidence \/ evidence' = NoFacts
    BY <1>4 DEF BeginAttempt, ReuseLeftover, AddWorktree, AfterPush, InspectBranch
  <2>3. NoOthers(evidence'.local)
    BY <2>2, NoOthersOf DEF HeadsUnmade, NoFacts
  <2>. QED
    BY <2>1, <2>3, NoOthersOf DEF HeadsUnmade
<1>5. CASE PrSeen
  BY <1>1, <1>5 DEF PrSeen, gitVars, HeadsUnmade
<1>6. CASE OperatorPushesWithLease
  BY <1>6, NoOthersOf DEF OperatorPushesWithLease, NoFacts, HeadsUnmade
<1>. QED
  BY <1>2, <1>3, <1>4, <1>5, <1>6, PlainHeads, Zenon DEF DevNext, EffectSteps, Operator

LEMMA FreshShrinks ==
  ASSUME [DevNext]_devVars
  PROVE  fresh' \subseteq fresh
<1>1. CASE EffectSteps
  BY <1>1 DEF EffectSteps, BeginAttempt, RefuseLiveOwner, SalvagePredecessor,
     FetchFailsAtStart, ReuseLeftover, AddWorktree, SetUpFails, Spawn, TimeoutSettles,
     SessionUnusable, LeaveDirty, Salvage, ConcludeWithoutPush, GoOnToPush, ProbeStops,
     ProbePasses, Push, LeasePush, PushErrors, AfterPush, InspectBranch, PrSeen,
     PrVerified, PrNotVerified, PollChecks, PrMoved, ChecksNotGreen, HandOff,
     CrashServer, gitVars
<1>2. CASE AgentActs
  BY <1>2 DEF AgentActs, AgentEdits, AgentCommits, AgentRewrites, AgentLeavesBranch
<1>3. CASE ~EffectSteps /\ ~AgentActs
  BY <1>3 DEF DevNext, AgentDies, OthersPush, PrCatchesUp, Operator,
     OperatorPushesWithLease, OperatorClearsTree, gitVars, devVars
<1>. QED
  BY <1>1, <1>2, <1>3

LEMMA UnmadeInv ==
  ASSUME DevInv, Unmade, [DevNext]_devVars
  PROVE  Unmade'
<1>. SUFFICES ASSUME OthersPatch \in fresh'
              PROVE  TreesUnmade' /\ HeadsUnmade'
  BY DEF Unmade
<1>1. TreesUnmade /\ HeadsUnmade
  BY FreshShrinks DEF Unmade
<1>2. ~OthersPush
  BY DEF OthersPush
<1>. QED
  BY <1>1, <1>2, TreesStayUnmade, HeadsStayUnmade DEF DevInv

\* From the verified PR on: once the PR has moved off the head it is held to,
\* so has the branch, and the poll that saw another head saw it after that.
HeldPlaces == {"checks", "polled"}
HeldToPinned ==
  devAt \in HeldPlaces =>
    /\ prHead # pinned => pinned # origin
    /\ devAt = "polled" /\ ciSeen.head # pinned => prHead # pinned

OtherActs ==
  \/ AgentActs \/ (\E k \in Attempts : AgentDies(k)) \/ OthersPush \/ PrCatchesUp

LEMMA IntoHeld ==
  ASSUME [DevNext]_devVars, devAt' \in HeldPlaces
  PROVE  \/ PrVerified \/ PollChecks
         \/ devAt' = devAt /\ (OtherActs \/ UNCHANGED devVars)
<1>1. CASE BeginAttempt \/ RefuseLiveOwner \/ SalvagePredecessor \/ FetchFailsAtStart
           \/ ReuseLeftover \/ AddWorktree \/ SetUpFails \/ Spawn \/ TimeoutSettles
  BY <1>1 DEF BeginAttempt, RefuseLiveOwner, SalvagePredecessor, FetchFailsAtStart,
     ReuseLeftover, AddWorktree, SetUpFails, Spawn, TimeoutSettles, Returns, GoesTo,
     HeldPlaces
<1>2. CASE SessionUnusable \/ LeaveDirty \/ Salvage \/ ConcludeWithoutPush \/ GoOnToPush
           \/ ProbePasses
  BY <1>2 DEF SessionUnusable, LeaveDirty, Salvage, ConcludeWithoutPush, GoOnToPush,
     ProbePasses, Returns, GoesTo, HeldPlaces
<1>3. CASE ProbeStops \/ PushErrors
  BY <1>3 DEF ProbeStops, PushErrors, Returns, HeldPlaces
<1>4. CASE CrashServer
  BY <1>4 DEF CrashServer, Returns, HeldPlaces
<1>5. CASE Push \/ LeasePush \/ InspectBranch \/ AfterPush \/ PrSeen
  BY <1>5 DEF Push, LeasePush, InspectBranch, AfterPush, PrSeen, Returns, GoesTo, HeldPlaces
<1>6. CASE PrNotVerified \/ PrMoved \/ ChecksNotGreen \/ HandOff
  BY <1>6 DEF PrNotVerified, PrMoved, ChecksNotGreen, HandOff, Returns, HeldPlaces
<1>7. CASE AgentActs \/ OthersPush \/ PrCatchesUp \/ UNCHANGED devVars
  BY <1>7 DEF AgentActs, OthersPush, PrCatchesUp, devVars, OtherActs
<1>8. CASE \E k \in Attempts : AgentDies(k)
  BY <1>8 DEF AgentDies, OtherActs, HeldPlaces
<1>9. CASE Operator
  BY <1>9 DEF Operator, OperatorPushesWithLease, OperatorClearsTree, HeldPlaces
<1>. QED
  BY <1>1, <1>2, <1>3, <1>4, <1>5, <1>6, <1>7, <1>8, <1>9, Zenon DEF DevNext, EffectSteps

\* What the others do leaves the order as it is: the one who pushes brings
\* what the pinned head has not.
LEMMA OthersHold ==
  ASSUME Unmade, HeldToPinned, OtherActs, devAt \in HeldPlaces, devAt' = devAt
  PROVE  HeldToPinned'
<1>1. CASE AgentActs \/ \E k \in Attempts : AgentDies(k)
  BY <1>1 DEF AgentActs, AgentDies, gitVars, prVars, HeldToPinned
<1>2. CASE PrCatchesUp
  BY <1>2 DEF PrCatchesUp, gitVars, HeldToPinned
<1>3. CASE OthersPush
  <2>1. OthersPatch \notin Patches(pinned)
    BY <1>3 DEF OthersPush, Unmade, HeadsUnmade, NoOthers
  <2>2. OthersPatch \in Patches(origin')
    <3>1. Patches(Committed({OthersPatch})) = {OthersPatch}
      BY CommittedOf DEF Patch
    <3>. QED
      BY <1>3, <3>1, PatchesOf DEF OthersPush
  <2>. QED
    BY <1>3, <2>1, <2>2 DEF OthersPush, prVars, HeldToPinned
<1>. QED
  BY <1>1, <1>2, <1>3 DEF OtherActs

LEMMA HeldInv ==
  ASSUME Unmade, HeldToPinned, [DevNext]_devVars
  PROVE  HeldToPinned'
<1>1. CASE devAt' \notin HeldPlaces
  BY <1>1 DEF HeldToPinned
<1>2. CASE UNCHANGED devVars
  BY <1>2 DEF devVars, HeldToPinned
<1>3. CASE PrVerified
  BY <1>3 DEF PrVerified, GoesTo, HeldToPinned
<1>4. CASE PollChecks
  <2>1. /\ devAt = "checks" /\ UNCHANGED <<origin, pinned, prHead>>
        /\ ciSeen'.head = prHead
    BY <1>4 DEF PollChecks, gitVars
  <2>. QED
    BY <2>1 DEF HeldToPinned, HeldPlaces
<1>. QED
  BY <1>1, <1>2, <1>3, <1>4, IntoHeld, OthersHold

HandedOffChecked ==
  handedOff' # handedOff =>
    handedOff' = pinned /\ ciSeen = [head |-> handedOff', says |-> "success"]

LEMMA StepHandsOff ==
  ASSUME DevInv, HeldToPinned, [DevNext]_devVars
  PROVE  HandedOffChecked
<1>1. CASE HandOff
  <2>1. devAt = "polled" /\ prHead = pinned /\ ciSeen.says = "success" /\ handedOff' = prHead
    BY <1>1 DEF HandOff, StillOurs
  <2>2. ciSeen.head = prHead
    BY <2>1 DEF HeldToPinned, HeldPlaces
  <2>3. ciSeen = [head |-> prHead, says |-> "success"]
    BY <2>1, <2>2 DEF DevInv, Ledger
  <2>. QED
    BY <2>1, <2>3 DEF HandedOffChecked
<1>2. CASE EffectSteps /\ ~HandOff
  BY <1>2 DEF EffectSteps, BeginAttempt, RefuseLiveOwner, SalvagePredecessor,
     FetchFailsAtStart, ReuseLeftover, AddWorktree, SetUpFails, Spawn, TimeoutSettles,
     SessionUnusable, LeaveDirty, Salvage, ConcludeWithoutPush, GoOnToPush, ProbeStops,
     ProbePasses, Push, LeasePush, PushErrors, AfterPush, InspectBranch, PrSeen,
     PrVerified, PrNotVerified, PollChecks, PrMoved, ChecksNotGreen, CrashServer, prVars,
     HandedOffChecked
<1>3. CASE ~EffectSteps
  BY <1>3 DEF DevNext, AgentActs, AgentDies, OthersPush, PrCatchesUp, Operator,
     OperatorPushesWithLease, OperatorClearsTree, prVars, devVars, HandedOffChecked
<1>. QED
  BY <1>1, <1>2, <1>3

\* What is handed to the reviewer is the head the attempt held the PR to and
\* the head whose checks were seen green, whoever pushed or worked on in
\* between.
THEOREM HandoffAlwaysChecked == DevSpec => HandoffWasChecked
<1>1. DevInv /\ Unmade /\ [DevNext]_devVars => Unmade'
  BY UnmadeInv
<1>2. Unmade /\ HeldToPinned /\ [DevNext]_devVars => HeldToPinned'
  BY HeldInv
<1>3. DevInit => Unmade /\ HeldToPinned
  <2>1. DevInit => TreesUnmade
    BY NoTreeUnmade, NoOthersOf DEF DevInit, TreesUnmade
  <2>2. DevInit => HeadsUnmade
    BY NoOthersOf DEF DevInit, HeadsUnmade, NoFacts
  <2>. QED
    BY <2>1, <2>2 DEF DevInit, Unmade, HeldToPinned, HeldPlaces
<1>4. DevInv /\ HeldToPinned /\ [DevNext]_devVars => [HandedOffChecked]_devVars
  BY StepHandsOff
<1>. QED
  BY DevelopersStayApart, <1>1, <1>2, <1>3, <1>4, PTL
  DEF DevSpec, HandoffWasChecked, HandedOffChecked
=============================================================================
