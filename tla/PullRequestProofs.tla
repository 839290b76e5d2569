------------------------- MODULE PullRequestProofs --------------------------
(***************************************************************************)
(* What Dealer does to a pull request: the syncs of its branch with the    *)
(* base, and the review it posts.                                          *)
(*                                                                         *)
(* A sync changes the PR by the base alone, for any set of commits.  What  *)
(* makes it so: a sync that does not know of a move under it is alone in   *)
(* the checkout, the checkout holds the branch against every worker, and   *)
(* the branch carries exactly the commits of the tip the sync fetched.     *)
(*                                                                         *)
(* One review stands per work item, and the workflow's verdict is that     *)
(* one, for any number of attempts, looks and verdicts.  The row is what   *)
(* the argument turns on: a call is only made by the one claimant, a       *)
(* failed or fresh row has no standing review, and a published row names   *)
(* the one that stands and never changes again.                            *)
(***************************************************************************)
EXTENDS ConflictSync, ReviewPublication, TLAPS


\* places where a sync works in the checkout, and where its merge may be pushed
Working == {"ready", "merged", "aborting", "resetting", "pushing"}
Merging == {"ready", "merged", "pushing"}

SyncShape ==
  /\ prTip \in Tips /\ prRef \in Tips
  /\ checkout \in {"none", "clean", "dirty"}
  /\ sync \in [Syncer -> [at : SyncPlaces, tip : Tips, head : Tips,
                          adopted : BOOLEAN, moved : BOOLEAN]]

Undisturbed(s) == sync[s].at \in Merging /\ ~sync[s].moved

AloneWhenUndisturbed ==
  \A s, t \in Syncer : Undisturbed(s) /\ s # t => sync[t].at \notin Working

CheckoutKeepsWorkersOut == elsewhere => checkout = "none"

BranchIsTheTip ==
  \A s \in Syncer : Undisturbed(s) /\ checkout # "none" => prRef.own = sync[s].tip.own

PushesAtTheTip ==
  \A s \in Syncer : Undisturbed(s) /\ sync[s].at = "pushing" => prTip = sync[s].tip

SyncInv ==
  /\ SyncShape /\ AloneWhenUndisturbed /\ CheckoutKeepsWorkersOut
  /\ BranchIsTheTip /\ PushesAtTheTip

-----------------------------------------------------------------------------
(* One sync moves, the others stay *)

Others(s) == \A t \in Syncer : t # s => sync'[t] = sync[t]

LEMMA NoSyncType == NoSync \in [at : SyncPlaces, tip : Tips, head : Tips,
                                adopted : BOOLEAN, moved : BOOLEAN]
BY DEF NoSync, NoTip, Tips, SyncPlaces

LEMMA SyncInitInv == SyncInit => SyncInv
<1>. SUFFICES ASSUME SyncInit PROVE SyncInv
  OBVIOUS
<1>1. NoTip \in Tips
  BY DEF NoTip, Tips
<1>2. SyncShape
  BY <1>1, NoSyncType DEF SyncInit, SyncShape
<1>3. \A s \in Syncer : ~Undisturbed(s)
  BY DEF SyncInit, NoSync, Undisturbed, Merging
<1>. QED
  BY <1>2, <1>3 DEF SyncInv, AloneWhenUndisturbed, CheckoutKeepsWorkersOut,
                    BranchIsTheTip, PushesAtTheTip, SyncInit

LEMMA OneMoves ==
  ASSUME SyncShape, NEW s \in Syncer, NEW r \in [at : SyncPlaces, tip : Tips,
           head : Tips, adopted : BOOLEAN, moved : BOOLEAN],
         sync' = [sync EXCEPT ![s] = r]
  PROVE  /\ sync' \in [Syncer -> [at : SyncPlaces, tip : Tips, head : Tips,
                                  adopted : BOOLEAN, moved : BOOLEAN]]
         /\ sync'[s] = r
         /\ Others(s)
BY DEF SyncShape, Others

LEMMA GoesMoves ==
  ASSUME SyncShape, NEW s \in Syncer, NEW place \in SyncPlaces, Goes(s, place)
  PROVE  /\ sync' \in [Syncer -> [at : SyncPlaces, tip : Tips, head : Tips,
                                  adopted : BOOLEAN, moved : BOOLEAN]]
         /\ sync'[s] = [sync[s] EXCEPT !.at = place]
         /\ sync'[s].at = place /\ sync'[s].tip = sync[s].tip
         /\ sync'[s].moved = sync[s].moved
         /\ Others(s)
BY DEF SyncShape, Others, Goes

LEMMA LeavesMoves ==
  ASSUME SyncShape, NEW s \in Syncer, GivesUp(s) \/ Cleans(s)
  PROVE  /\ sync' \in [Syncer -> [at : SyncPlaces, tip : Tips, head : Tips,
                                  adopted : BOOLEAN, moved : BOOLEAN]]
         /\ sync'[s].at \in {"idle", "cleaning"}
         /\ Others(s)
<1>1. [NoSync EXCEPT !.at = "cleaning"] \in
        [at : SyncPlaces, tip : Tips, head : Tips, adopted : BOOLEAN, moved : BOOLEAN]
  BY NoSyncType DEF SyncPlaces
<1>2. NoSync.at = "idle" /\ [NoSync EXCEPT !.at = "cleaning"].at = "cleaning"
  BY DEF NoSync
<1>. QED
  BY <1>1, <1>2, NoSyncType DEF SyncShape, Others, GivesUp, Cleans

-----------------------------------------------------------------------------
(* The kinds of step *)

\* A sync outside the checkout starts, goes on or leaves: it disturbs nobody.
LEMMA OutsideKeepsInv ==
  ASSUME SyncInv, NEW s \in Syncer, Others(s), SyncShape',
         sync'[s].at \notin Working,
         prTip' = prTip, prRef' = prRef, elsewhere' = elsewhere,
         checkout = "none" => checkout' = "none"
  PROVE  SyncInv'
<1>1. \A t \in Syncer : Undisturbed(t)' => t # s /\ Undisturbed(t)
  BY DEF Undisturbed, Others, Merging, Working
<1>2. AloneWhenUndisturbed'
  BY <1>1 DEF SyncInv, AloneWhenUndisturbed, Others
<1>3. CheckoutKeepsWorkersOut'
  BY DEF SyncInv, CheckoutKeepsWorkersOut
<1>4. BranchIsTheTip' /\ PushesAtTheTip'
  BY <1>1 DEF SyncInv, BranchIsTheTip, PushesAtTheTip, Others
<1>. QED
  BY <1>2, <1>3, <1>4 DEF SyncInv

\* A sync at work in the checkout is either disturbed or alone: whatever it does
\* to the branch, only its own claim is at stake.
LEMMA InsideKeepsInv ==
  ASSUME SyncInv, NEW s \in Syncer, Others(s), SyncShape',
         sync[s].at \in Working,
         Undisturbed(s)' =>
           /\ Undisturbed(s) /\ sync'[s].tip = sync[s].tip
           /\ prRef'.own = prRef.own
           /\ sync'[s].at = "pushing" => prTip' = sync[s].tip,
         elsewhere' = elsewhere,
         checkout = "none" => checkout' = "none"
  PROVE  SyncInv'
<1>1. \A t \in Syncer : t # s => ~Undisturbed(t)
  BY DEF SyncInv, AloneWhenUndisturbed
<1>2. \A t \in Syncer : Undisturbed(t)' => t = s
  BY <1>1 DEF Undisturbed, Others
<1>3. AloneWhenUndisturbed'
  BY <1>2 DEF SyncInv, AloneWhenUndisturbed, Others
<1>4. CheckoutKeepsWorkersOut'
  BY DEF SyncInv, CheckoutKeepsWorkersOut
<1>5. BranchIsTheTip' /\ PushesAtTheTip'
  BY <1>2 DEF SyncInv, BranchIsTheTip, PushesAtTheTip
<1>. QED
  BY <1>3, <1>4, <1>5 DEF SyncInv

\* The branch or origin moves outside every sync, which notices a push at the
\* moment of its own.
LEMMA MovedKeepsInv ==
  ASSUME SyncInv, SyncShape', OriginMoved,
         prRef' = prRef \/ checkout = "none",
         UNCHANGED <<checkout, elsewhere>>
  PROVE  SyncInv'
<1>1. \A t \in Syncer : sync'[t].at = sync[t].at /\ sync'[t].tip = sync[t].tip
  BY DEF OriginMoved, SyncInv, SyncShape
<1>2. \A t \in Syncer : Undisturbed(t)' => Undisturbed(t) /\ sync[t].at # "pushing"
  BY <1>1 DEF OriginMoved, Undisturbed, SyncInv, SyncShape
<1>3. AloneWhenUndisturbed' /\ CheckoutKeepsWorkersOut'
  BY <1>1, <1>2 DEF SyncInv, AloneWhenUndisturbed, CheckoutKeepsWorkersOut
<1>4. BranchIsTheTip' /\ PushesAtTheTip'
  BY <1>1, <1>2 DEF SyncInv, BranchIsTheTip, PushesAtTheTip
<1>. QED
  BY <1>3, <1>4 DEF SyncInv

-----------------------------------------------------------------------------
(* The actions *)

LEMMA SyncStartsInv ==
  ASSUME SyncInv, NEW s \in Syncer, SyncStarts(s)
  PROVE  SyncInv'
<1> DEFINE r == [sync[s] EXCEPT !.at = "found", !.adopted = (checkout = "clean")]
<1>1. /\ r \in [at : SyncPlaces, tip : Tips, head : Tips, adopted : BOOLEAN, moved : BOOLEAN]
      /\ r.at = "found"
  BY DEF SyncInv, SyncShape, SyncPlaces
<1>2. sync' = [sync EXCEPT ![s] = r]
  BY DEF SyncStarts
<1>. HIDE DEF r
<1>3. SyncShape' /\ sync'[s].at = "found" /\ Others(s)
  BY <1>1, <1>2, OneMoves DEF SyncInv, SyncShape, SyncStarts, tipVars
<1>. QED
  BY <1>3, OutsideKeepsInv DEF SyncStarts, tipVars, Working

LEMMA FetchTipInv ==
  ASSUME SyncInv, NEW s \in Syncer, FetchTip(s)
  PROVE  SyncInv'
<1>1. SyncShape'
  <2>1. prTip' \in Tips /\ prRef' \in Tips /\ checkout' \in {"none", "clean", "dirty"}
    BY DEF SyncInv, SyncShape, FetchTip, tipVars
  <2>2. \A t \in Syncer : InCheckout(t) \in BOOLEAN
    BY DEF InCheckout
  <2>3. sync' \in [Syncer -> [at : SyncPlaces, tip : Tips, head : Tips,
                              adopted : BOOLEAN, moved : BOOLEAN]]
    BY <2>2 DEF SyncInv, SyncShape, FetchTip, SyncPlaces
  <2>. QED
    BY <2>1, <2>3 DEF SyncShape
<1>2. sync'[s].at = "fetched"
  BY DEF SyncInv, SyncShape, FetchTip
<1>3. \A t \in Syncer : t # s =>
        sync'[t].at = sync[t].at /\ sync'[t].tip = sync[t].tip
  BY DEF SyncInv, SyncShape, FetchTip
<1>4. \A t \in Syncer : Undisturbed(t)' => t # s /\ Undisturbed(t) /\ prRef' = prRef
  <2>. SUFFICES ASSUME NEW t \in Syncer, Undisturbed(t)'
                PROVE  t # s /\ Undisturbed(t) /\ prRef' = prRef
    OBVIOUS
  <2>1. t # s
    BY <1>2 DEF Undisturbed, Merging
  <2>2. sync[t].at \in Merging
    BY <1>3, <2>1 DEF Undisturbed
  <2>3. InCheckout(t)
    BY <2>2 DEF InCheckout, Merging
  <2>4. ~(sync[t].moved \/ (InCheckout(t) /\ prRef # prTip))
    BY <2>1 DEF Undisturbed, FetchTip, SyncInv, SyncShape
  <2>. QED
    BY <2>1, <2>2, <2>3, <2>4 DEF Undisturbed, FetchTip
<1>5. AloneWhenUndisturbed'
  BY <1>2, <1>3, <1>4 DEF SyncInv, AloneWhenUndisturbed, Working
<1>6. /\ checkout' = "none" <=> checkout = "none"
      /\ elsewhere' = elsewhere /\ prTip' = prTip
  BY DEF FetchTip, tipVars
<1>7. CheckoutKeepsWorkersOut'
  BY <1>6 DEF SyncInv, CheckoutKeepsWorkersOut
<1>8. BranchIsTheTip' /\ PushesAtTheTip'
  BY <1>3, <1>4, <1>6 DEF SyncInv, BranchIsTheTip, PushesAtTheTip
<1>. QED
  BY <1>1, <1>5, <1>7, <1>8 DEF SyncInv

LEMMA AddCheckoutInv ==
  ASSUME SyncInv, NEW s \in Syncer, AddCheckout(s)
  PROVE  SyncInv'
<1>1. SyncShape'
  <2>1. prTip' \in Tips /\ prRef' \in Tips /\ checkout' \in {"none", "clean", "dirty"}
    BY DEF SyncInv, SyncShape, AddCheckout, tipVars
  <2>2. Shared(s) \in BOOLEAN /\ \A t \in Syncer : InCheckout(t) \in BOOLEAN
    BY DEF InCheckout, Shared
  <2>3. sync' \in [Syncer -> [at : SyncPlaces, tip : Tips, head : Tips,
                              adopted : BOOLEAN, moved : BOOLEAN]]
    BY <2>2 DEF SyncInv, SyncShape, AddCheckout, SyncPlaces
  <2>. QED
    BY <2>1, <2>3 DEF SyncShape
<1>2. sync'[s].at = "ready" /\ sync'[s].tip = sync[s].tip
  BY DEF SyncInv, SyncShape, AddCheckout
<1>3. \A t \in Syncer : t # s => sync'[t].at = sync[t].at
  BY DEF SyncInv, SyncShape, AddCheckout
<1>4. \A t \in Syncer : Undisturbed(t)' => t = s
  <2>. SUFFICES ASSUME NEW t \in Syncer, t # s, sync[t].at \in Merging
                PROVE  sync'[t].moved
    BY <1>3 DEF Undisturbed
  <2>1. InCheckout(t)
    BY DEF InCheckout, Merging
  <2>. QED
    BY <2>1 DEF AddCheckout, SyncInv, SyncShape
<1>5. Undisturbed(s)' => prRef = sync[s].tip /\ ~Shared(s)
  <2>1. sync'[s].moved = (prRef # sync[s].tip \/ Shared(s))
    BY DEF AddCheckout, SyncInv, SyncShape
  <2>. QED
    BY <2>1 DEF Undisturbed
<1>6. AloneWhenUndisturbed'
  <2>1. ~Shared(s) => \A t \in Syncer : t # s => sync[t].at \notin Working
    BY DEF Shared, InCheckout, Working
  <2>. QED
    BY <1>3, <1>4, <1>5, <2>1 DEF AloneWhenUndisturbed
<1>7. CheckoutKeepsWorkersOut'
  BY DEF SyncInv, CheckoutKeepsWorkersOut, AddCheckout
<1>8. BranchIsTheTip' /\ PushesAtTheTip'
  BY <1>2, <1>4, <1>5 DEF BranchIsTheTip, PushesAtTheTip, AddCheckout
<1>. QED
  BY <1>1, <1>6, <1>7, <1>8 DEF SyncInv

LEMMA MergeBaseInv ==
  ASSUME SyncInv, NEW s \in Syncer, MergeBase(s)
  PROVE  SyncInv'
<1> DEFINE r == [sync[s] EXCEPT !.at = "merged", !.head = prRef']
<1>1. prRef' \in Tips /\ prRef'.own = prRef.own
  BY DEF SyncInv, SyncShape, MergeBase, Tips
<1>2. /\ r \in [at : SyncPlaces, tip : Tips, head : Tips, adopted : BOOLEAN, moved : BOOLEAN]
      /\ r.at = "merged" /\ r.tip = sync[s].tip /\ r.moved = sync[s].moved
  BY <1>1 DEF SyncInv, SyncShape, SyncPlaces
<1>3. sync' = [sync EXCEPT ![s] = r]
  BY DEF MergeBase
<1>. HIDE DEF r
<1>4. /\ SyncShape' /\ Others(s)
      /\ sync'[s].at = "merged" /\ sync'[s].tip = sync[s].tip
      /\ sync'[s].moved = sync[s].moved
  BY <1>1, <1>2, <1>3, OneMoves DEF SyncInv, SyncShape, MergeBase, tipVars
<1>5. sync[s].at = "ready" /\ elsewhere' = elsewhere /\ checkout' = checkout
  BY DEF MergeBase, SyncAt
<1>. QED
  BY <1>1, <1>4, <1>5, InsideKeepsInv DEF Working, Merging, Undisturbed

\* Goes, inside the checkout: the sync is off to a place where it pushes only if
\* it has just looked.
LEMMA GoesKeepsInv ==
  ASSUME SyncInv, NEW s \in Syncer, NEW place \in SyncPlaces, Goes(s, place),
         sync[s].at \in Working,
         prRef' \in Tips, prTip' \in Tips, checkout' \in {"none", "clean", "dirty"},
         place \in Merging => sync[s].at \in Merging /\ prRef' = prRef,
         place = "pushing" => prTip' = sync[s].tip,
         elsewhere' = elsewhere,
         checkout = "none" => checkout' = "none"
  PROVE  SyncInv'
<1>1. /\ SyncShape' /\ Others(s)
      /\ sync'[s].at = place /\ sync'[s].tip = sync[s].tip
      /\ sync'[s].moved = sync[s].moved
  BY GoesMoves DEF SyncInv, SyncShape
<1>. QED
  BY <1>1, InsideKeepsInv DEF Undisturbed

\* Leaves: the same, for a sync that is through.
LEMMA LeavesKeepsInv ==
  ASSUME SyncInv, NEW s \in Syncer, GivesUp(s) \/ Cleans(s),
         sync[s].at \in Working,
         prRef' \in Tips, prTip' \in Tips, checkout' \in {"none", "clean", "dirty"},
         elsewhere' = elsewhere,
         checkout = "none" => checkout' = "none"
  PROVE  SyncInv'
<1>1. SyncShape' /\ Others(s) /\ sync'[s].at \in {"idle", "cleaning"}
  BY LeavesMoves DEF SyncInv, SyncShape
<1>. QED
  BY <1>1, InsideKeepsInv DEF Undisturbed, Merging

LEMMA InsideActionsInv ==
  ASSUME SyncInv, NEW s \in Syncer,
         \/ MergeConflictsHere(s) \/ AbortMerge(s) \/ PinTip(s) \/ DropMerge(s)
         \/ SyncPush(s) \/ SyncPushUnanswered(s) \/ SyncFails(s)
  PROVE  SyncInv'
<1>. USE DEF SyncAt, tipVars
<1>0. /\ prRef \in Tips /\ prTip \in Tips /\ checkout \in {"none", "clean", "dirty"}
      /\ sync[s].tip \in Tips
  BY DEF SyncInv, SyncShape
<1>1. CASE MergeConflictsHere(s)
  BY <1>0, <1>1, GoesKeepsInv DEF MergeConflictsHere, Working, Merging, SyncPlaces
<1>2. CASE AbortMerge(s)
  BY <1>0, <1>2, LeavesKeepsInv DEF AbortMerge, Working
<1>3. CASE PinTip(s)
  <2>1. CASE TipUnmoved(s) /\ (s = "scan" => ~busy)
    BY <1>0, <1>3, <2>1, GoesKeepsInv DEF PinTip, TipUnmoved, Working, Merging, SyncPlaces
  <2>2. CASE ~(TipUnmoved(s) /\ (s = "scan" => ~busy))
    BY <1>0, <1>3, <2>2, GoesKeepsInv DEF PinTip, Working, Merging, SyncPlaces
  <2>. QED
    BY <2>1, <2>2
<1>4. CASE DropMerge(s)
  BY <1>0, <1>4, LeavesKeepsInv DEF DropMerge, Working
<1>5. CASE SyncPush(s)
  BY <1>0, <1>5, GoesKeepsInv DEF SyncPush, Working, Merging, SyncPlaces
<1>6. CASE SyncPushUnanswered(s)
  BY <1>0, <1>6, LeavesKeepsInv DEF SyncPushUnanswered, Working
<1>7. CASE SyncFails(s)
  <2>1. CASE sync[s].at = "ready"
    <3>1. Goes(s, "aborting")
      BY <1>7, <2>1 DEF SyncFails
    <3>. QED
      BY <1>0, <1>7, <2>1, <3>1, GoesKeepsInv DEF SyncFails, Working, Merging, SyncPlaces
  <2>2. CASE sync[s].at = "merged"
    <3>1. Goes(s, "resetting")
      BY <1>7, <2>2 DEF SyncFails
    <3>. QED
      BY <1>0, <1>7, <2>2, <3>1, GoesKeepsInv DEF SyncFails, Working, Merging, SyncPlaces
  <2>3. CASE sync[s].at = "pushing"
    <3>1. Cleans(s)
      BY <1>7, <2>3 DEF SyncFails
    <3>. QED
      BY <1>0, <1>7, <2>3, <3>1, LeavesKeepsInv DEF SyncFails, Working
  <2>. QED
    BY <1>7, <2>1, <2>2, <2>3 DEF SyncFails
<1>. QED
  BY <1>1, <1>2, <1>3, <1>4, <1>5, <1>6, <1>7

LEMMA LeavingActionsInv ==
  ASSUME SyncInv, NEW s \in Syncer, SyncSkips(s) \/ SyncEnds(s)
  PROVE  SyncInv'
<1>1. GivesUp(s) /\ UNCHANGED <<prTip, prRef, elsewhere>>
  BY DEF SyncSkips, SyncEnds, tipVars
<1>2. /\ checkout = "none" => checkout' = "none"
      /\ checkout' \in {"none", "clean", "dirty"}
  BY DEF SyncSkips, SyncEnds, SyncInv, SyncShape
<1>3. SyncShape' /\ Others(s) /\ sync'[s].at \in {"idle", "cleaning"}
  BY <1>1, <1>2, LeavesMoves DEF SyncInv, SyncShape
<1>. QED
  BY <1>1, <1>2, <1>3, OutsideKeepsInv DEF Working

LEMMA OriginMovedShape ==
  ASSUME SyncShape, OriginMoved
  PROVE  sync' \in [Syncer -> [at : SyncPlaces, tip : Tips, head : Tips,
                               adopted : BOOLEAN, moved : BOOLEAN]]
BY DEF OriginMoved, SyncShape

LEMMA HandsInv ==
  ASSUME SyncInv, NEW c \in BranchCommit, HandPushes(c) \/ HandResets(c) \/ WorkerPushes(c)
  PROVE  SyncInv'
<1>1. prTip' \in Tips /\ prRef' \in Tips
  BY DEF SyncInv, SyncShape, Tips, HandPushes, HandResets, WorkerPushes
<1>2. OriginMoved /\ UNCHANGED <<checkout, elsewhere>>
  BY DEF HandPushes, HandResets, WorkerPushes
<1>3. SyncShape'
  BY <1>1, <1>2, OriginMovedShape DEF SyncInv, SyncShape
<1>4. prRef' = prRef \/ checkout = "none"
  BY DEF HandPushes, HandResets, WorkerPushes, SyncInv, CheckoutKeepsWorkersOut
<1>. QED
  BY <1>2, <1>3, <1>4, MovedKeepsInv

LEMMA IssueInv ==
  ASSUME SyncInv, IssueTakenUp \/ IssueRests
  PROVE  SyncInv'
<1>1. UNCHANGED <<prTip, prRef, checkout, sync>>
  BY DEF IssueTakenUp, IssueRests, tipVars
<1>2. elsewhere' => checkout = "none"
  BY DEF IssueTakenUp, IssueRests
<1>. QED
  BY <1>1, <1>2 DEF SyncInv, SyncShape, AloneWhenUndisturbed, CheckoutKeepsWorkersOut,
                    BranchIsTheTip, PushesAtTheTip, Undisturbed

LEMMA SyncCrashInv ==
  ASSUME SyncInv, SyncCrash
  PROVE  SyncInv'
<1>1. SyncShape'
  BY NoSyncType DEF SyncCrash, SyncInv, SyncShape, tipVars
<1>2. \A s \in Syncer : ~Undisturbed(s)'
  BY DEF SyncCrash, Undisturbed, NoSync, Merging
<1>. QED
  BY <1>1, <1>2 DEF SyncInv, AloneWhenUndisturbed, CheckoutKeepsWorkersOut,
                    BranchIsTheTip, PushesAtTheTip, SyncCrash

LEMMA SyncNextInv ==
  ASSUME SyncInv, [SyncNext]_syncVars
  PROVE  SyncInv'
<1>1. CASE UNCHANGED syncVars
  BY <1>1 DEF syncVars, tipVars, SyncInv, SyncShape, AloneWhenUndisturbed,
              CheckoutKeepsWorkersOut, BranchIsTheTip, PushesAtTheTip, Undisturbed
<1>. QED
  BY <1>1, SyncStartsInv, FetchTipInv, AddCheckoutInv, MergeBaseInv, InsideActionsInv,
     LeavingActionsInv, HandsInv, IssueInv, SyncCrashInv DEF SyncNext

\* An undisturbed sync is alone at the tip it fetched, whatever the other sync,
\* workers, persons and crashes do.
THEOREM UndisturbedSyncHoldsTheTip == SyncSpec => []SyncInv
<1>1. SyncInv /\ [SyncNext]_syncVars => SyncInv'
  BY SyncNextInv
<1>. QED
  BY SyncInitInv, <1>1, PTL DEF SyncSpec

-----------------------------------------------------------------------------
(* The property *)

AddsOnlyBase ==
  \A s \in Syncer :
    prTip' # prTip /\ SyncAt(s, "pushing") /\ sync'[s].at # "pushing" /\ ~sync[s].moved
      => prTip'.own = prTip.own /\ Ancestor(prTip, prTip')

LEMMA StepAddsOnlyBase ==
  ASSUME SyncInv, [SyncNext]_syncVars
  PROVE  AddsOnlyBase
<1>. SUFFICES ASSUME NEW s \in Syncer, prTip' # prTip, sync[s].at = "pushing",
                     sync'[s].at # "pushing", ~sync[s].moved
              PROVE  prTip'.own = prTip.own /\ Ancestor(prTip, prTip')
  BY DEF AddsOnlyBase, SyncAt
<1>. USE DEF tipVars
\* origin is moved by a push of a sync, a person or a worker, nothing else
<1>1. \/ \E t \in Syncer : SyncPush(t) \/ SyncPushUnanswered(t)
      \/ \E c \in BranchCommit : HandPushes(c) \/ HandResets(c) \/ WorkerPushes(c)
  <2>1. ASSUME NEW t \in Syncer,
               \/ SyncStarts(t) \/ FetchTip(t) \/ AddCheckout(t) \/ MergeBase(t)
               \/ MergeConflictsHere(t) \/ AbortMerge(t) \/ PinTip(t) \/ DropMerge(t)
               \/ SyncFails(t) \/ SyncSkips(t) \/ SyncEnds(t)
        PROVE  prTip' = prTip
    BY <2>1 DEF SyncStarts, FetchTip, AddCheckout, MergeBase, MergeConflictsHere,
       AbortMerge, PinTip, DropMerge, SyncFails, SyncSkips, SyncEnds
  <2>2. ASSUME IssueTakenUp \/ IssueRests \/ SyncCrash \/ UNCHANGED syncVars
        PROVE  prTip' = prTip
    BY <2>2 DEF IssueTakenUp, IssueRests, SyncCrash, syncVars
  <2>. QED
    BY <2>1, <2>2 DEF SyncNext
<1>2. ASSUME NEW c \in BranchCommit, HandPushes(c) \/ HandResets(c) \/ WorkerPushes(c)
      PROVE  sync'[s].at = "pushing"
  <2>1. OriginMoved
    BY <1>2 DEF HandPushes, HandResets, WorkerPushes
  <2>. QED
    BY <2>1 DEF OriginMoved, SyncInv, SyncShape
<1>3. ASSUME NEW t \in Syncer, SyncPush(t) \/ SyncPushUnanswered(t)
      PROVE  prTip'.own = prTip.own /\ Ancestor(prTip, prTip')
  <2>1. /\ SyncAt(t, "pushing") /\ checkout # "none"
        /\ Ancestor(prTip, prRef) /\ prTip' = prRef
    BY <1>3 DEF SyncPush, SyncPushUnanswered, FastForward
  <2>2. Undisturbed(s)
    BY DEF Undisturbed, Merging
  <2>3. prRef.own = sync[s].tip.own /\ prTip = sync[s].tip
    BY <2>1, <2>2 DEF SyncInv, BranchIsTheTip, PushesAtTheTip
  <2>. QED
    BY <2>1, <2>3
<1>. QED
  BY <1>1, <1>2, <1>3

\* A sync changes the PR by the base and by nothing else, for any set of commits
\* and any interleaving of the two syncs, workers, persons and crashes.
THEOREM SyncAlwaysAddsOnlyBase == SyncSpec => SyncAddsOnlyBase
<1>1. SyncInv /\ [SyncNext]_syncVars => [AddsOnlyBase]_syncVars
  BY StepAddsOnlyBase
<1>. QED
  BY UndisturbedSyncHoldsTheTip, <1>1, PTL DEF SyncSpec, SyncAddsOnlyBase, AddsOnlyBase

-----------------------------------------------------------------------------
(* Types of a sync *)

SyncRest == dealerTip \in Tips /\ elsewhere \in BOOLEAN /\ busy \in BOOLEAN

LEMMA SyncRestStep ==
  ASSUME SyncInv, SyncRest, [SyncNext]_syncVars
  PROVE  SyncRest'
<1>. USE DEF tipVars
<1>0. SyncShape /\ SyncShape'
  BY SyncNextInv DEF SyncInv
<1>1. ASSUME NEW s \in Syncer, SyncEnds(s)
      PROVE  SyncRest'
  <2>1. sync[s].head \in Tips
    BY <1>0 DEF SyncShape
  <2>. QED
    BY <1>1, <2>1 DEF SyncEnds, SyncRest
<1>2. ASSUME NEW c \in BranchCommit, WorkerPushes(c)
      PROVE  SyncRest'
  BY <1>0, <1>2 DEF WorkerPushes, SyncShape, SyncRest
<1>3. ASSUME NEW s \in Syncer,
             \/ SyncStarts(s) \/ FetchTip(s) \/ AddCheckout(s) \/ MergeBase(s)
             \/ MergeConflictsHere(s) \/ AbortMerge(s) \/ PinTip(s) \/ DropMerge(s)
             \/ SyncPush(s) \/ SyncPushUnanswered(s) \/ SyncFails(s) \/ SyncSkips(s)
      PROVE  UNCHANGED <<dealerTip, elsewhere, busy>>
  BY <1>3 DEF SyncStarts, FetchTip, AddCheckout, MergeBase, MergeConflictsHere, AbortMerge,
     PinTip, DropMerge, SyncPush, SyncPushUnanswered, SyncFails, SyncSkips
<1>4. ASSUME NEW c \in BranchCommit, HandPushes(c) \/ HandResets(c)
      PROVE  UNCHANGED <<dealerTip, elsewhere, busy>>
  BY <1>4 DEF HandPushes, HandResets
<1>5. CASE IssueTakenUp \/ IssueRests \/ SyncCrash
  BY <1>5 DEF IssueTakenUp, IssueRests, SyncCrash, SyncRest
<1>6. CASE UNCHANGED syncVars
  BY <1>6 DEF syncVars, SyncRest
<1>. QED
  BY <1>1, <1>2, <1>3, <1>4, <1>5, <1>6 DEF SyncNext, SyncRest

\* Tips, places and checkouts are what git and the code can make of them.
THEOREM SyncTypeCorrect == SyncSpec => []SyncTypeOK
<1>1. SyncInit => SyncRest
  <2>1. NoTip \in Tips
    BY DEF NoTip, Tips
  <2>. QED
    BY <2>1 DEF SyncInit, SyncRest
<1>2. SyncInv /\ SyncRest /\ [SyncNext]_syncVars => SyncRest'
  BY SyncRestStep
<1>3. SyncInv /\ SyncRest => SyncTypeOK
  BY DEF SyncInv, SyncShape, SyncRest, SyncTypeOK
<1>. QED
  BY UndisturbedSyncHoldsTheTip, <1>1, <1>2, <1>3, PTL DEF SyncSpec

-----------------------------------------------------------------------------
(* The review *)


Standing == posted \ denied

\* the claimed row has one call under way at most
CallsClaim ==
  /\ \A a \in Review : InCall(a) => publication.state = "claimed"
  /\ \A a, b \in Review : InCall(a) /\ InCall(b) => a = b

\* what stands on GitHub, by the state of the row and of the call
RowSays ==
  /\ publication.state \in {"none", "failed"} => Standing = {}
  /\ \A a \in Review : revAt[a] \in {"publishing", "orphan"} => Standing = {}
  /\ \A a \in Review : revAt[a] = "answering" => Standing = {a}
  /\ publication.state = "published" =>
       \E a \in Standing : verdict[a] = publication.result
  /\ OneReviewStands

\* an attempt whose review is posted has its verdict for good
PostedAreLeft ==
  \A a \in posted : revAt[a] \in {"answering", "told", "gone"}

\* verdicts are handed on from a published row only
ToldByRow ==
  /\ \A a \in Review : told[a] # NoVerdict =>
       publication.state = "published" /\ told[a] = publication.result
  /\ decision # NoVerdict =>
       publication.state = "published" /\ decision = publication.result

PubInv == PubTypeOK /\ CallsClaim /\ RowSays /\ PostedAreLeft /\ ToldByRow

LEMMA PubInitInv == PubInit => PubInv
BY PublicationAssumption
   DEF PubInit, PubInv, PubTypeOK, CallsClaim, RowSays, PostedAreLeft,
       ToldByRow, Standing, OneReviewStands, InCall, Review, Places, NoRow

LEMMA PubNextType ==
  ASSUME PubTypeOK, PubNext
  PROVE  PubTypeOK'
<1>. USE PublicationAssumption DEF PubTypeOK, Places
<1>1. CASE LeaseRunsDown \/ RecoveryTakesLease \/ CancelReview
  BY <1>1 DEF LeaseRunsDown, RecoveryTakesLease, CancelReview
<1>2. CASE ServerDies
  BY <1>2 DEF ServerDies
<1>3. ASSUME NEW a \in Review,
             ClaimReview(a) \/ Heartbeat(a) \/ Complete(a)
      PROVE  PubTypeOK'
  BY <1>3 DEF ClaimReview, Heartbeat, Complete
<1>4. ASSUME NEW a \in Review, NEW v \in Verdict, ReviewDone(a, v)
      PROVE  PubTypeOK'
  BY <1>4 DEF ReviewDone
<1>5. ASSUME NEW a \in Review,
             ReviewEndsEarly(a) \/ AdoptPublished(a) \/ GiveUpLooking(a)
      PROVE  PubTypeOK'
  BY <1>5 DEF ReviewEndsEarly, AdoptPublished, GiveUpLooking, Tell,
              WinnersResult
<1>6. ASSUME NEW a \in Review, AcquirePublication(a)
      PROVE  PubTypeOK'
  BY <1>6 DEF AcquirePublication
<1>7. ASSUME NEW a \in Review, AwaitClaimant(a)
      PROVE  PubTypeOK'
  BY <1>7 DEF AwaitClaimant
<1>8. ASSUME NEW a \in Review,
             ReviewPosted(a) \/ OrphanFails(a) \/ PublishThrows(a)
      PROVE  PubTypeOK'
  BY <1>8 DEF ReviewPosted, OrphanFails, PublishThrows, Tell
<1>9. ASSUME NEW a \in Review,
             RecordReviewPublished(a) \/ RecordReviewPublishFailed(a)
      PROVE  PubTypeOK'
  BY <1>9 DEF RecordReviewPublished, RecordReviewPublishFailed, Tell
<1>. QED
  BY <1>1, <1>2, <1>3, <1>4, <1>5, <1>6, <1>7, <1>8, <1>9 DEF PubNext

\* A step that leaves row, reviews and what was told alone keeps the invariant
\* when nobody enters a call, a verdict changes only where nothing is posted,
\* and those who leave a call or have posted end up told or gone.
LEMMA QuietStep ==
  ASSUME PubInv, PubTypeOK',
         UNCHANGED <<publication, posted, denied>>,
         \A a \in Review : revAt'[a] \in {"publishing", "answering"} =>
                             revAt'[a] = revAt[a],
         \A a \in Review : revAt'[a] = "orphan" =>
                             revAt[a] \in {"publishing", "orphan"},
         \A a \in posted : /\ verdict'[a] = verdict[a]
                           /\ revAt'[a] \in {"answering", "told", "gone"},
         ToldByRow'
  PROVE  PubInv'
<1>. USE DEF PubInv, PubTypeOK
<1>1. CallsClaim'
  BY DEF CallsClaim, InCall
<1>2. RowSays'
  BY DEF RowSays, Standing, OneReviewStands
<1>3. PostedAreLeft'
  BY DEF PostedAreLeft
<1>. QED
  BY <1>1, <1>2, <1>3

LEMMA PubNextInv ==
  ASSUME PubInv, [PubNext]_pubVars
  PROVE  PubInv'
<1>1. CASE UNCHANGED pubVars
  BY <1>1 DEF pubVars, PubInv, PubTypeOK, CallsClaim, RowSays, PostedAreLeft,
              ToldByRow, Standing, OneReviewStands, InCall
<1>2. CASE PubNext
  <2>. USE DEF PubInv
  <2>1. PubTypeOK'
    BY <1>2, PubNextType
  <2>2. CASE LeaseRunsDown \/ RecoveryTakesLease \/ CancelReview
    <3>1. UNCHANGED <<revAt, verdict, told, publication, posted, denied, decision>>
      BY <2>2 DEF LeaseRunsDown, RecoveryTakesLease, CancelReview
    <3>. QED
      BY <2>1, <3>1, QuietStep DEF ToldByRow, PostedAreLeft
  <2>3. CASE ServerDies
    <3>1. UNCHANGED <<verdict, told, publication, posted, denied, decision>>
      BY <2>3 DEF ServerDies
    <3>2. \A a \in Review :
            /\ revAt'[a] \in {"orphan", "idle", "gone"}
            /\ revAt'[a] = "orphan" => revAt[a] \in {"publishing", "orphan"}
            /\ revAt[a] \in {"answering", "told", "gone"} => revAt'[a] = "gone"
      BY <2>3 DEF ServerDies, PubTypeOK, Places
    <3>3. \A a \in posted : a \in Review
      BY DEF PubTypeOK
    <3>4. ToldByRow'
      BY <3>1 DEF ToldByRow
    <3>. QED
      BY <2>1, <3>1, <3>2, <3>3, <3>4, QuietStep DEF PostedAreLeft
  <2>4. ASSUME NEW a \in Review,
               ClaimReview(a) \/ Heartbeat(a) \/ AwaitClaimant(a)
        PROVE  PubInv'
    <3>1. /\ UNCHANGED <<verdict, told, publication, posted, denied, decision>>
          /\ \/ revAt' = revAt
             \/ revAt[a] = "idle" /\ revAt' = [revAt EXCEPT ![a] = "reviewing"]
      BY <2>4 DEF ClaimReview, Heartbeat, AwaitClaimant
    <3>2. ToldByRow'
      BY <3>1 DEF ToldByRow
    <3>. QED
      BY <2>1, <3>1, <3>2, QuietStep DEF PostedAreLeft, PubTypeOK
  <2>5. ASSUME NEW a \in Review, Complete(a)
        PROVE  PubInv'
    <3>1. /\ UNCHANGED <<verdict, told, publication, posted, denied>>
          /\ revAt[a] = "told" /\ revAt' = [revAt EXCEPT ![a] = "gone"]
          /\ decision' \in {decision, told[a]}
      BY <2>5 DEF Complete
    <3>2. ToldByRow'
      BY <3>1 DEF ToldByRow
    <3>. QED
      BY <2>1, <3>1, <3>2, QuietStep DEF PostedAreLeft, PubTypeOK
  <2>6. ASSUME NEW a \in Review, NEW v \in Verdict, ReviewDone(a, v)
        PROVE  PubInv'
    <3>1. /\ UNCHANGED <<told, publication, posted, denied, decision>>
          /\ revAt[a] = "reviewing" /\ revAt' = [revAt EXCEPT ![a] = "looking"]
          /\ verdict' = [verdict EXCEPT ![a] = v]
      BY <2>6 DEF ReviewDone
    <3>2. ToldByRow'
      BY <3>1 DEF ToldByRow
    <3>3. a \notin posted
      BY <3>1 DEF PostedAreLeft
    <3>. QED
      BY <2>1, <3>1, <3>2, <3>3, QuietStep DEF PostedAreLeft, PubTypeOK
  <2>7. ASSUME NEW a \in Review,
               \/ ReviewEndsEarly(a) \/ AdoptPublished(a) \/ GiveUpLooking(a)
               \/ PublishThrows(a)
        PROVE  PubInv'
    <3>1. PICK v : /\ Tell(a, v)
                   /\ v # NoVerdict => publication.state = "published"
                                       /\ v = publication.result
      BY <2>7 DEF ReviewEndsEarly, AdoptPublished, GiveUpLooking,
                  PublishThrows, WinnersResult
    <3>2. /\ UNCHANGED <<verdict, publication, posted, denied, decision>>
          /\ revAt[a] \in {"reviewing", "looking", "publishing"}
      BY <2>7 DEF ReviewEndsEarly, AdoptPublished, GiveUpLooking, PublishThrows
    <3>3. ToldByRow'
      BY <3>1, <3>2 DEF ToldByRow, Tell, PubTypeOK
    <3>. QED
      BY <2>1, <3>1, <3>2, <3>3, QuietStep DEF PostedAreLeft, PubTypeOK, Tell
  <2>8. ASSUME NEW a \in Review, AcquirePublication(a)
        PROVE  PubInv'
    <3>1. /\ UNCHANGED <<verdict, told, posted, denied, decision>>
          /\ publication.state \in {"none", "failed"}
          /\ publication'.state = "claimed"
          /\ revAt[a] = "looking" /\ revAt' = [revAt EXCEPT ![a] = "publishing"]
      BY <2>8 DEF AcquirePublication, Claimable, PubTypeOK
    <3>2. \A b \in Review : ~InCall(b) /\ (InCall(b)' => b = a)
      BY <3>1 DEF CallsClaim, InCall, PubTypeOK
    <3>3. CallsClaim'
      BY <3>1, <3>2 DEF CallsClaim
    <3>4. RowSays'
      BY <3>1, <3>2 DEF RowSays, Standing, OneReviewStands, InCall
    <3>5. PostedAreLeft' /\ ToldByRow'
      BY <3>1 DEF PostedAreLeft, ToldByRow, PubTypeOK
    <3>. QED
      BY <2>1, <3>3, <3>4, <3>5
  <2>9. ASSUME NEW a \in Review, ReviewPosted(a)
        PROVE  PubInv'
    <3>1. /\ UNCHANGED <<verdict, told, publication, denied, decision>>
          /\ revAt[a] \in {"publishing", "orphan"}
          /\ posted' = posted \cup {a}
          /\ revAt' = [revAt EXCEPT ![a] =
                         IF revAt[a] = "orphan" THEN "gone" ELSE "answering"]
      BY <2>9 DEF ReviewPosted
    <3>2. /\ publication.state = "claimed"
          /\ \A b \in Review : InCall(b) => b = a
      BY <3>1 DEF CallsClaim, InCall
    <3>3. CallsClaim'
      BY <3>1, <3>2 DEF CallsClaim, InCall, PubTypeOK
    <3>4. a \notin denied
      BY <3>1 DEF PostedAreLeft, PubTypeOK
    <3>5. Standing = {} /\ Standing' = {a}
      BY <3>1, <3>4 DEF RowSays, Standing
    <3>6. \A b \in Review : revAt'[b] \in {"publishing", "orphan"} => FALSE
      BY <3>1, <3>2 DEF InCall, PubTypeOK
    <3>7. \A b \in Review : revAt'[b] = "answering" => b = a
      BY <3>1, <3>2 DEF InCall, PubTypeOK
    <3>8. RowSays'
      BY <3>1, <3>2, <3>5, <3>6, <3>7 DEF RowSays, OneReviewStands, Standing
    <3>9. PostedAreLeft' /\ ToldByRow'
      BY <3>1 DEF PostedAreLeft, ToldByRow, PubTypeOK
    <3>. QED
      BY <2>1, <3>3, <3>8, <3>9
  <2>10. ASSUME NEW a \in Review, OrphanFails(a)
         PROVE  PubInv'
    <3>1. /\ UNCHANGED <<verdict, told, publication, posted, denied, decision>>
          /\ revAt[a] = "orphan" /\ revAt' = [revAt EXCEPT ![a] = "gone"]
      BY <2>10 DEF OrphanFails
    <3>2. ToldByRow'
      BY <3>1 DEF ToldByRow
    <3>. QED
      BY <2>1, <3>1, <3>2, QuietStep DEF PostedAreLeft, PubTypeOK
  <2>11. ASSUME NEW a \in Review, RecordReviewPublished(a)
         PROVE  PubInv'
    <3>1. publication.state = "claimed" /\ \A b \in Review : InCall(b) => b = a
      BY <2>11 DEF RecordReviewPublished, CallsClaim, InCall
    <3>2. /\ UNCHANGED <<verdict, posted, denied, decision>>
          /\ publication' = [state |-> "published", result |-> verdict[a]]
          /\ revAt[a] = "answering" /\ revAt' = [revAt EXCEPT ![a] = "told"]
          /\ told' = [told EXCEPT ![a] = verdict[a]]
      BY <2>11, <3>1 DEF RecordReviewPublished, Tell
    <3>3. \A b \in Review : ~InCall(b)'
      BY <3>1, <3>2 DEF InCall, PubTypeOK
    <3>4. Standing = {a} /\ Standing' = {a}
      BY <3>2 DEF RowSays, Standing
    <3>5. CallsClaim'
      BY <3>3 DEF CallsClaim
    <3>6. RowSays'
      BY <3>2, <3>3, <3>4 DEF RowSays, OneReviewStands, Standing, InCall
    <3>7. PostedAreLeft'
      BY <3>2 DEF PostedAreLeft, PubTypeOK
    <3>8. decision = NoVerdict /\ \A b \in Review : told[b] = NoVerdict
      BY <3>1 DEF ToldByRow
    <3>9. ToldByRow'
      BY <3>2, <3>8 DEF ToldByRow, PubTypeOK
    <3>. QED
      BY <2>1, <3>5, <3>6, <3>7, <3>9
  <2>12. ASSUME NEW a \in Review, RecordReviewPublishFailed(a)
         PROVE  PubInv'
    <3>1. publication.state = "claimed" /\ \A b \in Review : InCall(b) => b = a
      BY <2>12 DEF RecordReviewPublishFailed, CallsClaim, InCall
    <3>2. /\ UNCHANGED <<verdict, posted, decision>>
          /\ denied' = denied \cup ({a} \cap posted)
          /\ publication'.state = "failed"
          /\ revAt[a] \in {"publishing", "answering"}
          /\ revAt' = [revAt EXCEPT ![a] = "told"]
          /\ told' = [told EXCEPT ![a] = NoVerdict]
      BY <2>12, <3>1 DEF RecordReviewPublishFailed, Tell, PubTypeOK
    <3>3. \A b \in Review : ~InCall(b)'
      BY <3>1, <3>2 DEF InCall, PubTypeOK
    <3>4. Standing' = {}
      BY <3>2 DEF RowSays, Standing
    <3>5. CallsClaim'
      BY <3>3 DEF CallsClaim
    <3>6. RowSays'
      BY <3>2, <3>3, <3>4 DEF RowSays, OneReviewStands, Standing, InCall
    <3>7. PostedAreLeft'
      BY <3>2 DEF PostedAreLeft, PubTypeOK
    <3>8. decision = NoVerdict /\ \A b \in Review : told[b] = NoVerdict
      BY <3>1 DEF ToldByRow
    <3>9. ToldByRow'
      BY <3>2, <3>8 DEF ToldByRow, PubTypeOK
    <3>. QED
      BY <2>1, <3>5, <3>6, <3>7, <3>9
  <2>. QED
    BY <1>2, <2>2, <2>3, <2>4, <2>5, <2>6, <2>7, <2>8, <2>9, <2>10, <2>11,
       <2>12 DEF PubNext
<1>. QED
  BY <1>1, <1>2

\* The row, the call and what was told agree with GitHub at every instant.
THEOREM RowAgreesWithGitHub == PubSpec => []PubInv
BY PubInitInv, PubNextInv, PTL DEF PubSpec

\* One review of a work item stands, and no verdict but that one is decided.
THEOREM ReviewIsAlwaysTheVerdict == PubSpec => []ReviewIsTheVerdict
<1>1. PubInv => ReviewIsTheVerdict
  BY DEF PubInv, RowSays, ToldByRow, ReviewIsTheVerdict, DecidedAsPosted,
         Standing
<1>. QED
  BY RowAgreesWithGitHub, <1>1, PTL

\* The row, the lease and GitHub hold what the code can put there.
THEOREM PubTypeCorrect == PubSpec => []PubTypeOK
<1>1. PubInv => PubTypeOK
  BY DEF PubInv
<1>. QED
  BY RowAgreesWithGitHub, <1>1, PTL
=============================================================================
