---------------------------- MODULE ConflictSync -----------------------------
(***************************************************************************)
(* merge-conflict-sync.ts with its two ways in on one PR branch: the        *)
(* issue's own sync (the finalizer's merge entry or the CI wait's entry,    *)
(* one at a time, the issue being busy) and base-advanced-scan.ts, which    *)
(* syncs the idle siblings of a merged PR.  Both work in one checkout whose *)
(* path is named after the issue, and each git call is an await another     *)
(* sync, a worker, the operator or the base branch may fall into.           *)
(*                                                                         *)
(* The base has advanced once.  A head is what it contains: the branch's    *)
(* own commits, and the advanced base or not; two merges of the base are    *)
(* one head.  The checks poll and the merge retry that follow the push of   *)
(* the merge entry, and the rows the outcomes queue, are in Coordinator.    *)
(***************************************************************************)
EXTENDS Integers

CONSTANT BranchCommit  \* commits a worker or a person may add to the branch

VARIABLES
  prTip,      \* origin/<branch>
  prRef,      \* refs/heads/<branch> of the clone, HEAD of the sync checkout
  dealerTip,  \* lastDealerPushedSha: what the events say Dealer pushed last
  checkout,   \* the sync checkout: "none", "clean" or "dirty"
  elsewhere,  \* a worker's checkout holds the branch
  busy,       \* a lease, a running session or a merge in flight: activeReason
  sync        \* [Syncer -> the sync in flight]

syncVars == <<prTip, prRef, dealerTip, checkout, elsewhere, busy, sync>>
tipVars == <<prTip, dealerTip>>

Syncer == {"own", "scan"}
Tips == [own : SUBSET BranchCommit, onBase : BOOLEAN]
Ancestor(x, y) == x.own \subseteq y.own /\ (x.onBase => y.onBase)
SyncPlaces == {"idle", "found", "fetched", "ready", "merged", "aborting",
               "pushing", "pushed", "resetting", "cleaning"}

\* tip as fetched, head as read after the merge, adopted: the
\* checkout was there; moved: what it stands on changed where it does not look
\* again: origin after its last look, the clone's ref before the checkout was
\* added, or the other sync came to work in the same checkout
NoTip == [own |-> {}, onBase |-> FALSE]
NoSync == [at |-> "idle", tip |-> NoTip, head |-> NoTip, adopted |-> FALSE,
           moved |-> FALSE]

SyncTypeOK ==
  /\ prTip \in Tips /\ prRef \in Tips /\ dealerTip \in Tips
  /\ checkout \in {"none", "clean", "dirty"}
  /\ elsewhere \in BOOLEAN /\ busy \in BOOLEAN
  /\ sync \in [Syncer -> [at : SyncPlaces, tip : Tips, head : Tips,
                          adopted : BOOLEAN, moved : BOOLEAN]]

\* A PR is open and its base has moved on.
SyncInit ==
  /\ prTip = NoTip /\ prRef = NoTip /\ dealerTip = NoTip
  /\ checkout = "none" /\ elsewhere = FALSE /\ busy = FALSE
  /\ sync = [s \in Syncer |-> NoSync]

SyncAt(s, place) == sync[s].at = place
Goes(s, place) == sync' = [sync EXCEPT ![s].at = place]
GivesUp(s) == sync' = [sync EXCEPT ![s] = NoSync]
Cleans(s) == sync' = [sync EXCEPT ![s] = [NoSync EXCEPT !.at = "cleaning"]]
InCheckout(s) == sync[s].at \notin {"idle", "found", "fetched"}
Shared(s) == \E t \in Syncer \ {s} : InCheckout(t)

-----------------------------------------------------------------------------
(* One sync *)

\* findWorktreeForBranch: a checkout elsewhere or a dirty one is refused, the
\* sync's own path is adopted: no session owns it, whoever works in it
SyncStarts(s) ==
  /\ SyncAt(s, "idle")
  /\ IF s = "own" THEN busy ELSE ~busy
  /\ ~elsewhere /\ checkout # "dirty"
  /\ sync' = [sync EXCEPT ![s].at = "found", ![s].adopted = checkout = "clean"]
  /\ UNCHANGED <<tipVars, prRef, checkout, elsewhere, busy>>

\* fetchReusedBranch, then the clone's ref catches up or the adopted HEAD must
\* be there; the scan takes nothing but what Dealer pushed itself.  A checkout
\* the other sync has added meanwhile differs from its HEAD when the ref moves.
FetchTip(s) ==
  /\ SyncAt(s, "found")
  /\ s = "scan" => prTip = dealerTip
  /\ IF sync[s].adopted THEN prRef = prTip ELSE Ancestor(prRef, prTip)
  /\ prRef' = prTip
  /\ checkout' = IF checkout = "clean" /\ prRef # prTip THEN "dirty" ELSE checkout
  /\ sync' = [t \in Syncer |->
       IF t = s THEN [sync[t] EXCEPT !.at = "fetched", !.tip = prTip]
       ELSE [sync[t] EXCEPT !.moved = @ \/ (InCheckout(t) /\ prRef # prTip)]]
  /\ UNCHANGED <<tipVars, elsewhere, busy>>

\* what stands at the path unregistered is deleted, a checkout elsewhere
\* makes `worktree add` fail
AddCheckout(s) ==
  /\ SyncAt(s, "fetched")
  /\ sync[s].adopted \/ ~elsewhere
  /\ checkout' = IF sync[s].adopted THEN checkout ELSE "clean"
  /\ sync' = [t \in Syncer |->
       IF t = s THEN [sync[t] EXCEPT !.at = "ready", !.adopted = FALSE,
                                     !.moved = prRef # sync[t].tip \/ Shared(s)]
       ELSE [sync[t] EXCEPT !.moved = @ \/ InCheckout(t)]]
  /\ UNCHANGED <<tipVars, prRef, elsewhere, busy>>

\* git merge of the base just fetched: the branch contains it, or it conflicts
MergeBase(s) ==
  /\ SyncAt(s, "ready") /\ checkout = "clean"
  /\ prRef' = [prRef EXCEPT !.onBase = TRUE]
  /\ sync' = [sync EXCEPT ![s].at = "merged", ![s].head = prRef']
  /\ UNCHANGED <<tipVars, checkout, elsewhere, busy>>

MergeConflictsHere(s) ==
  /\ SyncAt(s, "ready") /\ checkout = "clean" /\ ~prRef.onBase
  /\ checkout' = "dirty"
  /\ Goes(s, "aborting")
  /\ UNCHANGED <<tipVars, prRef, elsewhere, busy>>

\* merge --abort, or reset --hard HEAD
AbortMerge(s) ==
  /\ SyncAt(s, "aborting")
  /\ checkout' = IF checkout = "dirty" THEN "clean" ELSE checkout
  /\ Cleans(s)
  /\ UNCHANGED <<tipVars, prRef, elsewhere, busy>>

NoLastLook(s) == TRUE
TipUnmoved(s) == prTip = sync[s].tip

\* readRemoteTip and, with no await in between, the caller's guard
PinTip(s) ==
  /\ SyncAt(s, "merged")
  /\ IF TipUnmoved(s) /\ (s = "scan" => ~busy)
     THEN Goes(s, "pushing") ELSE Goes(s, "resetting")
  /\ UNCHANGED <<tipVars, prRef, checkout, elsewhere, busy>>

\* reset --hard to the fetched tip drops the unpushed merge
DropMerge(s) ==
  /\ SyncAt(s, "resetting")
  /\ IF checkout = "none" THEN UNCHANGED <<prRef, checkout>>
     ELSE prRef' = sync[s].tip /\ checkout' = "clean"
  /\ Cleans(s)
  /\ UNCHANGED <<tipVars, elsewhere, busy>>

\* a plain push of HEAD: origin takes a descendant of what it has
FastForward(tip, head) == Ancestor(tip, head)

SyncPush(s) ==
  /\ SyncAt(s, "pushing") /\ checkout # "none"
  /\ FastForward(prTip, prRef)
  /\ prTip' = prRef
  /\ Goes(s, "pushed")
  /\ UNCHANGED <<dealerTip, prRef, checkout, elsewhere, busy>>

\* the push lands, but its answer is a time-out or an error
SyncPushUnanswered(s) ==
  /\ SyncAt(s, "pushing") /\ checkout # "none"
  /\ FastForward(prTip, prRef)
  /\ prTip' = prRef
  /\ Cleans(s)
  /\ UNCHANGED <<dealerTip, prRef, checkout, elsewhere, busy>>

\* a git call fails or is refused: the checkout goes and the caller escalates
SyncFails(s) ==
  /\ sync[s].at \in {"ready", "merged", "pushing"}
  /\ CASE SyncAt(s, "ready") -> Goes(s, "aborting")
       [] SyncAt(s, "merged") -> Goes(s, "resetting")
       [] SyncAt(s, "pushing") -> Cleans(s)
  /\ UNCHANGED <<tipVars, prRef, checkout, elsewhere, busy>>

\* a refusal before there is a checkout: nothing to clean
SyncSkips(s) ==
  /\ sync[s].at \in {"found", "fetched"}
  /\ GivesUp(s)
  /\ UNCHANGED <<tipVars, prRef, checkout, elsewhere, busy>>

\* safeRemoveWorktree, best effort; lastDealerPushedSha reads the audit event of
\* a push-only sync that moved the head, the merge entry leaves none
SyncEnds(s) ==
  /\ sync[s].at \in {"pushed", "cleaning"}
  /\ checkout' \in (IF checkout = "clean" THEN {"none", "clean"} ELSE {checkout})
  /\ dealerTip' \in
       IF SyncAt(s, "pushed") /\ sync[s].head # sync[s].tip
       THEN {sync[s].head} \cup (IF s = "own" THEN {dealerTip} ELSE {})
       ELSE {dealerTip}
  /\ GivesUp(s)
  /\ UNCHANGED <<prTip, prRef, elsewhere, busy>>

-----------------------------------------------------------------------------
(* Everybody else *)

\* a sync that has looked for the last time does not see it
OriginMoved ==
  sync' = [s \in Syncer |->
             [sync[s] EXCEPT !.moved = @ \/ sync[s].at = "pushing"]]

HandPushes(c) ==
  /\ c \notin prTip.own
  /\ prTip' = [prTip EXCEPT !.own = @ \cup {c}]
  /\ OriginMoved
  /\ UNCHANGED <<dealerTip, prRef, checkout, elsewhere, busy>>

\* a person takes a commit back, keeping the rest
HandResets(c) ==
  /\ c \in prTip.own
  /\ prTip' = [prTip EXCEPT !.own = @ \ {c}]
  /\ OriginMoved
  /\ UNCHANGED <<dealerTip, prRef, checkout, elsewhere, busy>>

\* a work item is claimed or a merge starts; it may check the branch out
IssueTakenUp ==
  /\ ~busy
  /\ busy' = TRUE
  /\ elsewhere' \in (IF checkout = "none" THEN BOOLEAN ELSE {FALSE})
  /\ UNCHANGED <<tipVars, prRef, checkout, sync>>

\* the worker publishes from its checkout: the branch event names its head
WorkerPushes(c) ==
  /\ busy /\ elsewhere /\ c \notin prRef.own
  /\ Ancestor(prTip, [prRef EXCEPT !.own = @ \cup {c}])
  /\ prRef' = [prRef EXCEPT !.own = @ \cup {c}]
  /\ prTip' = prRef' /\ dealerTip' = prRef'
  /\ OriginMoved
  /\ UNCHANGED <<checkout, elsewhere, busy>>

IssueRests ==
  /\ busy /\ SyncAt("own", "idle")
  /\ busy' = FALSE /\ elsewhere' = FALSE
  /\ UNCHANGED <<tipVars, prRef, checkout, sync>>

\* the process dies: git's state stays, the syncs are gone
SyncCrash ==
  /\ \E s \in Syncer : ~SyncAt(s, "idle")
  /\ sync' = [s \in Syncer |-> NoSync]
  /\ busy' = FALSE /\ elsewhere' = FALSE
  /\ UNCHANGED <<tipVars, prRef, checkout>>

SyncNext ==
  \/ \E s \in Syncer :
       \/ SyncStarts(s) \/ FetchTip(s) \/ AddCheckout(s)
       \/ MergeBase(s) \/ MergeConflictsHere(s) \/ AbortMerge(s) \/ PinTip(s)
       \/ DropMerge(s) \/ SyncPush(s) \/ SyncPushUnanswered(s)
       \/ SyncFails(s) \/ SyncSkips(s) \/ SyncEnds(s)
  \/ \E c \in BranchCommit : HandPushes(c) \/ HandResets(c) \/ WorkerPushes(c)
  \/ IssueTakenUp \/ IssueRests \/ SyncCrash

SyncSpec == SyncInit /\ [][SyncNext]_syncVars

-----------------------------------------------------------------------------
(* Properties *)

\* A sync changes the PR by the base and by nothing else: it neither brings
\* back a commit somebody took off the branch nor drops one, unless origin
\* moved in the instant between its last look and its push.
SyncAddsOnlyBase ==
  [][\A s \in Syncer :
       prTip' # prTip /\ SyncAt(s, "pushing") /\ sync'[s].at # "pushing" /\ ~sync[s].moved
         => prTip'.own = prTip.own /\ Ancestor(prTip, prTip')]_syncVars
=============================================================================
