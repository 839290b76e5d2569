-------------------------- MODULE ReviewPublication --------------------------
(***************************************************************************)
(* repository/review-publications.ts under the end of                      *)
(* coordinator/reviewer-effect.ts: one reviewer work item whose attempts   *)
(* may overlap (an attempt that lost its lease goes on running), each with *)
(* a verdict of its own, and `gh pr review`, which is not idempotent.  One *)
(* row per work item is claimed before the call and records its result.    *)
(*                                                                         *)
(* The lease is what this code sees of it: its holder and how far its      *)
(* expiry is ("long" after the extension a claim grants, "short" after a   *)
(* claim of the item or a heartbeat).  When recovery may take a lapsed     *)
(* lease is the matter of WorkerLoop; here it may at any time.  The        *)
(* fallback from an approval to a comment is one posting as well.          *)
(***************************************************************************)
EXTENDS Integers, FiniteSets

CONSTANTS
  MaxClaims,   \* bound on the attempts of the work item
  Verdict,     \* what a reviewer may conclude
  MaxLooks,    \* publicationWaitAttempts
  NoVerdict    \* the verdict of none

ASSUME PublicationAssumption ==
  /\ MaxClaims \in Nat \ {0} /\ MaxLooks \in Nat \ {0}
  /\ NoVerdict \notin Verdict

VARIABLES
  revAt,       \* [Review -> where the attempt stands]
  looks,       \* [Review -> looks at the row it has left]
  verdict,     \* [Review -> the verdict its agent returned, or NoVerdict]
  told,        \* [Review -> the verdict it hands to the worker loop, or NoVerdict]
  leaseOf,     \* the attempt holding the lease, 0: pending, -1: settled
  term,        \* the lease's expiry: "long", "short", "lapsed"
  publication, \* the row of review_publications
  posted,      \* attempts whose review is on GitHub
  denied,      \* those of them whose call was answered with an error
  decision     \* the verdict the workflow went on with, or NoVerdict

pubVars == <<revAt, looks, verdict, told, leaseOf, term, publication, posted,
             denied, decision>>

Review == 1..MaxClaims
NoRow == [state |-> "none", result |-> NoVerdict]

\* "looking" at the row, "publishing": gh runs, "answering": GitHub has it,
\* "orphan": gh outlives its server, "told": the effect returned
Places == {"idle", "reviewing", "looking", "publishing", "answering", "orphan",
           "told", "gone"}
Running(a) == revAt[a] \in {"reviewing", "looking", "publishing", "answering"}
InCall(a) == revAt[a] \in {"publishing", "answering", "orphan"}

PubTypeOK ==
  /\ revAt \in [Review -> Places]
  /\ looks \in [Review -> 0..MaxLooks]
  /\ verdict \in [Review -> Verdict \cup {NoVerdict}]
  /\ told \in [Review -> Verdict \cup {NoVerdict}]
  /\ leaseOf \in Review \cup {0, -1}
  /\ term \in {"long", "short", "lapsed"}
  /\ publication \in [state : {"none", "claimed", "published", "failed"},
                      result : Verdict \cup {NoVerdict}]
  /\ posted \in SUBSET Review /\ denied \in SUBSET posted
  /\ decision \in Verdict \cup {NoVerdict}

PubInit ==
  /\ revAt = [a \in Review |-> "idle"]
  /\ looks = [a \in Review |-> 0]
  /\ verdict = [a \in Review |-> NoVerdict]
  /\ told = [a \in Review |-> NoVerdict]
  /\ leaseOf = 0 /\ term = "lapsed"
  /\ publication = NoRow
  /\ posted = {} /\ denied = {}
  /\ decision = NoVerdict

-----------------------------------------------------------------------------
(* The work item *)

\* claimWorkItem, with the next token
ClaimReview(a) ==
  /\ leaseOf = 0
  /\ revAt[a] = "idle" /\ \A b \in Review : b < a => revAt[b] # "idle"
  /\ leaseOf' = a /\ term' = "short"
  /\ revAt' = [revAt EXCEPT ![a] = "reviewing"]
  /\ UNCHANGED <<looks, verdict, told, publication, posted, denied, decision>>

\* the handler's interval: token and status are checked, the expiry is not,
\* and it is set to the short term whatever it was
Heartbeat(a) ==
  /\ leaseOf = a /\ Running(a)
  /\ term' = "short"
  /\ UNCHANGED <<revAt, looks, verdict, told, leaseOf, publication, posted,
                 denied, decision>>

LeaseRunsDown ==
  /\ leaseOf \in Review /\ term # "lapsed"
  /\ term' = IF term = "long" THEN "short" ELSE "lapsed"
  /\ UNCHANGED <<revAt, looks, verdict, told, leaseOf, publication, posted,
                 denied, decision>>

\* recovery requeues or gives up an item whose lease has lapsed
RecoveryTakesLease ==
  /\ leaseOf \in Review /\ term = "lapsed"
  /\ leaseOf' \in {0, -1}
  /\ UNCHANGED <<revAt, looks, verdict, told, term, publication, posted,
                 denied, decision>>

\* an abort cancels the row, leased or pending
CancelReview ==
  /\ leaseOf # -1
  /\ leaseOf' = -1
  /\ UNCHANGED <<revAt, looks, verdict, told, term, publication, posted,
                 denied, decision>>

\* the server dies; a gh it had started runs on
ServerDies ==
  /\ \E a \in Review : Running(a) \/ revAt[a] = "told"
  /\ revAt' = [a \in Review |->
       IF revAt[a] = "publishing" THEN "orphan"
       ELSE IF revAt[a] \in {"idle", "orphan"} THEN revAt[a] ELSE "gone"]
  /\ UNCHANGED <<looks, verdict, told, leaseOf, term, publication, posted,
                 denied, decision>>

\* finishWorkItem under applyCompletion, or deferWorkItem for an outcome that
\* puts the item back: both fenced by the token
Complete(a) ==
  /\ revAt[a] = "told"
  /\ revAt' = [revAt EXCEPT ![a] = "gone"]
  /\ IF leaseOf # a THEN UNCHANGED <<leaseOf, decision>>
     ELSE \/ leaseOf' = -1 /\ decision' = told[a]
          \/ told[a] = NoVerdict /\ leaseOf' = 0 /\ UNCHANGED decision
  /\ UNCHANGED <<looks, verdict, told, term, publication, posted, denied>>

-----------------------------------------------------------------------------
(* The effect *)

Tell(a, v) ==
  /\ revAt' = [revAt EXCEPT ![a] = "told"]
  /\ told' = [told EXCEPT ![a] = v]

\* everything that ends before the row is looked at: no worktree, no deck, a
\* cap, no parsable verdict for this head, a head that moved
ReviewEndsEarly(a) ==
  /\ revAt[a] = "reviewing"
  /\ Tell(a, NoVerdict)
  /\ UNCHANGED <<looks, verdict, leaseOf, term, publication, posted, denied,
                 decision>>

\* the pull request is still at the reviewed head
ReviewDone(a, v) ==
  /\ revAt[a] = "reviewing"
  /\ revAt' = [revAt EXCEPT ![a] = "looking"]
  /\ looks' = [looks EXCEPT ![a] = MaxLooks]
  /\ verdict' = [verdict EXCEPT ![a] = v]
  /\ UNCHANGED <<told, leaseOf, term, publication, posted, denied, decision>>

\* STILL_LEASED
StillLeased(a) == leaseOf = a /\ term # "lapsed"

\* claimReviewPublication inserts a row, reclaimFailedReviewPublication takes
\* over one whose call failed
Claimable == publication.state \in {"none", "failed"}

AcquirePublication(a) ==
  /\ revAt[a] = "looking" /\ looks[a] > 0
  /\ Claimable
  /\ StillLeased(a)
  /\ publication' = [publication EXCEPT !.state = "claimed"]
  /\ term' = "long"
  /\ revAt' = [revAt EXCEPT ![a] = "publishing"]
  /\ UNCHANGED <<looks, verdict, told, leaseOf, posted, denied, decision>>

\* sleep, and one look less
AwaitClaimant(a) ==
  /\ revAt[a] = "looking" /\ looks[a] > 0
  /\ \/ publication.state = "claimed"
     \/ publication.state = "none" /\ ~StillLeased(a)
  /\ looks' = [looks EXCEPT ![a] = @ - 1]
  /\ UNCHANGED <<revAt, verdict, told, leaseOf, term, publication, posted,
                 denied, decision>>

\* what a loser reports: the winner's result, not its own
OwnResult(a) == verdict[a]
WinnersResult(a) == publication.result

AdoptPublished(a) ==
  /\ revAt[a] = "looking"
  /\ publication.state = "published"
  /\ Tell(a, WinnersResult(a))
  /\ UNCHANGED <<looks, verdict, leaseOf, term, publication, posted, denied,
                 decision>>

\* publish_failed: the claimant never settled, or it failed and the lease is
\* lost, which ends the loop at once
GiveUpLooking(a) ==
  /\ revAt[a] = "looking"
  /\ \/ looks[a] = 0 /\ publication.state # "published"
     \/ publication.state = "failed" /\ ~StillLeased(a)
  /\ Tell(a, NoVerdict)
  /\ UNCHANGED <<looks, verdict, leaseOf, term, publication, posted, denied,
                 decision>>

\* GitHub takes the review
ReviewPosted(a) ==
  /\ revAt[a] \in {"publishing", "orphan"}
  /\ posted' = posted \cup {a}
  /\ revAt' = [revAt EXCEPT ![a] = IF @ = "orphan" THEN "gone" ELSE "answering"]
  /\ UNCHANGED <<looks, verdict, told, leaseOf, term, publication, denied,
                 decision>>

\* nobody waits for the answer of an orphan's refusal
OrphanFails(a) ==
  /\ revAt[a] = "orphan"
  /\ revAt' = [revAt EXCEPT ![a] = "gone"]
  /\ UNCHANGED <<looks, verdict, told, leaseOf, term, publication, posted,
                 denied, decision>>

RecordReviewPublished(a) ==
  /\ revAt[a] = "answering"
  /\ publication' = IF publication.state = "claimed"
                    THEN [state |-> "published", result |-> verdict[a]]
                    ELSE publication
  /\ Tell(a, verdict[a])
  /\ UNCHANGED <<looks, verdict, leaseOf, term, posted, denied, decision>>

\* gh reports an error, perhaps for a review that GitHub took
RecordReviewPublishFailed(a) ==
  /\ revAt[a] \in {"publishing", "answering"}
  /\ publication' = IF publication.state = "claimed"
                    THEN [publication EXCEPT !.state = "failed"]
                    ELSE publication
  /\ denied' = denied \cup ({a} \cap posted)
  /\ Tell(a, NoVerdict)
  /\ UNCHANGED <<looks, verdict, leaseOf, term, posted, decision>>

\* the body cannot be written: the catch leaves the claim as it is
PublishThrows(a) ==
  /\ revAt[a] = "publishing"
  /\ Tell(a, NoVerdict)
  /\ UNCHANGED <<looks, verdict, leaseOf, term, publication, posted, denied,
                 decision>>

PubNext ==
  \/ LeaseRunsDown \/ RecoveryTakesLease \/ CancelReview \/ ServerDies
  \/ \E a \in Review :
       \/ ClaimReview(a) \/ Heartbeat(a) \/ Complete(a)
       \/ ReviewEndsEarly(a) \/ \E v \in Verdict : ReviewDone(a, v)
       \/ AcquirePublication(a) \/ AwaitClaimant(a) \/ AdoptPublished(a)
       \/ GiveUpLooking(a)
       \/ ReviewPosted(a) \/ OrphanFails(a) \/ PublishThrows(a)
       \/ RecordReviewPublished(a) \/ RecordReviewPublishFailed(a)

PubSpec == PubInit /\ [][PubNext]_pubVars

-----------------------------------------------------------------------------
(* Properties *)

\* At most one review of the work item stands that gh did not report as failed.
OneReviewStands == \A a, b \in posted \ denied : a = b

\* The workflow goes on with a verdict only if GitHub shows that verdict.
DecidedAsPosted ==
  decision # NoVerdict => \E a \in posted \ denied : verdict[a] = decision

\* Two overlapping attempts with different verdicts, lapsed leases, crashes and
\* failing calls: GitHub shows one review, and the workflow goes on with that
\* one or with none (review-publications.ts:3-27, reviewer-effect.ts:131-145).
ReviewIsTheVerdict == OneReviewStands /\ DecidedAsPosted
=============================================================================
