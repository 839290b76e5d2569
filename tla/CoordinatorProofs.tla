-------------------------- MODULE CoordinatorProofs --------------------------
(***************************************************************************)
(* Theorems about Coordinator, for every budget and bound.                 *)
(*                                                                         *)
(* Typing, the one next effect, the pinned review, the routing and the     *)
(* merge hold when the await of a lease push and the recovery pass are     *)
(* undisturbed (Windows = {}), and so does that what ended is left alone.  *)
(* Every transaction leaves the issue in one of five ways (Effect below);  *)
(* the lemmas show which action does what, and the invariants are proved   *)
(* over the five.                                                          *)
(*                                                                         *)
(* That autonomy is bounded, that no budget is overdrawn, that no issue is *)
(* stranded, and that what is done is merged hold whatever falls into      *)
(* those awaits.                                                           *)
(***************************************************************************)
EXTENDS Coordinator, Integers, TLAPS

\* a derived key names a round the issue has reached
KeysOK ==
  /\ \A k \in keys : k[1] = "developer" => k[2] <= round
  /\ status = "ready" => keys = {}

\* a call in flight stands on what it was made for
CallsOK ==
  /\ listed => parked /\ fin = "idle"
  /\ fin # "idle" => parked \/ status \in Ended
  /\ pushing # NoAction =>
       status = "needs_human" /\ open = {pushing} /\ pushing.type = "diverged"

AskedOfTheApproved ==
  \A a \in open : a.type \in {"final_review", "merge_failure", "operator"} => approved = head

NextEffectOK == ExactlyOneNextEffect /\ ReviewIsPinned /\ AskedOfTheApproved
IInv == TypeOK /\ NextEffectOK /\ KeysOK /\ CallsOK

(***************************************************************************)
(* What a step does to the issue.                                          *)
(***************************************************************************)
\* nothing: the active row keeps its kind and its head
Stays ==
  /\ UNCHANGED <<status, parked, instance, open, head, approved>>
  /\ \/ item' = item
     \/ item'.kind = item.kind /\ item'.head = item.head /\ item # NoItem

\* it runs a stage, by the row of that stage
Works ==
  /\ status' \in Working /\ ~parked' /\ instance' = "active"
  /\ item'.kind = (IF status' = "reviewing" THEN "reviewer" ELSE "developer")
  /\ item'.kind = "reviewer" => item'.head = head'
  /\ open' = {}

\* it asks a person one question
Asks ==
  /\ status' \in Parked /\ ~parked' /\ instance' = "active"
  /\ item' = NoItem
  /\ \E a \in Action :
       /\ open' = {a}
       /\ a.role = "reviewer" => a.head = head'
       /\ status' = "final_review" => a.type = "final_review"
       /\ a.type \in {"final_review", "merge_failure", "operator"} => approved' = head'

\* it waits for the merge
Parks ==
  /\ status' = "final_review" /\ parked' /\ instance' = "active"
  /\ item' = NoItem /\ open' = {}
  /\ approved' = head'

\* it ends
Ends ==
  /\ status' \in Ended /\ ~parked' /\ instance' \in {"none", status'}
  /\ item' = NoItem /\ open' = {}

Effect == Stays \/ Works \/ Asks \/ Parks \/ Ends

USE DEF DeveloperStage, Working, Parked, Ended, IssueTypeOK, EpisodeTypeOK

LEMMA EffectKeepsNextEffectOK ==
  ASSUME TypeOK, NextEffectOK, Effect
  PROVE  NextEffectOK'
<1> USE DEF NextEffectOK, ExactlyOneNextEffect, WorkHasItsItem, PersonIsAsked,
            ReviewedIsParkedOrAsked, RestIsQuiet, ReviewIsPinned, AskedOfTheApproved,
            NoItem
<1>1. CASE Stays
  BY <1>1 DEF Stays
<1>2. CASE Works
  BY <1>2 DEF Works
<1>3. CASE Asks
  BY <1>3 DEF Asks
<1>4. CASE Parks
  BY <1>4 DEF Parks
<1>5. CASE Ends
  BY <1>5 DEF Ends
<1> QED
  BY <1>1, <1>2, <1>3, <1>4, <1>5 DEF Effect

(***************************************************************************)
(* What the invariant says where a row, a person or the park moves the     *)
(* issue on.                                                               *)
(***************************************************************************)
LEMMA RowRuns ==
  ASSUME IInv, Windows = {}, Undisturbed, item # NoItem
  PROVE  /\ item \in Item
         /\ status \in Working /\ ~parked /\ instance = "active"
         /\ item.kind = (IF status = "reviewing" THEN "reviewer" ELSE "developer")
         /\ item.kind = "reviewer" => item.head = head
         /\ open = {}
         /\ fin = "idle" /\ ~listed /\ pushing = NoAction
BY DEF IInv, NextEffectOK, TypeOK, ExactlyOneNextEffect, WorkHasItsItem, PersonIsAsked,
       ReviewedIsParkedOrAsked, RestIsQuiet, ReviewIsPinned, CallsOK, Undisturbed, Status

LEMMA PersonDecides ==
  ASSUME IInv, Windows = {}, Undisturbed, NEW a \in open
  PROVE  /\ a \in Action
         /\ status \in Parked /\ ~parked /\ instance = "active"
         /\ status = "final_review" => a.type = "final_review"
         /\ item = NoItem
         /\ open = {a}
         /\ a.role = "reviewer" => a.head = head
         /\ a.type \in {"final_review", "merge_failure", "operator"} => approved = head
         /\ fin = "idle" /\ ~listed /\ pushing = NoAction
BY DEF IInv, NextEffectOK, TypeOK, ExactlyOneNextEffect, WorkHasItsItem, PersonIsAsked,
       ReviewedIsParkedOrAsked, RestIsQuiet, ReviewIsPinned, AskedOfTheApproved, CallsOK,
       Undisturbed, Status

LEMMA ParkWaits ==
  ASSUME IInv, parked
  PROVE  /\ status = "final_review" /\ instance = "active"
         /\ item = NoItem
         /\ open = {}
         /\ approved = head
         /\ pushing = NoAction
BY DEF IInv, NextEffectOK, TypeOK, ExactlyOneNextEffect, ReviewedIsParkedOrAsked,
       ReviewIsPinned, CallsOK

LEMMA RowIsItem ==
  ASSUME NEW kind \in Kind, NEW h \in Head, NEW publish \in BOOLEAN
  PROVE  /\ Row(kind, h, publish) \in Item
         /\ Row(kind, h, publish).kind = kind
         /\ Row(kind, h, publish).head = h
         /\ Row(kind, h, publish) # NoItem
BY DEF Row, Item, NoItem, Kind

LEMMA FreshIdIsId ==
  ASSUME open = {}, pushing \in Action \cup {NoAction}
  PROVE  FreshId \in 1..4
<1>1. \E n \in 1..4 : \A a \in open \cup {pushing} : a.id # n
  <2>1. CASE pushing.id = 1
    BY <2>1
  <2>2. CASE pushing.id # 1
    BY <2>2
  <2> QED
    BY <2>1, <2>2
<1> QED
  BY <1>1, Zenon DEF FreshId

IsQuestion(a, type, role, h) ==
  a \in Action /\ a.type = type /\ a.role = role /\ a.head = h

LEMMA NewActionIsQuestion ==
  ASSUME open = {}, pushing \in Action \cup {NoAction},
         NEW type \in ActionType, NEW role \in Kind, NEW h \in Head, NEW advance \in BOOLEAN
  PROVE  IsQuestion(NewAction(type, role, h, advance), type, role, h)
BY FreshIdIsId DEF IsQuestion, NewAction, Action

(***************************************************************************)
(* The steps of a row.                                                     *)
(***************************************************************************)
StepOK == TypeOK' /\ Effect /\ KeysOK' /\ CallsOK'

LEMMA RowStays ==
  ASSUME IInv,
         \/ Lease \/ PutBack \/ Reclaim \/ AgentPushes \/ ChecksWaitSync
         \/ \E wait \in {"none", "capped"}, publish \in BOOLEAN : DeferWork(wait, publish)
  PROVE  StepOK
<1> USE CoordinatorAssumption
    DEF issueVars, rowVars, episodeVars, ghVars, callVars, historyVars
<1>1. CASE Lease
  <2>1. item \in Item /\ item # NoItem
    BY <1>1 DEF IInv, TypeOK, NoItem, Lease
  <2>2. item' \in Item /\ item'.kind = item.kind /\ item'.head = item.head
    BY <1>1, <2>1 DEF Item, Lease
  <2> QED
    BY <1>1, <2>1, <2>2 DEF StepOK, Effect, Stays, IInv, TypeOK, KeysOK, CallsOK, Lease
<1>2. CASE PutBack
  <2>1. item \in Item /\ item # NoItem
    BY <1>2 DEF IInv, TypeOK, NoItem, PutBack
  <2>2. item' \in Item /\ item'.kind = item.kind /\ item'.head = item.head
    BY <1>2, <2>1 DEF Item, PutBack
  <2> QED
    BY <1>2, <2>1, <2>2 DEF StepOK, Effect, Stays, IInv, TypeOK, KeysOK, CallsOK, PutBack
<1>3. CASE Reclaim
  <2>1. item \in Item /\ item # NoItem
    BY <1>3 DEF IInv, TypeOK, NoItem, Reclaim
  <2>2. item' \in Item /\ item'.kind = item.kind /\ item'.head = item.head
    BY <1>3, <2>1 DEF Item, Reclaim
  <2>3. infra' \in 0..MaxInfra
    BY <1>3 DEF IInv, TypeOK, Reclaim, InfraRemains, Charged
  <2> QED
    BY <1>3, <2>1, <2>2, <2>3 DEF StepOK, Effect, Stays, IInv, TypeOK, KeysOK, CallsOK, Reclaim
<1>4. CASE AgentPushes
  BY <1>4 DEF StepOK, Effect, Stays, IInv, TypeOK, KeysOK, CallsOK, AgentPushes, Head
<1>5. CASE ChecksWaitSync
  BY <1>5 DEF StepOK, Effect, Stays, IInv, TypeOK, KeysOK, CallsOK, ChecksWaitSync, Head
<1>6. ASSUME NEW wait \in {"none", "capped"}, NEW publish \in BOOLEAN, DeferWork(wait, publish)
      PROVE  StepOK
  <2>1. /\ item.state = "leased"
        /\ UNCHANGED <<issueVars, keys, open, verified, episodeVars, ghVars, callVars,
                       historyVars>>
    BY <1>6, Zenon DEF DeferWork
  <2>2. item' = [item EXCEPT !.state = "pending", !.wait = wait,
                             !.publish = @ \/ publish]
    BY <1>6, Zenon DEF DeferWork
  <2>3. item \in Item /\ item # NoItem
    BY <2>1 DEF IInv, TypeOK, NoItem
  <2>4. (item.publish \/ publish) \in BOOLEAN
    OBVIOUS
  <2>5. item' \in Item /\ item'.kind = item.kind /\ item'.head = item.head
    BY <2>2, <2>3, <2>4 DEF Item
  <2> QED
    BY <2>1, <2>3, <2>5 DEF StepOK, Effect, Stays, IInv, TypeOK, KeysOK, CallsOK
<1> QED
  BY <1>1, <1>2, <1>3, <1>4, <1>5, <1>6

(***************************************************************************)
(* A developer's answers.                                                  *)
(***************************************************************************)
LEMMA AutomaticCounts ==
  ASSUME TypeOK, Automatic
  PROVE  queued' \in Nat /\ approved' = approved /\ decisions' = decisions
BY CoordinatorAssumption DEF TypeOK, Automatic, AutonomyBound

LEMMA FreshRow ==
  ASSUME NEW kind \in Kind, NEW h \in Head, NEW publish \in BOOLEAN,
         EnqueueFresh(Row(kind, h, publish))
  PROVE  item' \in Item /\ item'.kind = kind /\ item'.head = h /\ keys' = keys
BY RowIsItem DEF EnqueueFresh

LEMMA DeveloperRowIsItem ==
  /\ Row("developer", 0, FALSE) \in Item /\ Row("developer", 0, FALSE).kind = "developer"
  /\ Row("developer", 0, TRUE) \in Item /\ Row("developer", 0, TRUE).kind = "developer"
<1>1. "developer" \in Kind /\ 0 \in Head /\ TRUE \in BOOLEAN /\ FALSE \in BOOLEAN
  BY CoordinatorAssumption DEF Kind, Head
<1> QED
  BY <1>1, RowIsItem, Zenon

LEMMA DeveloperRow ==
  ASSUME EnqueueFresh(Row("developer", 0, FALSE)) \/ EnqueueFresh(Row("developer", 0, TRUE))
  PROVE  item' \in Item /\ item'.kind = "developer" /\ keys' = keys
BY DeveloperRowIsItem DEF EnqueueFresh

LEMMA AsksForDeveloper ==
  ASSUME TypeOK, open = {}, NEW type \in ActionType, NEW h \in Head,
         Raise(type, "developer", h, FALSE)
  PROVE  \E a : open' = {a} /\ IsQuestion(a, type, "developer", h)
<1>1. /\ "developer" \in Kind /\ FALSE \in BOOLEAN
      /\ pushing \in Action \cup {NoAction}
  BY DEF Kind, TypeOK
<1>2. IsQuestion(NewAction(type, "developer", h, FALSE), type, "developer", h)
  BY <1>1, NewActionIsQuestion, Zenon
<1>3. open' = {NewAction(type, "developer", h, FALSE)}
  BY DEF Raise
<1> QED
  BY <1>2, <1>3

LEMMA DeveloperHandsOffStep ==
  ASSUME IInv, Windows = {}, Undisturbed, DeveloperHandsOff
  PROVE  StepOK
<1> USE DEF DeveloperHandsOff, Completes, Transition, callVars, episodeVars
<1>1. /\ status \in Working /\ ~parked /\ open = {} /\ instance = "active"
      /\ fin = "idle" /\ ~listed /\ pushing = NoAction
  BY RowRuns DEF NoItem
<1>2. remote \in Head /\ keys \subseteq Kind \X (Nat \ {0}) \X Head /\ round \in Nat \ {0}
  BY DEF IInv, TypeOK
<1>3. /\ item' = Row("reviewer", remote, FALSE)
      /\ keys' = keys \/ keys' = keys \cup {<<"reviewer", round, remote>>}
  BY DEF EnqueueReviewer, EnqueueKeyed, EnqueueFresh
<1>4. item' \in Item /\ item'.kind = "reviewer" /\ item'.head = remote
  BY <1>2, <1>3, RowIsItem DEF Kind
<1>5. TypeOK'
  <2>1. keys' \subseteq Kind \X (Nat \ {0}) \X Head
    BY <1>2, <1>3 DEF Kind
  <2>2. queued' \in Nat /\ approved' = approved /\ decisions' = decisions
    BY AutomaticCounts DEF IInv
  <2>3. status' \in Status /\ parked' \in BOOLEAN
    BY DEF Status
  <2>4. pr' \in {"none", "open", "merged"}
    BY DEF IInv, TypeOK
  <2> QED
    BY <1>4, <2>1, <2>2, <2>3, <2>4 DEF IInv, TypeOK
<1>6. Works
  BY <1>1, <1>4 DEF Works
<1>7. KeysOK' /\ CallsOK'
  BY <1>1, <1>3 DEF IInv, KeysOK, CallsOK
<1> QED
  BY <1>5, <1>6, <1>7 DEF StepOK, Effect

LEMMA DeveloperRetriesStep ==
  ASSUME IInv, Windows = {}, Undisturbed, NEW publish \in BOOLEAN, DeveloperRetries(publish)
  PROVE  StepOK
<1> USE DEF DeveloperRetries, Completes, Transition, RetryStage, callVars, episodeVars, ghVars
<1>1. /\ status \in Working /\ ~parked /\ open = {} /\ instance = "active"
      /\ fin = "idle" /\ ~listed /\ pushing = NoAction
  BY RowRuns DEF NoItem
<1>2. item' \in Item /\ item'.kind = "developer" /\ keys' = keys
  BY DeveloperRow
<1>3. TypeOK'
  <2>1. queued' \in Nat /\ approved' = approved /\ decisions' = decisions
    BY AutomaticCounts DEF IInv
  <2>2. status' \in Status /\ parked' \in BOOLEAN
    BY DEF Status
  <2>3. infra' \in 0..MaxInfra
    BY CoordinatorAssumption DEF IInv, TypeOK, InfraRemains, Charged
  <2> QED
    BY <1>2, <2>1, <2>2, <2>3 DEF IInv, TypeOK
<1>4. Works
  BY <1>1, <1>2 DEF Works
<1>5. KeysOK' /\ CallsOK'
  BY <1>1, <1>2 DEF IInv, KeysOK, CallsOK
<1> QED
  BY <1>3, <1>4, <1>5 DEF StepOK, Effect

LEMMA DeveloperRepairsCiStep ==
  ASSUME IInv, Windows = {}, Undisturbed, DeveloperRepairsCi
  PROVE  StepOK
<1> USE DEF DeveloperRepairsCi, Completes, Transition, RetryStage, callVars, episodeVars, ghVars
<1>1. /\ status \in Working /\ ~parked /\ open = {} /\ instance = "active"
      /\ fin = "idle" /\ ~listed /\ pushing = NoAction
  BY RowRuns DEF NoItem
<1>2. item' \in Item /\ item'.kind = "developer" /\ keys' = keys
  BY DeveloperRow
<1>3. TypeOK'
  <2>1. queued' \in Nat /\ approved' = approved /\ decisions' = decisions
    BY AutomaticCounts DEF IInv
  <2>2. status' \in Status /\ parked' \in BOOLEAN
    BY DEF Status
  <2>3. ci' \in 0..MaxCi
    BY CoordinatorAssumption DEF IInv, TypeOK, CiRemains
  <2> QED
    BY <1>2, <2>1, <2>2, <2>3 DEF IInv, TypeOK
<1>4. Works
  BY <1>1, <1>2 DEF Works
<1>5. KeysOK' /\ CallsOK'
  BY <1>1, <1>2 DEF IInv, KeysOK, CallsOK
<1> QED
  BY <1>3, <1>4, <1>5 DEF StepOK, Effect

LEMMA DeveloperEscalatesStep ==
  ASSUME IInv, Windows = {}, Undisturbed,
         NEW type \in {"escalation", "diverged"}, DeveloperEscalates(type)
  PROVE  StepOK
<1> USE DEF DeveloperEscalates, Completes, Transition, callVars, episodeVars, ghVars,
            historyVars
<1>1. /\ status \in Working /\ ~parked /\ open = {} /\ instance = "active"
      /\ fin = "idle" /\ ~listed /\ pushing = NoAction
  BY RowRuns DEF NoItem
<1>2. PICK a : open' = {a} /\ IsQuestion(a, type, "developer", 0)
  <2>1. type \in ActionType /\ 0 \in Head
    BY CoordinatorAssumption DEF ActionType, Head
  <2> QED
    BY <1>1, <2>1, AsksForDeveloper DEF IInv
<1>3. TypeOK'
  <2>1. status' \in Status /\ parked' \in BOOLEAN
    BY DEF Status
  <2>2. open' \subseteq Action
    BY <1>2 DEF IsQuestion
  <2> QED
    BY <2>1, <2>2 DEF IInv, TypeOK
<1>4. Asks
  BY <1>1, <1>2 DEF Asks, IsQuestion
<1>5. KeysOK' /\ CallsOK'
  BY <1>1 DEF IInv, KeysOK, CallsOK
<1> QED
  BY <1>3, <1>4, <1>5 DEF StepOK, Effect

LEMMA ConflictRepairRuns ==
  ASSUME TypeOK, QueueConflictRepair
  PROVE  /\ status' \in DeveloperStage /\ parked' = FALSE
         /\ item' \in Item /\ item'.kind = "developer"
         /\ keys' = keys /\ round' = round + 1
         /\ conflictSpent' = TRUE
         /\ queued' \in Nat /\ approved' = approved /\ decisions' = decisions
         /\ UNCHANGED <<maxRounds, infra, ci, autoMerge, head, instance, syncSpent>>
<1>1. queued' \in Nat /\ approved' = approved /\ decisions' = decisions
  BY AutomaticCounts DEF QueueConflictRepair
<1>2. item' \in Item /\ item'.kind = "developer" /\ keys' = keys
  BY DeveloperRow DEF QueueConflictRepair
<1> QED
  BY <1>1, <1>2 DEF QueueConflictRepair, Transition, SpendRepair

LEMMA ConflictRepairStep ==
  ASSUME IInv, QueueConflictRepair, instance = "active", open' = {},
         fin' = "idle", ~listed, pushing = NoAction,
         UNCHANGED <<verified, ghVars, listed, pushing, scan>>
  PROVE  StepOK
<1> USE DEF ghVars
<1>1. /\ status' \in DeveloperStage /\ parked' = FALSE
      /\ item' \in Item /\ item'.kind = "developer"
      /\ keys' = keys /\ round' = round + 1
      /\ conflictSpent' = TRUE
      /\ queued' \in Nat /\ approved' = approved /\ decisions' = decisions
      /\ UNCHANGED <<maxRounds, infra, ci, autoMerge, head, instance, syncSpent>>
  BY ConflictRepairRuns DEF IInv
<1>2. TypeOK'
  <2>1. status' \in Status /\ round' \in Nat \ {0}
    BY <1>1 DEF IInv, TypeOK, Status
  <2> QED
    BY <1>1, <2>1 DEF IInv, TypeOK
<1>3. Works
  BY <1>1 DEF Works
<1>4. KeysOK'
  BY <1>1 DEF IInv, TypeOK, KeysOK, Kind
<1>5. CallsOK'
  BY DEF CallsOK
<1> QED
  BY <1>2, <1>3, <1>4, <1>5 DEF StepOK, Effect

LEMMA DeveloperMeetsConflictStep ==
  ASSUME IInv, Windows = {}, Undisturbed, DeveloperMeetsConflict
  PROVE  StepOK
<1>1. open = {} /\ instance = "active" /\ fin = "idle" /\ ~listed /\ pushing = NoAction
  BY RowRuns DEF DeveloperMeetsConflict, Completes, NoItem
<1>2. /\ open' = {} /\ fin' = "idle"
      /\ UNCHANGED <<verified, ghVars, listed, pushing, scan>>
  BY <1>1 DEF DeveloperMeetsConflict, callVars
<1>3. QueueConflictRepair
  BY DEF DeveloperMeetsConflict
<1> QED
  BY <1>1, <1>2, <1>3, ConflictRepairStep

(***************************************************************************)
(* A reviewer's answers.                                                   *)
(***************************************************************************)
LEMMA ReviewerApprovesStep ==
  ASSUME IInv, Windows = {}, Undisturbed, ReviewerApproves
  PROVE  StepOK
<1> USE DEF ReviewerApproves, Completes, ghVars, callVars, episodeVars
<1>1. /\ status = "reviewing" /\ ~parked /\ open = {} /\ instance = "active"
      /\ item \in Item /\ item.head = head
      /\ fin = "idle" /\ ~listed /\ pushing = NoAction
  BY RowRuns DEF NoItem
<1>2. approved' = head' /\ approved' \in Head
  BY <1>1 DEF IInv, TypeOK
<1>3. KeysOK' /\ CallsOK'
  BY <1>1 DEF IInv, KeysOK, CallsOK, ParkForMerge, Transition
<1>4. CASE autoMerge
  <2>1. status' = "final_review" /\ parked' = TRUE /\ open' = {}
    BY <1>1, <1>4 DEF ParkForMerge
  <2>2. TypeOK'
    BY <1>2, <2>1 DEF IInv, TypeOK, Status
  <2>3. Parks
    BY <1>1, <1>2, <2>1 DEF Parks
  <2> QED
    BY <1>3, <2>2, <2>3 DEF StepOK, Effect
<1>5. CASE ~autoMerge
  <2>1. status' = "final_review" /\ parked' = FALSE
    BY <1>5 DEF Transition
  <2>2. PICK a : open' = {a} /\ IsQuestion(a, "final_review", "developer", 0)
    <3>1. "final_review" \in ActionType /\ 0 \in Head
      BY CoordinatorAssumption DEF ActionType, Head
    <3> QED
      BY <1>1, <1>5, <3>1, AsksForDeveloper DEF IInv
  <2>3. TypeOK'
    <3>1. open' \subseteq Action /\ status' \in Status
      BY <2>1, <2>2 DEF IsQuestion, Status
    <3>2. item' = NoItem /\ UNCHANGED <<round, maxRounds, infra, ci, autoMerge, head,
                                       instance, keys>>
      OBVIOUS
    <3>3. IssueTypeOK'
      BY <2>1, <3>1, <3>2 DEF IInv, TypeOK
    <3>4. UNCHANGED <<verified, conflictSpent, syncSpent, remote, ours, pr, listed, fin,
                      pushing, scan, queued, decisions>>
      OBVIOUS
    <3>5. EpisodeTypeOK'
      BY <1>2, <3>4 DEF IInv, TypeOK
    <3> QED
      BY <3>3, <3>5 DEF TypeOK
  <2>4. Asks
    BY <1>1, <1>2, <2>1, <2>2 DEF Asks, IsQuestion
  <2> QED
    BY <1>3, <2>3, <2>4 DEF StepOK, Effect
<1> QED
  BY <1>4, <1>5

LEMMA ReviewerRequestsChangesStep ==
  ASSUME IInv, Windows = {}, Undisturbed, ReviewerRequestsChanges
  PROVE  StepOK
<1> USE DEF ReviewerRequestsChanges, Completes, Transition, callVars, episodeVars, ghVars
<1>1. /\ status \in Working /\ ~parked /\ open = {} /\ instance = "active"
      /\ fin = "idle" /\ ~listed /\ pushing = NoAction
  BY RowRuns DEF NoItem
<1>2. round \in Nat \ {0} /\ keys \subseteq Kind \X (Nat \ {0}) \X Head
  BY DEF IInv, TypeOK
<1>3. <<"developer", round + 1, 0>> \notin keys
  BY <1>2 DEF IInv, KeysOK
<1>4. /\ item' = Row("developer", 0, FALSE)
      /\ keys' = keys \cup {<<"developer", round + 1, 0>>}
  BY <1>3 DEF EnqueueKeyed
<1>5. item' \in Item /\ item'.kind = "developer"
  BY <1>4, DeveloperRowIsItem
<1>6. TypeOK'
  <2>1. queued' \in Nat /\ approved' = approved /\ decisions' = decisions
    BY AutomaticCounts DEF IInv
  <2>2. status' \in Status /\ parked' \in BOOLEAN
    BY DEF Status
  <2>3. round' \in Nat \ {0}
    BY <1>2
  <2>4. keys' \subseteq Kind \X (Nat \ {0}) \X Head
    BY <1>2, <1>4, CoordinatorAssumption DEF Kind, Head
  <2> QED
    BY <1>5, <2>1, <2>2, <2>3, <2>4 DEF IInv, TypeOK
<1>7. Works
  BY <1>1, <1>5 DEF Works
<1>8. KeysOK' /\ CallsOK'
  BY <1>1, <1>2, <1>4 DEF IInv, KeysOK, CallsOK, Kind
<1> QED
  BY <1>6, <1>7, <1>8 DEF StepOK, Effect

LEMMA ReviewerAsksStep ==
  ASSUME IInv, Windows = {}, Undisturbed,
         NEW type \in {"attempts_exhausted", "escalation", "scope"},
         NEW advance \in BOOLEAN, ReviewerAsks(type, advance)
  PROVE  StepOK
<1> USE DEF ReviewerAsks, Completes, Transition, callVars, episodeVars, ghVars, historyVars
<1>1. /\ ~parked /\ open = {} /\ instance = "active"
      /\ fin = "idle" /\ ~listed /\ pushing = NoAction
  BY RowRuns DEF NoItem
<1>2. IsQuestion(NewAction(type, "developer", 0, advance), type, "developer", 0)
  <2>1. /\ type \in ActionType /\ "developer" \in Kind /\ 0 \in Head
        /\ pushing \in Action \cup {NoAction}
    BY CoordinatorAssumption DEF ActionType, Kind, Head, IInv, TypeOK
  <2> QED
    BY <1>1, <2>1, NewActionIsQuestion, Zenon
<1>3. open' = {NewAction(type, "developer", 0, advance)}
  BY <1>1 DEF Raise
<1>4. TypeOK'
  <2>1. status' \in Status /\ parked' \in BOOLEAN
    BY DEF Status
  <2>2. open' \subseteq Action
    BY <1>2, <1>3 DEF IsQuestion
  <2> QED
    BY <2>1, <2>2 DEF IInv, TypeOK
<1>5. Asks
  BY <1>1, <1>2, <1>3 DEF Asks, IsQuestion
<1>6. KeysOK' /\ CallsOK'
  BY <1>1 DEF IInv, KeysOK, CallsOK
<1> QED
  BY <1>4, <1>5, <1>6 DEF StepOK, Effect

\* the head a verdict-less review leaves is a head of the branch
LEMMA ObservedIsHead ==
  ASSUME IInv, NEW h \in {item.head, remote}, item \in Item
  PROVE  h \in Head
BY DEF IInv, TypeOK, Item

LEMMA ReviewerRetriesStep ==
  ASSUME IInv, Windows = {}, Undisturbed,
         NEW h \in {item.head, remote}, ReviewerRetries(h)
  PROVE  StepOK
<1> USE DEF ReviewerRetries, Completes, Transition, ObservedHead, callVars, episodeVars,
            ghVars
<1>1. /\ status \in Working /\ ~parked /\ open = {} /\ instance = "active"
      /\ item \in Item
      /\ fin = "idle" /\ ~listed /\ pushing = NoAction
  BY RowRuns DEF NoItem
<1>2. h \in Head
  BY <1>1, ObservedIsHead
<1>3. item' \in Item /\ item'.kind = "reviewer" /\ item'.head = h /\ keys' = keys
  <2>1. "reviewer" \in Kind /\ FALSE \in BOOLEAN /\ EnqueueFresh(Row("reviewer", h, FALSE))
    BY DEF Kind
  <2> QED
    BY <1>2, <2>1, FreshRow, Zenon
<1>4. TypeOK'
  <2>1. queued' \in Nat /\ approved' = approved /\ decisions' = decisions
    BY AutomaticCounts DEF IInv
  <2>2. status' \in Status /\ parked' \in BOOLEAN
    BY DEF Status
  <2>3. infra' \in 0..MaxInfra
    BY CoordinatorAssumption DEF IInv, TypeOK, InfraRemains, Charged
  <2> QED
    BY <1>2, <1>3, <2>1, <2>2, <2>3 DEF IInv, TypeOK
<1>5. Works
  BY <1>1, <1>3 DEF Works
<1>6. KeysOK' /\ CallsOK'
  BY <1>1, <1>3 DEF IInv, KeysOK, CallsOK
<1> QED
  BY <1>4, <1>5, <1>6 DEF StepOK, Effect

LEMMA ReviewerEscalatesStep ==
  ASSUME IInv, Windows = {}, Undisturbed,
         NEW h \in {item.head, remote}, NEW role \in Kind, ReviewerEscalates(h, role)
  PROVE  StepOK
<1> USE DEF ReviewerEscalates, Completes, Transition, ObservedHead, callVars, episodeVars,
            ghVars, historyVars
<1>1. /\ ~parked /\ open = {} /\ instance = "active" /\ item \in Item
      /\ fin = "idle" /\ ~listed /\ pushing = NoAction
  BY RowRuns DEF NoItem
<1>2. h \in Head
  BY <1>1, ObservedIsHead
<1>3. PICK n \in Head : /\ role = "reviewer" => n = h
                       /\ open' = open \cup {NewAction("escalation", role, n, FALSE)}
  <2>1. CASE role = "reviewer"
    BY <1>2, <2>1
  <2>2. CASE role # "reviewer"
    <3>1. 0 \in Head
      BY CoordinatorAssumption DEF Head
    <3> QED
      BY <2>2, <3>1
  <2> QED
    BY <2>1, <2>2
<1>4. IsQuestion(NewAction("escalation", role, n, FALSE), "escalation", role, n)
  <2>1. /\ "escalation" \in ActionType /\ FALSE \in BOOLEAN
        /\ pushing \in Action \cup {NoAction}
    BY DEF ActionType, IInv, TypeOK
  <2> QED
    BY <1>1, <2>1, NewActionIsQuestion, Zenon
<1>5. TypeOK'
  <2>1. status' \in Status /\ parked' \in BOOLEAN
    BY DEF Status
  <2>2. open' \subseteq Action
    BY <1>1, <1>3, <1>4 DEF IsQuestion
  <2> QED
    BY <1>2, <2>1, <2>2 DEF IInv, TypeOK
<1>6. Asks
  BY <1>1, <1>3, <1>4 DEF Asks, IsQuestion
<1>7. KeysOK' /\ CallsOK'
  BY <1>1 DEF IInv, KeysOK, CallsOK
<1> QED
  BY <1>5, <1>6, <1>7 DEF StepOK, Effect

LEMMA StartWorkflowStep ==
  ASSUME IInv, StartWorkflow
  PROVE  StepOK
<1> USE DEF StartWorkflow, Transition, callVars, episodeVars, ghVars
<1>1. ~parked /\ open = {} /\ fin = "idle" /\ ~listed /\ pushing = NoAction /\ keys = {}
  BY DEF IInv, NextEffectOK, ExactlyOneNextEffect, RestIsQuiet, CallsOK, KeysOK
<1>2. /\ item' = Row("developer", 0, FALSE)
      /\ keys' = {<<"developer", 1, 0>>}
  BY <1>1 DEF EnqueueKeyed
<1>3. item' \in Item /\ item'.kind = "developer"
  BY <1>2, DeveloperRowIsItem
<1>4. TypeOK'
  <2>1. keys' \subseteq Kind \X (Nat \ {0}) \X Head
    BY <1>2, CoordinatorAssumption DEF Kind, Head
  <2>2. status' \in Status /\ parked' \in BOOLEAN
    BY DEF Status
  <2> QED
    BY <1>3, <2>1, <2>2 DEF IInv, TypeOK
<1>5. Works
  BY <1>1, <1>3 DEF Works
<1>6. KeysOK' /\ CallsOK'
  BY <1>1, <1>2 DEF IInv, TypeOK, KeysOK, CallsOK
<1> QED
  BY <1>4, <1>5, <1>6 DEF StepOK, Effect

(***************************************************************************)
(* A person's decisions.                                                   *)
(***************************************************************************)
LEMMA ResolveRepairStep ==
  ASSUME IInv, Windows = {}, Undisturbed, NEW a \in open, ResolveRepair(a)
  PROVE  StepOK
<1> USE DEF ResolveRepair, Decides, NewEpisode, Transition, callVars, ghVars
<1>1. /\ ~parked /\ open = {a} /\ instance = "active"
      /\ fin = "idle" /\ ~listed /\ pushing = NoAction
  BY PersonDecides
<1>2. item' \in Item /\ item'.kind = "developer" /\ keys' = keys
  BY DeveloperRow
<1>3. TypeOK'
  <2>1. status' \in Status /\ parked' \in BOOLEAN
    BY DEF Status
  <2>2. round' \in Nat \ {0} /\ decisions' \in 0..MaxDecisions
    BY CoordinatorAssumption DEF IInv, TypeOK
  <2>3. open' = {}
    BY <1>1
  <2> QED
    BY <1>2, <2>1, <2>2, <2>3 DEF IInv, TypeOK
<1>4. Works
  BY <1>1, <1>2 DEF Works
<1>5. KeysOK' /\ CallsOK'
  BY <1>1, <1>2 DEF IInv, TypeOK, KeysOK, CallsOK, Kind
<1> QED
  BY <1>3, <1>4, <1>5 DEF StepOK, Effect

LEMMA ResolveRetryStep ==
  ASSUME IInv, Windows = {}, Undisturbed, NEW a \in open, ResolveRetry(a)
  PROVE  StepOK
<1> USE DEF ResolveRetry, Decides, NewEpisode, Transition, callVars, ghVars
<1>1. /\ ~parked /\ open = {a} /\ instance = "active"
      /\ fin = "idle" /\ ~listed /\ pushing = NoAction
  BY PersonDecides
<1>2. item' \in Item /\ item'.kind = "developer" /\ keys' = keys
  BY DeveloperRow
<1>3. TypeOK'
  <2>1. status' \in Status /\ parked' \in BOOLEAN
    BY DEF Status
  <2>2. /\ round' \in Nat \ {0} /\ maxRounds' \in Nat \ {0}
        /\ decisions' \in 0..MaxDecisions
    BY CoordinatorAssumption DEF IInv, TypeOK
  <2>3. open' = {}
    BY <1>1
  <2> QED
    BY <1>2, <2>1, <2>2, <2>3 DEF IInv, TypeOK
<1>4. Works
  BY <1>1, <1>2 DEF Works
<1>5. KeysOK' /\ CallsOK'
  BY <1>1, <1>2 DEF IInv, TypeOK, KeysOK, CallsOK, Kind
<1> QED
  BY <1>3, <1>4, <1>5 DEF StepOK, Effect

LEMMA ResolveResumeStep ==
  ASSUME IInv, Windows = {}, Undisturbed, NEW a \in open, NEW h \in {a.head, remote},
         ResolveResume(a, h)
  PROVE  StepOK
<1>1. /\ a \in Action /\ ~parked /\ open = {a} /\ instance = "active"
      /\ a.role = "reviewer" => a.head = head
      /\ fin = "idle" /\ ~listed /\ pushing = NoAction
  BY PersonDecides
<1>2. h \in Head
  BY <1>1 DEF IInv, TypeOK, Action
<1>3. /\ keys' = keys /\ item' \in Item /\ head' \in Head
      /\ parked' = FALSE
      /\ \/ status' = "reviewing" /\ item'.kind = "reviewer" /\ item'.head = head'
         \/ status' = "developing" /\ item'.kind = "developer"
  <2>1. CASE a.role = "reviewer"
    <3>1. /\ EnqueueFresh(Row("reviewer", h, FALSE))
          /\ head' = IF h = a.head THEN head ELSE h
          /\ status' = "reviewing" /\ parked' = FALSE
      BY <2>1 DEF ResolveResume, Transition
    <3>2. item' \in Item /\ item'.kind = "reviewer" /\ item'.head = h /\ keys' = keys
      <4>1. "reviewer" \in Kind /\ FALSE \in BOOLEAN
        BY DEF Kind
      <4> QED
        BY <1>2, <3>1, <4>1, FreshRow, Zenon
    <3> QED
      BY <1>1, <1>2, <2>1, <3>1, <3>2
  <2>2. CASE a.role # "reviewer"
    <3>1. item' \in Item /\ item'.kind = "developer" /\ keys' = keys
      BY <2>2, DeveloperRow DEF ResolveResume
    <3> QED
      BY <2>2, <3>1 DEF ResolveResume, Transition, IInv, TypeOK
  <2> QED
    BY <2>1, <2>2
<1>4. /\ round' \in Nat \ {0} /\ round' >= round
      /\ infra' \in 0..MaxInfra /\ ci' \in 0..MaxCi
      /\ decisions' \in 0..MaxDecisions /\ queued' = 1
  BY CoordinatorAssumption DEF ResolveResume, Decides, IInv, TypeOK
<1>5. /\ open' = {} /\ conflictSpent' = FALSE /\ syncSpent' = FALSE
      /\ UNCHANGED <<maxRounds, autoMerge, instance, verified, ghVars, callVars, approved>>
  BY <1>1 DEF ResolveResume, NewEpisode
<1>6. TypeOK'
  <2>1. status' \in Status
    BY <1>3 DEF Status
  <2> QED
    BY <1>3, <1>4, <1>5, <2>1 DEF IInv, TypeOK, ghVars, callVars
<1>7. Works
  BY <1>1, <1>3, <1>5 DEF Works
<1>8. KeysOK' /\ CallsOK'
  BY <1>1, <1>3, <1>4, <1>5 DEF IInv, TypeOK, KeysOK, CallsOK, callVars, Kind
<1> QED
  BY <1>6, <1>7, <1>8 DEF StepOK, Effect

LEMMA ResolveMergeStep ==
  ASSUME IInv, Windows = {}, Undisturbed, NEW a \in open, ResolveMerge(a)
  PROVE  StepOK
<1> USE DEF ResolveMerge, Decides, NewEpisode, ParkForMerge, callVars, ghVars
<1>1. /\ open = {a} /\ instance = "active" /\ item = NoItem /\ approved = head
      /\ fin = "idle" /\ ~listed /\ pushing = NoAction
  BY PersonDecides
<1>2. TypeOK'
  <2>1. decisions' \in 0..MaxDecisions
    BY CoordinatorAssumption DEF IInv, TypeOK
  <2>2. open' = {} /\ verified' \subseteq Head
    BY <1>1 DEF IInv, TypeOK
  <2>3. status' \in Status /\ parked' \in BOOLEAN
    BY DEF Status
  <2> QED
    BY <2>1, <2>2, <2>3 DEF IInv, TypeOK
<1>3. Parks
  BY <1>1 DEF Parks
<1>4. KeysOK' /\ CallsOK'
  BY <1>1 DEF IInv, KeysOK, CallsOK
<1> QED
  BY <1>2, <1>3, <1>4 DEF StepOK, Effect

LEMMA ResolveCloseStep ==
  ASSUME IInv, Windows = {}, Undisturbed, NEW a \in open, NEW to \in Ended,
         ResolveClose(a, to)
  PROVE  StepOK
<1> USE DEF ResolveClose, NewEpisode, Transition, callVars, ghVars, historyVars
<1>1. /\ open = {a} /\ item = NoItem
      /\ fin = "idle" /\ ~listed /\ pushing = NoAction
  BY PersonDecides
<1>2. open' = {}
  BY <1>1
<1>3. TypeOK'
  <2>1. /\ status' \in Status /\ parked' \in BOOLEAN /\ instance' \in Ended
        /\ UNCHANGED <<round, maxRounds, infra, ci, autoMerge, head, item, keys>>
    BY DEF Status
  <2>2. IssueTypeOK'
    BY <1>2, <2>1 DEF IInv, TypeOK
  <2>3. /\ conflictSpent' \in BOOLEAN /\ syncSpent' \in BOOLEAN
        /\ UNCHANGED <<verified, remote, ours, pr, listed, fin, pushing, scan,
                       approved, queued, decisions>>
    OBVIOUS
  <2>4. EpisodeTypeOK'
    BY <2>3 DEF IInv, TypeOK
  <2> QED
    BY <2>2, <2>4 DEF TypeOK
<1>4. Ends
  BY <1>1, <1>2 DEF Ends
<1>5. KeysOK' /\ CallsOK'
  BY <1>1 DEF IInv, KeysOK, CallsOK
<1> QED
  BY <1>3, <1>4, <1>5 DEF StepOK, Effect

LEMMA PushStartsStep ==
  ASSUME IInv, Windows = {}, Undisturbed, NEW a \in open, PushStarts(a)
  PROVE  StepOK
<1> USE DEF PushStarts, Decides, issueVars, rowVars, episodeVars, ghVars
<1>1. /\ a \in Action /\ status = "needs_human" /\ open = {a} /\ fin = "idle" /\ ~listed
  BY PersonDecides
<1>2. decisions' \in 0..MaxDecisions
  BY CoordinatorAssumption DEF IInv, TypeOK
<1>3. TypeOK'
  BY <1>1, <1>2 DEF IInv, TypeOK
<1>4. Stays
  BY DEF Stays
<1>5. KeysOK' /\ CallsOK'
  BY <1>1 DEF IInv, KeysOK, CallsOK
<1> QED
  BY <1>3, <1>4, <1>5 DEF StepOK, Effect

LEMMA PushLandsStep ==
  ASSUME IInv, PushLands
  PROVE  StepOK
<1> USE DEF PushLands
<1>1. /\ status = "needs_human" /\ open = {pushing} /\ item = NoItem /\ instance = "active"
      /\ ~parked /\ fin = "idle" /\ ~listed
  BY DEF IInv, CallsOK, NextEffectOK, ExactlyOneNextEffect, PersonIsAsked
<1>2. "developing" \in Transitions[status]
  BY <1>1 DEF Transitions, Status
<1>3. item' \in Item /\ item'.kind = "developer" /\ keys' = keys
  BY <1>1, <1>2, DeveloperRow
<1>4. /\ status' = "developing" /\ parked' = FALSE /\ open' = {} /\ pushing' = NoAction
      /\ remote' \in Head
      /\ conflictSpent' = FALSE /\ syncSpent' = FALSE /\ ours' = TRUE /\ queued' = 1
  BY <1>1, <1>2, CoordinatorAssumption DEF Transition, NewEpisode, IInv, TypeOK, Head
<1>5. TypeOK'
  <2>1. status' \in Status
    BY <1>4 DEF Status
  <2> QED
    BY <1>3, <1>4, <2>1 DEF IInv, TypeOK
<1>6. Works
  BY <1>1, <1>3, <1>4 DEF Works
<1>7. KeysOK' /\ CallsOK'
  BY <1>1, <1>3, <1>4 DEF IInv, KeysOK, CallsOK
<1> QED
  BY <1>5, <1>6, <1>7 DEF StepOK, Effect

LEMMA PushFailsStep ==
  ASSUME IInv, PushFails
  PROVE  StepOK
<1> USE DEF PushFails, issueVars, rowVars, episodeVars, ghVars, historyVars
<1>1. TypeOK' /\ KeysOK' /\ CallsOK'
  BY DEF IInv, TypeOK, KeysOK, CallsOK
<1>2. Stays
  BY DEF Stays
<1> QED
  BY <1>1, <1>2 DEF StepOK, Effect

(***************************************************************************)
(* The finalizer.                                                          *)
(***************************************************************************)
LEMMA FinalizeStartsStep ==
  ASSUME IInv, Windows = {}, FinalizeStarts
  PROVE  StepOK
<1> USE DEF FinalizeStarts, issueVars, rowVars, episodeVars, ghVars, historyVars
<1>1. parked /\ fin = "idle" /\ listed' = FALSE
  BY DEF Finalizes, Stranded, Undisturbed, IInv, TypeOK, CallsOK
<1>2. pushing = NoAction
  BY <1>1, ParkWaits
<1>3. TypeOK'
  BY <1>1 DEF IInv, TypeOK
<1>4. Stays
  BY DEF Stays
<1>5. KeysOK' /\ CallsOK'
  BY <1>1, <1>2 DEF IInv, KeysOK, CallsOK
<1> QED
  BY <1>3, <1>4, <1>5 DEF StepOK, Effect

LEMMA GateParksStep ==
  ASSUME IInv, Windows = {}, GateParks
  PROVE  StepOK
<1> USE DEF GateParks, Transition, episodeVars, ghVars, historyVars
<1>1. parked /\ fin = "idle" /\ listed' = FALSE
  BY DEF Finalizes, Stranded, Undisturbed, IInv, TypeOK, CallsOK
<1>2. open = {} /\ item = NoItem /\ instance = "active" /\ approved = head /\ pushing = NoAction
  BY <1>1, ParkWaits
<1>3. PICK a : open' = {a} /\ IsQuestion(a, "operator", "developer", head)
  <2>1. "operator" \in ActionType /\ head \in Head
    BY DEF ActionType, IInv, TypeOK
  <2> QED
    BY <1>2, <2>1, AsksForDeveloper DEF IInv
<1>4. TypeOK'
  <2>1. status' \in Status /\ parked' \in BOOLEAN
    BY DEF Status
  <2>2. open' \subseteq Action
    BY <1>3 DEF IsQuestion
  <2> QED
    BY <1>1, <2>1, <2>2 DEF IInv, TypeOK
<1>5. Asks
  BY <1>2, <1>3 DEF Asks, IsQuestion
<1>6. KeysOK' /\ CallsOK'
  BY <1>1, <1>2 DEF IInv, KeysOK, CallsOK
<1> QED
  BY <1>4, <1>5, <1>6 DEF StepOK, Effect

LEMMA PassStep ==
  ASSUME IInv, PassSkips \/ ListStranded
  PROVE  StepOK
<1> USE DEF issueVars, rowVars, episodeVars, ghVars, historyVars
<1>1. CASE PassSkips
  <2>1. IssueTypeOK' /\ Stays
    BY <1>1 DEF PassSkips, Stays, IInv, TypeOK
  <2>2. EpisodeTypeOK'
    BY <1>1 DEF PassSkips, IInv, TypeOK
  <2>3. KeysOK' /\ CallsOK'
    BY <1>1 DEF PassSkips, IInv, KeysOK, CallsOK
  <2> QED
    BY <2>1, <2>2, <2>3 DEF StepOK, Effect, TypeOK
<1>2. CASE ListStranded
  BY <1>2 DEF ListStranded, Stranded, StepOK, Effect, Stays, IInv, TypeOK, KeysOK, CallsOK
<1> QED
  BY <1>1, <1>2

LEMMA GhAnswersStep ==
  ASSUME IInv,
         GhMerges \/ MergeConflicts \/ (\E moves \in BOOLEAN : SyncPushes(moves))
  PROVE  StepOK
<1> USE DEF issueVars, rowVars, episodeVars, ghVars, historyVars
<1>1. CASE GhMerges
  BY <1>1 DEF GhMerges, StepOK, Effect, Stays, IInv, TypeOK, KeysOK, CallsOK
<1>2. CASE MergeConflicts
  BY <1>2 DEF MergeConflicts, StepOK, Effect, Stays, IInv, TypeOK, KeysOK, CallsOK
<1>3. ASSUME NEW moves \in BOOLEAN, SyncPushes(moves)
      PROVE  StepOK
  <2>1. /\ fin = "syncing" /\ fin' = "retrying"
        /\ UNCHANGED <<issueVars, rowVars, verified, episodeVars, pr, listed, pushing, scan,
                       historyVars>>
    BY <1>3, Zenon DEF SyncPushes
  <2>2. remote' \in Head /\ ours' \in BOOLEAN
    BY <1>3, CoordinatorAssumption DEF SyncPushes, IInv, TypeOK, Head
  <2> QED
    BY <2>1, <2>2 DEF StepOK, Effect, Stays, IInv, TypeOK, KeysOK, CallsOK
<1> QED
  BY <1>1, <1>2, <1>3

LEMMA FinalizeLandsStep ==
  ASSUME IInv, FinalizeLands
  PROVE  StepOK
<1> USE DEF FinalizeLands, episodeVars, ghVars, historyVars
<1>1. CASE parked
  <2>1. /\ status = "final_review" /\ instance = "active" /\ item = NoItem /\ open = {}
        /\ pushing = NoAction
    BY <1>1, ParkWaits
  <2>2. "done" \in Transitions[status]
    BY <2>1 DEF Transitions, Status
  <2>3. status' = "done" /\ parked' = FALSE /\ instance' = "done" /\ open' = {}
    BY <2>1, <2>2 DEF Transition
  <2>4. TypeOK'
    BY <2>3 DEF IInv, TypeOK, Status
  <2>5. Ends
    BY <2>1, <2>3 DEF Ends
  <2>6. KeysOK' /\ CallsOK'
    BY <1>1, <2>1, <2>3 DEF IInv, KeysOK, CallsOK
  <2> QED
    BY <2>4, <2>5, <2>6 DEF StepOK, Effect
<1>2. CASE ~parked
  <2>1. status \in Ended /\ instance # "active" /\ ~listed /\ pushing = NoAction
    BY <1>2 DEF IInv, CallsOK, NextEffectOK, ExactlyOneNextEffect
  <2>2. UNCHANGED <<status, parked, instance, open>>
    BY <2>1
  <2>3. TypeOK' /\ KeysOK' /\ CallsOK'
    BY <2>1, <2>2 DEF IInv, TypeOK, KeysOK, CallsOK
  <2>4. Stays
    BY <2>2 DEF Stays
  <2> QED
    BY <2>3, <2>4 DEF StepOK, Effect
<1> QED
  BY <1>1, <1>2

LEMMA MergeFailsStep ==
  ASSUME IInv, MergeFails
  PROVE  StepOK
<1> USE DEF MergeFails, episodeVars, ghVars, historyVars
<1>1. ~listed /\ pushing = NoAction
  BY DEF IInv, CallsOK, NextEffectOK, ExactlyOneNextEffect
<1>2. CASE status = "final_review"
  <2>1. open = {} /\ item = NoItem /\ instance = "active" /\ approved = head
    BY <1>2, ParkWaits DEF IInv, CallsOK
  <2>2. status' = "needs_human" /\ parked' = FALSE
    BY <1>2 DEF Transition
  <2>3. PICK a : open' = {a} /\ IsQuestion(a, "merge_failure", "developer", 0)
    <3>1. "merge_failure" \in ActionType /\ 0 \in Head
      BY CoordinatorAssumption DEF ActionType, Head
    <3> QED
      BY <1>2, <2>1, <3>1, AsksForDeveloper DEF IInv
  <2>4. TypeOK'
    <3>1. open' \subseteq Action
      BY <2>3 DEF IsQuestion
    <3>2. status' \in Status
      BY <2>2 DEF Status
    <3>3. IssueTypeOK'
      BY <2>2, <3>1, <3>2 DEF IInv, TypeOK
    <3>4. EpisodeTypeOK'
      BY <1>2 DEF IInv, TypeOK
    <3> QED
      BY <3>3, <3>4 DEF TypeOK
  <2>5. Asks
    BY <2>1, <2>2, <2>3 DEF Asks, IsQuestion
  <2>6. KeysOK' /\ CallsOK'
    BY <1>1, <2>2 DEF IInv, KeysOK, CallsOK
  <2> QED
    BY <2>4, <2>5, <2>6 DEF StepOK, Effect
<1>3. CASE status # "final_review"
  <2>1. TypeOK' /\ KeysOK' /\ CallsOK'
    BY <1>1, <1>3 DEF IInv, TypeOK, KeysOK, CallsOK
  <2>2. Stays
    BY <1>3 DEF Stays
  <2> QED
    BY <2>1, <2>2 DEF StepOK, Effect
<1> QED
  BY <1>2, <1>3

LEMMA MergeNeedsRepairStep ==
  ASSUME IInv, MergeNeedsRepair
  PROVE  StepOK
<1>1. QueueConflictRepair /\ instance = "active" /\ fin' = "idle" /\ ~listed
      /\ UNCHANGED <<verified, ghVars, listed, pushing, scan>>
  BY DEF MergeNeedsRepair, IInv, CallsOK
<1>2. open' = {} /\ pushing = NoAction
  BY ParkWaits DEF MergeNeedsRepair, IInv, CallsOK
<1> QED
  BY <1>1, <1>2, ConflictRepairStep

(***************************************************************************)
(* The base-advanced scan.                                                 *)
(***************************************************************************)
LEMMA ScanPushesStep ==
  ASSUME IInv, ScanPushes
  PROVE  StepOK
<1> USE DEF ScanPushes, issueVars, rowVars, historyVars
<1>1. TypeOK'
  BY CoordinatorAssumption DEF IInv, TypeOK, Head
<1>2. Stays
  BY DEF Stays
<1>3. KeysOK' /\ CallsOK'
  BY DEF IInv, KeysOK, CallsOK
<1> QED
  BY <1>1, <1>2, <1>3 DEF StepOK, Effect

LEMMA ScanQueuesStep ==
  ASSUME IInv, Windows = {}, Undisturbed, ScanQueues
  PROVE  StepOK
<1> DEFINE queues == ScanOpen /\ ~(item.kind = "developer" /\ ~item.publish)
<1> USE DEF ScanQueues, Transition, Supersede, rowVars, episodeVars, ghVars, historyVars
<1>1. ~listed /\ pushing = NoAction
  BY DEF Undisturbed
<1>2. CASE queues
  <2>1. instance = "active" /\ status \in Working \cup Parked /\ fin = "idle"
    BY <1>2 DEF ScanOpen, SiblingIdle
  <2>2. item' \in Item /\ item'.kind = "developer" /\ keys' = keys
    BY <1>2, DeveloperRow
  <2>3. status' \in DeveloperStage /\ parked' = FALSE /\ open' = {}
    BY <1>2
  <2>4. TypeOK'
    <3>1. queued' \in Nat /\ approved' = approved /\ decisions' = decisions
      BY <1>2, AutomaticCounts DEF IInv
    <3>2. status' \in Status
      BY <2>3 DEF Status
    <3>3. IssueTypeOK'
      BY <2>2, <2>3, <3>2 DEF IInv, TypeOK
    <3>4. EpisodeTypeOK'
      BY <3>1 DEF IInv, TypeOK
    <3> QED
      BY <3>3, <3>4 DEF TypeOK
  <2>5. Works
    BY <2>1, <2>2, <2>3 DEF Works
  <2>6. KeysOK' /\ CallsOK'
    BY <1>1, <2>1, <2>2, <2>3 DEF IInv, KeysOK, CallsOK
  <2> QED
    BY <2>4, <2>5, <2>6 DEF StepOK, Effect
<1>3. CASE ~queues
  <2>1. IssueTypeOK' /\ Stays
    BY <1>3 DEF Stays, IInv, TypeOK
  <2>2. EpisodeTypeOK'
    BY <1>3 DEF IInv, TypeOK
  <2>3. KeysOK' /\ CallsOK'
    BY <1>3 DEF IInv, KeysOK, CallsOK
  <2> QED
    BY <2>1, <2>2, <2>3 DEF StepOK, Effect, TypeOK
<1> QED
  BY <1>2, <1>3

LEMMA ScanRepairsStep ==
  ASSUME IInv, Windows = {}, Undisturbed, ScanRepairs
  PROVE  StepOK
<1>1. ~listed /\ pushing = NoAction
  BY DEF Undisturbed
<1>2. QueueConflictRepair /\ instance = "active" /\ fin' = "idle" /\ open' = {}
      /\ UNCHANGED <<verified, ghVars, listed, pushing, scan>>
  BY DEF ScanRepairs, ScanOpen, SiblingIdle, Supersede, callVars
<1> QED
  BY <1>1, <1>2, ConflictRepairStep

(***************************************************************************)
(* The other commands, GitHub, and a crash.                                *)
(***************************************************************************)
LEMMA ParkCapWaitStep ==
  ASSUME IInv, Windows = {}, Undisturbed, ParkCapWait
  PROVE  StepOK
<1> USE DEF ParkCapWait, Transition, episodeVars, ghVars, callVars, historyVars
<1>1. /\ ~parked /\ open = {} /\ instance = "active"
      /\ fin = "idle" /\ ~listed /\ pushing = NoAction
  BY RowRuns DEF NoItem
<1>2. PICK a, role, h :
        open' = {a} /\ IsQuestion(a, "escalation", role, h) /\ (role = "reviewer" => h = head)
  <2>1. CASE item.kind = "reviewer" /\ head # 0
    <3>1. /\ "escalation" \in ActionType /\ "reviewer" \in Kind /\ head \in Head
          /\ FALSE \in BOOLEAN /\ pushing \in Action \cup {NoAction}
      BY DEF ActionType, Kind, IInv, TypeOK
    <3>2. IsQuestion(NewAction("escalation", "reviewer", head, FALSE),
                     "escalation", "reviewer", head)
      BY <1>1, <3>1, NewActionIsQuestion, Zenon
    <3> QED
      BY <1>1, <2>1, <3>2 DEF Raise
  <2>2. CASE ~(item.kind = "reviewer" /\ head # 0)
    <3>1. "escalation" \in ActionType /\ 0 \in Head
      BY CoordinatorAssumption DEF ActionType, Head
    <3>2. \E a : open' = {a} /\ IsQuestion(a, "escalation", "developer", 0)
      BY <1>1, <2>2, <3>1, AsksForDeveloper DEF IInv
    <3> QED
      BY <3>2
  <2> QED
    BY <2>1, <2>2
<1>3. TypeOK'
  <2>1. status' \in Status /\ parked' \in BOOLEAN
    BY DEF Status
  <2>2. open' \subseteq Action
    BY <1>2 DEF IsQuestion
  <2> QED
    BY <2>1, <2>2 DEF IInv, TypeOK
<1>4. Asks
  BY <1>1, <1>2 DEF Asks, IsQuestion
<1>5. KeysOK' /\ CallsOK'
  BY <1>1 DEF IInv, KeysOK, CallsOK
<1> QED
  BY <1>3, <1>4, <1>5 DEF StepOK, Effect

LEMMA OutsideStep ==
  ASSUME IInv, ToggleAutoMerge \/ Crash \/ OperatorPushes \/ OperatorMerges
  PROVE  StepOK
<1> USE DEF issueVars, rowVars, episodeVars, ghVars, callVars, historyVars
<1>1. CASE ToggleAutoMerge
  BY <1>1 DEF ToggleAutoMerge, StepOK, Effect, Stays, IInv, TypeOK, KeysOK, CallsOK
<1>2. CASE Crash
  <2>1. /\ ~listed' /\ listed' = FALSE /\ fin' = "idle"
        /\ pushing' = NoAction /\ scan' = "idle"
        /\ UNCHANGED <<issueVars, rowVars, verified, episodeVars, ghVars, historyVars>>
    BY <1>2, Zenon DEF Crash
  <2>2. IssueTypeOK' /\ Stays
    BY <2>1 DEF Stays, IInv, TypeOK
  <2>3. EpisodeTypeOK'
    BY <2>1 DEF IInv, TypeOK
  <2>4. KeysOK' /\ CallsOK'
    BY <2>1 DEF IInv, KeysOK, CallsOK
  <2> QED
    BY <2>2, <2>3, <2>4 DEF StepOK, Effect, TypeOK
<1>3. CASE OperatorPushes
  <2>1. IssueTypeOK' /\ Stays
    BY <1>3 DEF OperatorPushes, Stays, IInv, TypeOK
  <2>2. EpisodeTypeOK'
    <3>1. remote' \in Head
      BY <1>3, CoordinatorAssumption DEF OperatorPushes, Head, IInv, TypeOK
    <3> QED
      BY <1>3, <3>1 DEF OperatorPushes, IInv, TypeOK
  <2>3. KeysOK' /\ CallsOK'
    BY <1>3 DEF OperatorPushes, IInv, KeysOK, CallsOK
  <2> QED
    BY <2>1, <2>2, <2>3 DEF StepOK, Effect, TypeOK
<1>4. CASE OperatorMerges
  BY <1>4 DEF OperatorMerges, StepOK, Effect, Stays, IInv, TypeOK, KeysOK, CallsOK
<1> QED
  BY <1>1, <1>2, <1>3, <1>4

LEMMA AbortIssueStep ==
  ASSUME IInv, Windows = {}, Undisturbed, NEW to \in Ended, AbortIssue(to)
  PROVE  StepOK
<1> USE DEF AbortIssue, Transition, episodeVars, ghVars, callVars, historyVars
<1>1. ~listed /\ pushing = NoAction
  BY DEF Undisturbed
<1>2. instance = "active" \/ instance = "none"
  BY DEF IInv, TypeOK, NextEffectOK, ExactlyOneNextEffect, RestIsQuiet, Status
<1>3. TypeOK'
  <2>1. status' \in Status /\ instance' \in {"none"} \cup Ended
    BY <1>2 DEF Status
  <2>2. IssueTypeOK'
    BY <2>1 DEF IInv, TypeOK
  <2>3. EpisodeTypeOK'
    BY DEF IInv, TypeOK
  <2> QED
    BY <2>2, <2>3 DEF TypeOK
<1>4. Ends
  BY <1>2 DEF Ends
<1>5. KeysOK' /\ CallsOK'
  BY <1>1 DEF IInv, KeysOK, CallsOK
<1> QED
  BY <1>3, <1>4, <1>5 DEF StepOK, Effect

LEMMA CloseReadyIssueStep ==
  ASSUME IInv, Windows = {}, Undisturbed, CloseReadyIssue
  PROVE  StepOK
<1> USE DEF CloseReadyIssue, Transition, episodeVars, ghVars, callVars, historyVars
<1>1. ~listed /\ pushing = NoAction
  BY DEF Undisturbed
<1>2. TypeOK'
  <2>1. status' \in Status /\ parked' \in BOOLEAN /\ open' \subseteq Action
    BY DEF Status, Ended
  <2>2. IssueTypeOK'
    BY <2>1 DEF IInv, TypeOK, IssueTypeOK
  <2>3. EpisodeTypeOK'
    BY DEF IInv, TypeOK, EpisodeTypeOK
  <2> QED
    BY <2>2, <2>3 DEF TypeOK
<1>3. Ends
  BY DEF Ends
<1>4. KeysOK' /\ CallsOK'
  BY <1>1 DEF IInv, KeysOK, CallsOK
<1> QED
  BY <1>2, <1>3, <1>4 DEF StepOK, Effect

(***************************************************************************)
(* The invariant, and what it says.                                        *)
(***************************************************************************)
LEMMA InitOK == Init => IInv
<1> SUFFICES ASSUME Init PROVE IInv
  OBVIOUS
<1> USE DEF Init
<1>0. 0 \in Head /\ 0 \in 0..MaxInfra /\ 0 \in 0..MaxCi /\ 0 \in 0..MaxDecisions
  BY CoordinatorAssumption DEF Head
<1>1. IssueTypeOK
  <2>1. status \in Status /\ round \in Nat \ {0} /\ maxRounds \in Nat \ {0}
    BY CoordinatorAssumption DEF Status
  <2> QED
    BY <1>0, <2>1
<1>2. EpisodeTypeOK
  BY <1>0
<1>3. ExactlyOneNextEffect
  BY DEF ExactlyOneNextEffect, WorkHasItsItem, PersonIsAsked, ReviewedIsParkedOrAsked,
         RestIsQuiet
<1>4. ReviewIsPinned /\ AskedOfTheApproved
  BY DEF ReviewIsPinned, AskedOfTheApproved, NoItem
<1>5. KeysOK /\ CallsOK
  BY DEF KeysOK, CallsOK
<1> QED
  BY <1>1, <1>2, <1>3, <1>4, <1>5 DEF IInv, TypeOK, NextEffectOK

LEMMA RoutedStep ==
  ASSUME IInv, Windows = {}, Undisturbed, Routed
  PROVE  StepOK
<1>1. CASE DeveloperAnswers
  BY <1>1, DeveloperHandsOffStep, DeveloperRetriesStep, DeveloperRepairsCiStep,
     DeveloperEscalatesStep, DeveloperMeetsConflictStep DEF DeveloperAnswers
<1>2. CASE ReviewerAnswers
  BY <1>2, ReviewerApprovesStep, ReviewerRequestsChangesStep, ReviewerAsksStep,
     ReviewerRetriesStep, ReviewerEscalatesStep, Zenon DEF ReviewerAnswers
<1> QED
  BY <1>1, <1>2 DEF Routed

LEMMA DecisionsStep ==
  ASSUME IInv, Windows = {}, Undisturbed, Decisions
  PROVE  StepOK
BY ResolveRepairStep, ResolveRetryStep, ResolveResumeStep, ResolveMergeStep,
   ResolveCloseStep, PushStartsStep, Zenon DEF Decisions

LEMMA BackgroundStep ==
  ASSUME IInv, Windows = {}, Undisturbed, Background
  PROVE  StepOK
BY PassStep, GhAnswersStep, MergeFailsStep, MergeNeedsRepairStep, FinalizeLandsStep,
   ScanPushesStep, ScanQueuesStep, ScanRepairsStep, ParkCapWaitStep, OutsideStep,
   AbortIssueStep, CloseReadyIssueStep, Zenon DEF Background, Answers

LEMMA NextOK ==
  ASSUME IInv, Windows = {}, Next
  PROVE  StepOK
<1>1. CASE PushAnswers
  BY <1>1, PushLandsStep, PushFailsStep DEF PushAnswers
<1>2. CASE FinalizeOrGate
  BY <1>2, FinalizeStartsStep, GateParksStep DEF FinalizeOrGate
<1>3. CASE PassSkips \/ Crash
  BY <1>3, PassStep, OutsideStep
<1>4. CASE Undisturbed /\ WorkSteps
  BY <1>4, StartWorkflowStep, RowStays, RoutedStep, Zenon DEF WorkSteps
<1>5. CASE Undisturbed /\ (Decisions \/ Background)
  BY <1>5, DecisionsStep, BackgroundStep
<1> QED
  BY <1>1, <1>2, <1>3, <1>4, <1>5 DEF Next

LEMMA Inductive ==
  ASSUME IInv, Windows = {}, [Next]_vars
  PROVE  IInv'
<1>1. CASE Next
  <2>1. TypeOK' /\ Effect /\ KeysOK' /\ CallsOK'
    BY <1>1, NextOK DEF StepOK
  <2>2. NextEffectOK'
    BY <2>1, EffectKeepsNextEffectOK DEF IInv
  <2> QED
    BY <2>1, <2>2 DEF IInv
<1>2. CASE UNCHANGED vars
  <2> USE <1>2 DEF vars, issueVars, rowVars, episodeVars, ghVars, callVars, historyVars
  <2>1. IssueTypeOK' /\ EpisodeTypeOK'
    BY DEF IInv, TypeOK
  <2>2. KeysOK' /\ CallsOK'
    BY DEF IInv, KeysOK, CallsOK
  <2>3. NextEffectOK'
    BY DEF IInv, NextEffectOK, ExactlyOneNextEffect, WorkHasItsItem, PersonIsAsked,
           ReviewedIsParkedOrAsked, RestIsQuiet, ReviewIsPinned, AskedOfTheApproved
  <2> QED
    BY <2>1, <2>2, <2>3 DEF IInv, TypeOK
<1> QED
  BY <1>1, <1>2

\* Typing, the one next effect, the pinned review, the keys and the calls in
\* flight are kept by every step of the kernel.
THEOREM Invariance == Windows = {} => (Spec => []IInv)
<1> SUFFICES ASSUME Windows = {} PROVE Spec => []IInv
  OBVIOUS
<1>1. Init => IInv
  BY InitOK
<1>2. IInv /\ [Next]_vars => IInv'
  BY Inductive
<1> QED
  BY <1>1, <1>2, PTL DEF Spec

\* Every column keeps its range, and no path charges an issue more infra or CI
\* attempts than it has.
THEOREM TypeCorrect == Windows = {} => (Spec => []TypeOK)
<1>1. IInv => TypeOK
  BY DEF IInv
<1> QED
  BY <1>1, Invariance, PTL

\* An issue has exactly one next effect: the row of its stage, one question, or
\* the merge park, and none once it has ended.
THEOREM OneNextEffectHolds == Windows = {} => (Spec => []ExactlyOneNextEffect)
<1>1. IInv => ExactlyOneNextEffect
  BY DEF IInv, NextEffectOK
<1> QED
  BY <1>1, Invariance, PTL

\* Reviews run, verdicts count and escalations resume at the head the issue
\* records.
THEOREM ReviewIsPinnedHolds == Windows = {} => (Spec => []ReviewIsPinned)
<1>1. IInv => ReviewIsPinned
  BY DEF IInv, NextEffectOK
<1> QED
  BY <1>1, Invariance, PTL

\* The status table never refuses the answer of a leased row.
THEOREM RoutingNeverRefusedHolds == Windows = {} => (Spec => []RoutingNeverRefused)
<1>1. IInv => RoutingNeverRefused
  BY DEF IInv, NextEffectOK, TypeOK, ExactlyOneNextEffect, WorkHasItsItem,
         PersonIsAsked, ReviewedIsParkedOrAsked, RestIsQuiet, NoItem, Status,
         RoutingNeverRefused, RouteTargets, RetryStage, Transitions
<1> QED
  BY <1>1, Invariance, PTL

\* nothing else makes an idle finalizer call gh
LEMMA OnlyFinalizeStartsMerges ==
  ASSUME Next, fin = "idle", fin' = "merging"
  PROVE  FinalizeStarts
<1> USE DEF callVars
<1>1. ~PushAnswers /\ ~GateParks /\ ~PassSkips /\ ~Crash
  BY DEF PushAnswers, PushLands, PushFails, GateParks, PassSkips, Crash
<1>2. ~DeveloperAnswers
  BY DEF DeveloperAnswers, DeveloperHandsOff, DeveloperRepairsCi, DeveloperMeetsConflict,
         DeveloperRetries, DeveloperEscalates
<1>3. ~ReviewerAnswers
  BY DEF ReviewerAnswers, ReviewerApproves, ReviewerRequestsChanges, ReviewerAsks,
         ReviewerRetries, ReviewerEscalates
<1>4. ~WorkSteps
  BY <1>2, <1>3 DEF WorkSteps, StartWorkflow, Lease, PutBack, Reclaim, DeferWork,
                    AgentPushes, ChecksWaitSync, Routed
<1>5. ~Decisions
  BY DEF Decisions, ResolveRepair, ResolveRetry, ResolveMerge, PushStarts, ResolveResume,
         ResolveClose
<1>6. ~Answers /\ ~FinalizeLands
  BY DEF Answers, GhMerges, MergeFails, MergeConflicts, SyncPushes, MergeNeedsRepair,
         FinalizeLands
<1>7. ~Background
  BY <1>6 DEF Background, ListStranded, ScanPushes, ScanQueues, ScanRepairs, ParkCapWait,
              ToggleAutoMerge, CloseReadyIssue, AbortIssue, OperatorPushes, OperatorMerges
<1> QED
  BY <1>1, <1>4, <1>5, <1>7 DEF Next, FinalizeOrGate

\* The finalizer calls gh only for the approved head of a merge park, and for a
\* head with an operator result if the issue needs one.
THEOREM MergeIsClearedHolds == Windows = {} => (Spec => MergeIsCleared)
<1> SUFFICES ASSUME Windows = {} PROVE Spec => MergeIsCleared
  OBVIOUS
<1> DEFINE Cleared ==
      fin = "idle" /\ fin' = "merging" =>
        /\ status = "final_review" /\ approved = head
        /\ NeedsOperator => head \in verified
<1>1. IInv /\ [Next]_vars => [Cleared]_vars
  <2> SUFFICES ASSUME IInv, Next, fin = "idle", fin' = "merging"
               PROVE  /\ status = "final_review" /\ approved = head
                      /\ NeedsOperator => head \in verified
    OBVIOUS
  <2>1. FinalizeStarts
    BY OnlyFinalizeStartsMerges
  <2> QED
    BY <2>1, ParkWaits DEF FinalizeStarts, Finalizes, Stranded, GateBlocks, IInv, CallsOK
<1>2. Spec => []IInv
  BY Invariance
<1> QED
  BY <1>1, <1>2, PTL DEF Spec, MergeIsCleared

(***************************************************************************)
(* AutonomyBounded, whatever falls into the awaits.  Rows are counted with *)
(* a potential: what the rounds, marks and budgets of the episode still    *)
(* allow to be enqueued.  A step pays for its row out of it, or a person's *)
(* decision starts the count anew, or the issue ends.                      *)
(***************************************************************************)
\* the review a developer's row is followed by
ReviewDue == IF item.kind = "developer" THEN 1 ELSE 0
RoundsLeft == IF round < maxRounds THEN maxRounds - round ELSE 0
RepairLeft == IF conflictSpent THEN 0 ELSE 1
\* the sync of this episode, and the row of a sync that has been pushed
SyncsLeft == (IF syncSpent THEN 0 ELSE 1) + (IF scan = "pushed" THEN 1 ELSE 0)
Mandate ==
  ReviewDue + 2 * (RoundsLeft + RepairLeft + SyncsLeft) + (MaxInfra - infra) + (MaxCi - ci)

CountTypes ==
  /\ status \in Status
  /\ round \in Nat \ {0} /\ maxRounds \in Nat \ {0}
  /\ infra \in 0..MaxInfra /\ ci \in 0..MaxCi /\ queued \in Nat
  /\ "kind" \in DOMAIN item
CountInv ==
  /\ CountTypes
  /\ AutonomyBounded
  /\ status \notin Ended => queued + Mandate <= AutonomyBound

\* What a step does to the count
IsOver == status' \in Ended /\ queued' = queued
Pays == status \notin Ended /\ queued' + Mandate' <= queued + Mandate
Renews == status' \notin Ended /\ queued' + ReviewDue' <= 2
Counts == CountTypes' /\ ((maxRounds' = maxRounds /\ (IsOver \/ Pays)) \/ Renews)

LEMMA DifferenceIsLess ==
  ASSUME NEW r \in Nat \ {0}, NEW m \in Nat \ {0}
  PROVE  (IF r < m THEN m - r ELSE 0) \in 0..(m - 1)
OBVIOUS

LEMMA PartsAreNat ==
  ASSUME CountTypes
  PROVE  /\ ReviewDue \in 0..1 /\ RoundsLeft \in 0..(maxRounds - 1)
         /\ RepairLeft \in 0..1 /\ SyncsLeft \in 0..2
         /\ infra \in 0..MaxInfra /\ ci \in 0..MaxCi
         /\ queued \in Nat /\ maxRounds \in Nat \ {0}
BY DEF CountTypes, ReviewDue, RoundsLeft, RepairLeft, SyncsLeft

LEMMA PartsStayNat ==
  ASSUME CountTypes'
  PROVE  /\ ReviewDue' \in 0..1 /\ RoundsLeft' \in 0..(maxRounds' - 1)
         /\ RepairLeft' \in 0..1 /\ SyncsLeft' \in 0..2
         /\ infra' \in 0..MaxInfra /\ ci' \in 0..MaxCi
         /\ queued' \in Nat /\ maxRounds' \in Nat \ {0}
<1>1. ReviewDue' \in 0..1 /\ RepairLeft' \in 0..1
  BY DEF ReviewDue, RepairLeft
<1>2. RoundsLeft' \in 0..(maxRounds' - 1)
  <2>1. round' \in Nat \ {0} /\ maxRounds' \in Nat \ {0}
    BY DEF CountTypes
  <2> QED
    BY <2>1, DifferenceIsLess DEF RoundsLeft
<1>3. SyncsLeft' \in 0..2
  BY DEF SyncsLeft
<1> QED
  BY <1>1, <1>2, <1>3 DEF CountTypes

LEMMA CountsKeepCountInv ==
  ASSUME CountInv, Counts
  PROVE  CountInv'
<1> USE CoordinatorAssumption DEF CountInv, Counts, AutonomyBounded, AutonomyBound
<1>1. CASE maxRounds' = maxRounds /\ IsOver
  BY <1>1 DEF IsOver
<1>2. CASE maxRounds' = maxRounds /\ Pays
  BY <1>2, PartsAreNat, PartsStayNat DEF Pays, Mandate
<1>3. CASE Renews
  BY <1>3, PartsStayNat DEF Renews, Mandate
<1> QED
  BY <1>1, <1>2, <1>3

LEMMA NothingLeavesTheEnd ==
  ASSUME CountInv, NEW to, to \in Transitions[status]
  PROVE  status \notin Ended /\ to \in Status
BY DEF CountInv, CountTypes, Status, Transitions

LEMMA AutomaticAddsOne ==
  ASSUME CountInv, Automatic
  PROVE  queued' = queued + 1
<1>1. AutonomyBound \in Nat /\ queued \in Nat
  BY CoordinatorAssumption DEF CountInv, CountTypes, AutonomyBound
<1> QED
  BY <1>1 DEF CountInv, AutonomyBounded, Automatic

LEMMA RowHasKind ==
  ASSUME NEW kind, NEW h, NEW publish
  PROVE  Row(kind, h, publish).kind = kind /\ "kind" \in DOMAIN Row(kind, h, publish)
BY DEF Row

LEMMA DeveloperRowHasKind ==
  ASSUME EnqueueFresh(Row("developer", 0, FALSE)) \/ EnqueueFresh(Row("developer", 0, TRUE))
  PROVE  "kind" \in DOMAIN item'
BY RowHasKind, Zenon DEF EnqueueFresh

LEMMA TypesNext ==
  ASSUME status' \in Status, round' \in Nat \ {0}, maxRounds' \in Nat \ {0},
         infra' \in 0..MaxInfra, ci' \in 0..MaxCi, queued' \in Nat, "kind" \in DOMAIN item'
  PROVE  CountTypes'
BY DEF CountTypes

LEMMA NoItemHasKind == NoItem.kind = "none" /\ "kind" \in DOMAIN NoItem
BY DEF NoItem

\* A row is paid for by the parts of the mandate that it uses up.
LEMMA RowIsPaid ==
  ASSUME CountInv, CountTypes', status \notin Ended, Automatic, maxRounds' = maxRounds,
         ReviewDue' - ReviewDue + 2 * (RoundsLeft' - RoundsLeft)
           + 2 * (RepairLeft' - RepairLeft) + 2 * (SyncsLeft' - SyncsLeft)
           + (infra - infra') + (ci - ci') <= -1
  PROVE  Counts
<1>1. queued' = queued + 1
  BY AutomaticAddsOne
<1>2. CountTypes
  BY DEF CountInv
<1> QED
  BY <1>1, <1>2, PartsAreNat, PartsStayNat, CoordinatorAssumption DEF Counts, Pays, Mandate

(***************************************************************************)
(* The steps that enqueue without a person.                                *)
(***************************************************************************)
\* out of a retry budget
LEMMA RetriesCount ==
  ASSUME CountInv,
         \/ DeveloperRepairsCi
         \/ \E publish \in BOOLEAN : DeveloperRetries(publish)
         \/ \E h : ReviewerRetries(h)
  PROVE  Counts
<1> USE DEF episodeVars, callVars, Completes, Transition, EnqueueFresh
<1>0. CountTypes
  BY DEF CountInv
<1>1. CASE DeveloperRepairsCi
  <2>1. status \notin Ended /\ status' \in Status /\ Automatic
    BY <1>1, NothingLeavesTheEnd DEF DeveloperRepairsCi
  <2>2. "kind" \in DOMAIN item' /\ ReviewDue' = 1 /\ ReviewDue = 1
    BY <1>1, RowHasKind DEF DeveloperRepairsCi, ReviewDue
  <2>3. UNCHANGED <<round, maxRounds, infra, RoundsLeft, RepairLeft, SyncsLeft>>
    BY <1>1 DEF DeveloperRepairsCi, RoundsLeft, RepairLeft, SyncsLeft
  <2>4. ci' = ci + 1 /\ ci' \in 0..MaxCi
    BY <1>0, <1>1, CoordinatorAssumption DEF CountTypes, DeveloperRepairsCi, CiRemains
  <2>5. CountTypes'
    BY <1>0, <2>1, <2>2, <2>3, <2>4, AutomaticAddsOne DEF CountTypes
  <2> QED
    BY <1>0, <2>1, <2>2, <2>3, <2>4, <2>5, RowIsPaid, PartsAreNat
<1>2. ASSUME NEW publish \in BOOLEAN, DeveloperRetries(publish)
      PROVE  Counts
  <2>1. status \notin Ended /\ status' \in Status /\ Automatic
    BY <1>2, NothingLeavesTheEnd DEF DeveloperRetries
  <2>2. "kind" \in DOMAIN item' /\ ReviewDue' = 1 /\ ReviewDue = 1
    BY <1>2, RowHasKind DEF DeveloperRetries, ReviewDue
  <2>3. UNCHANGED <<round, maxRounds, ci, RoundsLeft, RepairLeft, SyncsLeft>>
    BY <1>2 DEF DeveloperRetries, RoundsLeft, RepairLeft, SyncsLeft
  <2>4. infra' = infra + 1 /\ infra' \in 0..MaxInfra
    BY <1>0, <1>2, CoordinatorAssumption DEF CountTypes, DeveloperRetries, InfraRemains, Charged
  <2>5. CountTypes'
    BY <1>0, <2>1, <2>2, <2>3, <2>4, AutomaticAddsOne DEF CountTypes
  <2> QED
    BY <1>0, <2>1, <2>2, <2>3, <2>4, <2>5, RowIsPaid, PartsAreNat
<1>3. ASSUME NEW h, ReviewerRetries(h)
      PROVE  Counts
  <2>1. status \notin Ended /\ status' \in Status /\ Automatic
    BY <1>3, NothingLeavesTheEnd DEF ReviewerRetries
  <2>2. "kind" \in DOMAIN item' /\ ReviewDue' = 0 /\ ReviewDue = 0
    BY <1>3, RowHasKind DEF ReviewerRetries, ReviewDue
  <2>3. UNCHANGED <<round, maxRounds, ci, RoundsLeft, RepairLeft, SyncsLeft>>
    BY <1>3 DEF ReviewerRetries, RoundsLeft, RepairLeft, SyncsLeft
  <2>4. infra' = infra + 1 /\ infra' \in 0..MaxInfra
    BY <1>0, <1>3, CoordinatorAssumption DEF CountTypes, ReviewerRetries, InfraRemains, Charged
  <2>5. CountTypes'
    BY <1>0, <2>1, <2>2, <2>3, <2>4, AutomaticAddsOne DEF CountTypes
  <2> QED
    BY <1>0, <2>1, <2>2, <2>3, <2>4, <2>5, RowIsPaid, PartsAreNat
<1> QED
  BY <1>1, <1>2, <1>3

\* the review that follows a developer, and the round that follows a review
LEMMA RoundsCount ==
  ASSUME CountInv, DeveloperHandsOff \/ ReviewerRequestsChanges
  PROVE  Counts
<1> USE DEF episodeVars, callVars, Completes, Transition, EnqueueFresh, EnqueueKeyed
<1>0. CountTypes
  BY DEF CountInv
<1>1. CASE DeveloperHandsOff
  <2>1. status \notin Ended /\ status' \in Status /\ Automatic
    BY <1>1, NothingLeavesTheEnd DEF DeveloperHandsOff
  <2>2. item' = Row("reviewer", remote, FALSE)
    BY <1>1 DEF DeveloperHandsOff, EnqueueReviewer
  <2>3. "kind" \in DOMAIN item' /\ ReviewDue' = 0 /\ ReviewDue = 1
    BY <1>1, <2>2, RowHasKind DEF DeveloperHandsOff, ReviewDue
  <2>4. UNCHANGED <<round, maxRounds, infra, ci, RoundsLeft, RepairLeft, SyncsLeft>>
    BY <1>1 DEF DeveloperHandsOff, RoundsLeft, RepairLeft, SyncsLeft
  <2>5. CountTypes'
    BY <1>0, <2>1, <2>3, <2>4, AutomaticAddsOne DEF CountTypes
  <2> QED
    BY <1>0, <2>1, <2>3, <2>4, <2>5, RowIsPaid, PartsAreNat
<1>2. CASE ReviewerRequestsChanges
  <2>1. status \notin Ended /\ status' \in Status /\ Automatic
    BY <1>2, NothingLeavesTheEnd DEF ReviewerRequestsChanges
  <2>2. "kind" \in DOMAIN item' /\ ReviewDue = 0
    BY <1>2, RowHasKind, NoItemHasKind DEF ReviewerRequestsChanges, ReviewDue
  <2>3. UNCHANGED <<maxRounds, infra, ci, RepairLeft, SyncsLeft>>
    BY <1>2 DEF ReviewerRequestsChanges, RepairLeft, SyncsLeft
  <2>4. round' \in Nat \ {0} /\ RoundsLeft' = RoundsLeft - 1
    BY <1>0, <1>2 DEF CountTypes, ReviewerRequestsChanges, RoundsRemain, RoundsLeft
  <2>5. CountTypes'
    BY <1>0, <2>1, <2>2, <2>3, <2>4, AutomaticAddsOne DEF CountTypes
  <2> QED
    BY <1>0, <2>1, <2>2, <2>3, <2>4, <2>5, RowIsPaid, PartsAreNat, PartsStayNat
<1> QED
  BY <1>1, <1>2

\* the episode's repair round
LEMMA RepairCounts ==
  ASSUME CountInv, QueueConflictRepair, UNCHANGED scan
  PROVE  Counts
<1>0. CountTypes
  BY DEF CountInv
<1>1. status \notin Ended /\ status' \in Status /\ Automatic
  BY NothingLeavesTheEnd DEF QueueConflictRepair, Transition
<1>2. "kind" \in DOMAIN item'
  BY DeveloperRowHasKind DEF QueueConflictRepair
<1>3. RepairLeft' = RepairLeft - 1 /\ UNCHANGED <<maxRounds, infra, ci, SyncsLeft>>
  BY DEF QueueConflictRepair, SpendRepair, RepairLeft, SyncsLeft
<1>4. round' \in Nat \ {0} /\ RoundsLeft' <= RoundsLeft
  <2>1. round \in Nat \ {0} /\ maxRounds \in Nat \ {0} /\ round' = round + 1
    BY <1>0 DEF CountTypes, QueueConflictRepair
  <2> QED
    BY <2>1, <1>3 DEF RoundsLeft
<1>5. queued' \in Nat
  BY <1>0, <1>1, AutomaticAddsOne DEF CountTypes
<1>6. maxRounds' \in Nat \ {0} /\ infra' \in 0..MaxInfra /\ ci' \in 0..MaxCi
  BY <1>0, <1>3 DEF CountTypes
<1>7. CountTypes'
  BY <1>1, <1>2, <1>4, <1>5, <1>6, TypesNext
<1> QED
  BY <1>0, <1>1, <1>3, <1>4, <1>7, RowIsPaid, PartsAreNat, PartsStayNat

LEMMA ConflictsCount ==
  ASSUME CountInv, DeveloperMeetsConflict \/ MergeNeedsRepair \/ ScanRepairs
  PROVE  Counts
BY RepairCounts DEF DeveloperMeetsConflict, MergeNeedsRepair, ScanRepairs, callVars

\* a sync that was pushed: a wait for its checks is queued, unless the issue is
\* busy by now
LEMMA ScanQueuesCounts ==
  ASSUME CountInv, ScanQueues, ScanOpen /\ ~(item.kind = "developer" /\ ~item.publish)
  PROVE  Counts
<1> USE DEF ScanQueues
<1>0. CountTypes
  BY DEF CountInv
<1>1. status \notin Ended /\ status' \in Status /\ Automatic
  BY NothingLeavesTheEnd DEF Transition
<1>2. "kind" \in DOMAIN item'
  BY DeveloperRowHasKind
<1>3. UNCHANGED <<round, maxRounds, infra, ci, conflictSpent, syncSpent>>
  BY DEF episodeVars
<1>4. SyncsLeft' = SyncsLeft - 1 /\ UNCHANGED <<RoundsLeft, RepairLeft>>
  BY <1>3 DEF SyncsLeft, RoundsLeft, RepairLeft
<1>5. queued' \in Nat
  BY <1>0, <1>1, AutomaticAddsOne DEF CountTypes
<1>6. /\ round' \in Nat \ {0} /\ maxRounds' \in Nat \ {0}
      /\ infra' \in 0..MaxInfra /\ ci' \in 0..MaxCi
  BY <1>0, <1>3 DEF CountTypes
<1>7. CountTypes'
  BY <1>1, <1>2, <1>5, <1>6, TypesNext
<1> QED
  BY <1>0, <1>1, <1>3, <1>4, <1>7, RowIsPaid, PartsAreNat, PartsStayNat

(***************************************************************************)
(* The steps that enqueue nothing.                                         *)
(***************************************************************************)
\* Nothing is enqueued, and nothing given back.
Rests ==
  /\ UNCHANGED <<round, maxRounds, ci, queued>>
  /\ infra' \in 0..MaxInfra /\ infra' >= infra
  /\ "kind" \in DOMAIN item' /\ ReviewDue' <= ReviewDue
  /\ RepairLeft' <= RepairLeft /\ SyncsLeft' <= SyncsLeft
  /\ status' \in Status /\ (status' = status \/ status \notin Ended)

LEMMA RestsCount ==
  ASSUME CountInv, Rests
  PROVE  Counts
<1>0. CountTypes
  BY DEF CountInv
<1>1. UNCHANGED <<maxRounds, RoundsLeft, ci, queued>>
  BY DEF Rests, RoundsLeft
<1>2. CountTypes'
  BY <1>0 DEF CountTypes, Rests
<1>3. CASE status' \in Ended
  BY <1>1, <1>2, <1>3 DEF Counts, IsOver
<1>4. CASE status' \notin Ended
  <2>1. queued' + Mandate' <= queued + Mandate
    BY <1>0, <1>1, <1>2, PartsAreNat, PartsStayNat, CoordinatorAssumption DEF Mandate, Rests
  <2> QED
    BY <1>1, <1>2, <1>4, <2>1 DEF Counts, Pays, Rests
<1> QED
  BY <1>3, <1>4

LEMMA Unmoved ==
  ASSUME CountInv, UNCHANGED <<round, maxRounds, ci, infra, queued, conflictSpent, syncSpent>>,
         item' = item \/ item' = NoItem,
         scan' = scan \/ scan' = "idle",
         status' = status \/ status' \in Transitions[status]
  PROVE  Rests
<1>0. CountTypes
  BY DEF CountInv
<1>1. RepairLeft' <= RepairLeft
  BY DEF RepairLeft
<1>2. SyncsLeft' <= SyncsLeft
  BY DEF SyncsLeft
<1>3. "kind" \in DOMAIN item' /\ ReviewDue' <= ReviewDue
  BY <1>0, NoItemHasKind DEF CountTypes, ReviewDue
<1>4. status' \in Status /\ (status' = status \/ status \notin Ended)
  BY <1>0, NothingLeavesTheEnd DEF CountTypes
<1>5. infra' \in 0..MaxInfra /\ infra' >= infra
  BY <1>0, CoordinatorAssumption DEF CountTypes
<1> QED
  BY <1>1, <1>2, <1>3, <1>4, <1>5 DEF Rests

LEMMA SyncsRest ==
  ASSUME CountInv, ChecksWaitSync \/ ScanPushes
  PROVE  Rests
<1>0. CountTypes
  BY DEF CountInv
<1>1. UNCHANGED <<round, maxRounds, ci, infra, queued, item, status, conflictSpent>>
  BY DEF ChecksWaitSync, ScanPushes, issueVars, rowVars, historyVars
<1>2. /\ ~syncSpent /\ syncSpent'
      /\ scan' = scan \/ scan = "idle"
  BY DEF ChecksWaitSync, ScanPushes, callVars
<1>3. SyncsLeft' <= SyncsLeft
  BY <1>2 DEF SyncsLeft
<1>4. RepairLeft' <= RepairLeft /\ ReviewDue' <= ReviewDue
  BY <1>1 DEF RepairLeft, ReviewDue
<1>5. infra' \in 0..MaxInfra /\ infra' >= infra
  BY <1>0, <1>1, CoordinatorAssumption DEF CountTypes
<1> QED
  BY <1>0, <1>1, <1>3, <1>4, <1>5 DEF Rests, CountTypes

LEMMA ScanLeavesRests ==
  ASSUME CountInv, ScanQueues,
         ~(ScanOpen /\ ~(item.kind = "developer" /\ ~item.publish))
  PROVE  Rests
<1>1. UNCHANGED <<status, item, queued, round, maxRounds, infra, ci, conflictSpent, syncSpent>>
  BY DEF ScanQueues, rowVars, historyVars, episodeVars
<1>2. scan' = "idle"
  BY DEF ScanQueues
<1> QED
  BY <1>1, <1>2, Unmoved

\* A put-back or a wait keeps the row's kind.
LEMMA RowKeepsKind ==
  ASSUME "kind" \in DOMAIN item,
         \/ Lease \/ PutBack \/ Reclaim
         \/ \E wait \in {"none", "capped"}, publish \in BOOLEAN : DeferWork(wait, publish)
  PROVE  item'.kind = item.kind /\ "kind" \in DOMAIN item'
<1>1. CASE Lease \/ PutBack \/ Reclaim
  BY <1>1 DEF Lease, PutBack, Reclaim
<1>2. ASSUME NEW wait \in {"none", "capped"}, NEW publish \in BOOLEAN, DeferWork(wait, publish)
      PROVE  item'.kind = item.kind /\ "kind" \in DOMAIN item'
  <2>1. item' = [item EXCEPT !.state = "pending", !.wait = wait,
                             !.publish = @ \/ publish]
    BY <1>2, Zenon DEF DeferWork
  <2>2. ASSUME NEW b
        PROVE  LET i == [item EXCEPT !.state = "pending", !.wait = wait, !.publish = b]
               IN  i.kind = item.kind /\ "kind" \in DOMAIN i
    OBVIOUS
  <2> QED
    BY <2>1, <2>2, Zenon
<1> QED
  BY <1>1, <1>2

LEMMA RowsRest ==
  ASSUME CountInv,
         \/ Lease \/ PutBack \/ Reclaim
         \/ \E wait \in {"none", "capped"}, publish \in BOOLEAN : DeferWork(wait, publish)
  PROVE  Rests
<1> USE DEF issueVars, rowVars, callVars, episodeVars, historyVars
<1>0. CountTypes
  BY DEF CountInv
<1>1. UNCHANGED <<round, maxRounds, ci, queued, status, conflictSpent, syncSpent, scan>>
  BY DEF Lease, PutBack, Reclaim, DeferWork
<1>2. infra' = infra \/ (infra < MaxInfra /\ infra' = infra + 1)
  BY DEF Lease, PutBack, Reclaim, DeferWork, InfraRemains, Charged
<1>3. infra' \in 0..MaxInfra /\ infra' >= infra
  BY <1>0, <1>2, CoordinatorAssumption DEF CountTypes
<1>4. "kind" \in DOMAIN item' /\ ReviewDue' <= ReviewDue
  BY <1>0, RowKeepsKind DEF CountTypes, ReviewDue
<1>5. RepairLeft' <= RepairLeft /\ SyncsLeft' <= SyncsLeft
  BY <1>1 DEF RepairLeft, SyncsLeft
<1> QED
  BY <1>0, <1>1, <1>3, <1>4, <1>5 DEF Rests, CountTypes

LEMMA AnswersRest ==
  ASSUME CountInv,
         \/ \E type : DeveloperEscalates(type)
         \/ ReviewerApproves
         \/ \E type, advance : ReviewerAsks(type, advance)
         \/ \E h, role : ReviewerEscalates(h, role)
         \/ ParkCapWait
  PROVE  Rests
<1> USE DEF callVars, episodeVars, historyVars, Completes, Transition, ParkForMerge
<1>1. /\ UNCHANGED <<round, maxRounds, ci, infra, queued, conflictSpent, syncSpent, scan>>
      /\ item' = NoItem
  BY DEF DeveloperEscalates, ReviewerApproves, ReviewerAsks, ReviewerEscalates, ParkCapWait
<1>2. status' \in Transitions[status]
  BY DEF DeveloperEscalates, ReviewerApproves, ReviewerAsks, ReviewerEscalates, ParkCapWait
<1> QED
  BY <1>1, <1>2, Unmoved

LEMMA CallsRest ==
  ASSUME CountInv,
         \/ PushFails \/ FinalizeOrGate \/ PassSkips \/ Crash \/ ListStranded
         \/ GhMerges \/ MergeFails \/ MergeConflicts \/ FinalizeLands
         \/ \E moves \in BOOLEAN : SyncPushes(moves)
  PROVE  Rests
<1> USE DEF issueVars, rowVars, callVars, episodeVars, historyVars
<1>1. UNCHANGED <<round, maxRounds, ci, infra, queued, conflictSpent, syncSpent, item>>
  BY DEF PushFails, FinalizeOrGate, FinalizeStarts, GateParks, PassSkips, Crash,
         ListStranded, GhMerges, MergeFails, MergeConflicts, FinalizeLands, SyncPushes
<1>2. scan' = scan \/ scan' = "idle"
  BY DEF PushFails, FinalizeOrGate, FinalizeStarts, GateParks, PassSkips, Crash,
         ListStranded, GhMerges, MergeFails, MergeConflicts, FinalizeLands, SyncPushes
<1>3. status' = status \/ status' \in Transitions[status]
  BY DEF PushFails, FinalizeOrGate, FinalizeStarts, GateParks, PassSkips, Crash,
         ListStranded, GhMerges, MergeFails, MergeConflicts, FinalizeLands, SyncPushes,
         Transition
<1> QED
  BY <1>1, <1>2, <1>3, Unmoved

LEMMA OutsideRests ==
  ASSUME CountInv,
         \/ ToggleAutoMerge \/ CloseReadyIssue \/ OperatorPushes \/ OperatorMerges
         \/ AgentPushes \/ \E to \in Ended : AbortIssue(to)
  PROVE  Rests
<1> USE DEF issueVars, rowVars, callVars, episodeVars, historyVars, Transition
<1>1. UNCHANGED <<round, maxRounds, ci, infra, queued, conflictSpent, syncSpent, scan>>
  BY DEF ToggleAutoMerge, CloseReadyIssue, OperatorPushes, OperatorMerges, AgentPushes,
         AbortIssue
<1>2. item' = item \/ item' = NoItem
  BY DEF ToggleAutoMerge, CloseReadyIssue, OperatorPushes, OperatorMerges, AgentPushes,
         AbortIssue
<1>3. status' = status \/ status' \in Transitions[status]
  BY DEF ToggleAutoMerge, CloseReadyIssue, OperatorPushes, OperatorMerges, AgentPushes,
         AbortIssue
<1> QED
  BY <1>1, <1>2, <1>3, Unmoved

(***************************************************************************)
(* A person decides.                                                       *)
(***************************************************************************)
LEMMA RenewalCounts ==
  ASSUME CountTypes', status' \notin Ended, queued' \in {0, 1}, queued' + ReviewDue' <= 2
  PROVE  Counts
BY DEF Counts, Renews

LEMMA StartCounts ==
  ASSUME CountInv, StartWorkflow
  PROVE  Counts
<1>0. CountTypes
  BY DEF CountInv
<1>1. status' = "developing" /\ queued' = 1 /\ UNCHANGED <<round, maxRounds, infra, ci>>
  BY DEF StartWorkflow, Transition
<1>2. "kind" \in DOMAIN item'
  BY RowHasKind, NoItemHasKind DEF StartWorkflow, EnqueueKeyed
<1>3. /\ round' \in Nat \ {0} /\ maxRounds' \in Nat \ {0}
      /\ infra' \in 0..MaxInfra /\ ci' \in 0..MaxCi
  BY <1>0, <1>1 DEF CountTypes
<1>4. CountTypes'
  BY <1>1, <1>2, <1>3, TypesNext DEF Status
<1> QED
  BY <1>1, <1>4, RenewalCounts, PartsStayNat

LEMMA PushLandsCounts ==
  ASSUME CountInv, PushLands
  PROVE  Counts
<1>0. CountTypes
  BY DEF CountInv
<1>1. UNCHANGED <<round, maxRounds, infra, ci, scan>>
  BY DEF PushLands
<1>2. CASE "developing" \in Transitions[status] /\ item = NoItem
  <2>1. status' = "developing" /\ queued' = 1
    BY <1>2 DEF PushLands, Transition
  <2>2. "kind" \in DOMAIN item'
    BY <1>2, DeveloperRowHasKind DEF PushLands
  <2>3. /\ round' \in Nat \ {0} /\ maxRounds' \in Nat \ {0}
        /\ infra' \in 0..MaxInfra /\ ci' \in 0..MaxCi
    BY <1>0, <1>1 DEF CountTypes
  <2>4. CountTypes'
    BY <2>1, <2>2, <2>3, TypesNext DEF Status
  <2> QED
    BY <2>1, <2>4, RenewalCounts, PartsStayNat
<1>3. CASE ~("developing" \in Transitions[status] /\ item = NoItem)
  <2>1. UNCHANGED <<status, item, conflictSpent, syncSpent, queued>>
    BY <1>3 DEF PushLands, rowVars, episodeVars
  <2>2. Rests
    BY <1>1, <2>1, Unmoved
  <2> QED
    BY <2>2, RestsCount
<1> QED
  BY <1>2, <1>3

LEMMA ResolveRepairOrRetryCounts ==
  ASSUME CountInv, NEW a \in open, ResolveRepair(a) \/ ResolveRetry(a)
  PROVE  Counts
<1>0. CountTypes
  BY DEF CountInv
<1>1. status' = "repairing" /\ queued' = 1 /\ UNCHANGED <<infra, ci>>
  BY DEF ResolveRepair, ResolveRetry, Transition
<1>2. "kind" \in DOMAIN item'
  BY DeveloperRowHasKind DEF ResolveRepair, ResolveRetry
<1>3. round' = round + 1 /\ maxRounds' \in {maxRounds, maxRounds + 1}
  BY DEF ResolveRepair, ResolveRetry
<1>4. /\ round' \in Nat \ {0} /\ maxRounds' \in Nat \ {0}
      /\ infra' \in 0..MaxInfra /\ ci' \in 0..MaxCi
  BY <1>0, <1>1, <1>3 DEF CountTypes
<1>5. CountTypes'
  BY <1>1, <1>2, <1>4, TypesNext DEF Status
<1> QED
  BY <1>1, <1>5, RenewalCounts, PartsStayNat

LEMMA ResolveResumeCounts ==
  ASSUME CountInv, NEW a \in open, NEW h, ResolveResume(a, h)
  PROVE  Counts
<1>0. CountTypes
  BY DEF CountInv
<1>1. status' \in {"developing", "reviewing"} /\ queued' = 1 /\ maxRounds' = maxRounds
  BY DEF ResolveResume, Transition
<1>2. "kind" \in DOMAIN item'
  <2>1. item' = Row("reviewer", h, FALSE) \/ item' = Row("developer", 0, FALSE)
    BY DEF ResolveResume, EnqueueFresh
  <2> QED
    BY <2>1, RowHasKind
<1>3. /\ infra' \in {infra, 0} /\ ci' \in {ci, 0}
      /\ round' \in {round, round + 1}
  BY DEF ResolveResume
<1>4. /\ round' \in Nat \ {0} /\ maxRounds' \in Nat \ {0}
      /\ infra' \in 0..MaxInfra /\ ci' \in 0..MaxCi
  BY <1>0, <1>1, <1>3, CoordinatorAssumption DEF CountTypes
<1>5. CountTypes'
  BY <1>1, <1>2, <1>4, TypesNext DEF Status
<1> QED
  BY <1>1, <1>5, RenewalCounts, PartsStayNat

LEMMA ResolveMergeCounts ==
  ASSUME CountInv, NEW a \in open, ResolveMerge(a)
  PROVE  Counts
<1>0. CountTypes
  BY DEF CountInv
<1>1. /\ status' = "final_review" /\ queued' = 0
      /\ UNCHANGED <<round, maxRounds, infra, ci, item>>
  BY DEF ResolveMerge, ParkForMerge
<1>2. CountTypes'
  BY <1>0, <1>1 DEF CountTypes, Status
<1> QED
  BY <1>1, <1>2, RenewalCounts, PartsStayNat

LEMMA ResolveCloseCounts ==
  ASSUME CountInv, NEW a \in open, NEW to \in Ended, ResolveClose(a, to)
  PROVE  Counts
<1>0. CountTypes
  BY DEF CountInv
<1>1. status' = to /\ UNCHANGED <<round, maxRounds, infra, ci, item, queued>>
  BY DEF ResolveClose, Transition, historyVars
<1>2. CountTypes'
  BY <1>0, <1>1 DEF CountTypes, Status
<1> QED
  BY <1>1, <1>2 DEF Counts, IsOver

LEMMA PushStartsCounts ==
  ASSUME CountInv, NEW a \in open, PushStarts(a)
  PROVE  Counts
<1>1. UNCHANGED <<round, maxRounds, ci, infra, queued, conflictSpent, syncSpent, item, scan,
                  status>>
  BY DEF PushStarts, issueVars, rowVars, episodeVars
<1> QED
  BY <1>1, Unmoved, RestsCount

LEMMA CountInductive ==
  ASSUME CountInv, [Next]_vars
  PROVE  CountInv'
<1>1. CASE UNCHANGED vars
  BY <1>1 DEF CountInv, CountTypes, AutonomyBounded, AutonomyBound, Mandate, ReviewDue,
              RoundsLeft, RepairLeft, SyncsLeft, vars, issueVars, rowVars, callVars,
              episodeVars, historyVars
<1>2. CASE PushAnswers \/ FinalizeOrGate \/ PassSkips \/ Crash
  <2>1. Counts
    BY <1>2, PushLandsCounts, CallsRest, RestsCount DEF PushAnswers
  <2> QED
    BY <2>1, CountsKeepCountInv
<1>3. CASE ScanQueues
  <2>1. Counts
    BY <1>3, ScanQueuesCounts, ScanLeavesRests, RestsCount
  <2> QED
    BY <2>1, CountsKeepCountInv
<1>4. CASE Routed
  <2>1. Counts
    BY <1>4, RetriesCount, RoundsCount, ConflictsCount, AnswersRest, RestsCount, Zenon
       DEF Routed, DeveloperAnswers, ReviewerAnswers
  <2> QED
    BY <2>1, CountsKeepCountInv
<1>5. CASE WorkSteps /\ ~Routed
  <2>1. Counts
    BY <1>5, StartCounts, SyncsRest, RowsRest, OutsideRests, RestsCount, Zenon DEF WorkSteps
  <2> QED
    BY <2>1, CountsKeepCountInv
<1>6. CASE Decisions
  <2>1. Counts
    BY <1>6, ResolveRepairOrRetryCounts, ResolveResumeCounts, ResolveMergeCounts,
       ResolveCloseCounts, PushStartsCounts, Zenon DEF Decisions
  <2> QED
    BY <2>1, CountsKeepCountInv
<1>7. CASE Background /\ ~ScanQueues
  <2>1. Counts
    BY <1>7, ConflictsCount, SyncsRest, AnswersRest, CallsRest, OutsideRests, RestsCount, Zenon
       DEF Background, Answers
  <2> QED
    BY <2>1, CountsKeepCountInv
<1> QED
  BY <1>1, <1>2, <1>3, <1>4, <1>5, <1>6, <1>7 DEF Next

LEMMA CountInit == Init => CountInv
<1> SUFFICES ASSUME Init PROVE CountInv
  OBVIOUS
<1>1. CountTypes /\ queued = 0
  BY CoordinatorAssumption, NoItemHasKind DEF Init, CountTypes, Status
<1>2. ReviewDue = 0
  BY NoItemHasKind DEF Init, ReviewDue
<1> QED
  BY <1>1, <1>2, PartsAreNat, CoordinatorAssumption
     DEF CountInv, AutonomyBounded, AutonomyBound, Mandate

LEMMA CountInvariance == Spec => []CountInv
BY CountInit, CountInductive, PTL DEF Spec

\* Between two decisions of a person the loop enqueues no more rows than rounds,
\* repair, sync and retry budgets allow, with the lease push and the recovery
\* pass open to every other step.
THEOREM AutonomyIsBounded == Spec => []AutonomyBounded
<1>1. CountInv => AutonomyBounded
  BY DEF CountInv
<1> QED
  BY <1>1, CountInvariance, PTL

\* The retry budgets are never overdrawn, whatever falls into the awaits (Reclaim,
\* retry_developer, checks_failed).
BudgetsAreKept == infra \in 0..MaxInfra /\ ci \in 0..MaxCi

\* BudgetsAreKept holds with the lease push and the recovery pass open.
THEOREM BudgetsAreKeptHolds == Spec => []BudgetsAreKept
<1>1. CountInv => BudgetsAreKept
  BY DEF CountInv, CountTypes, BudgetsAreKept
<1> QED
  BY <1>1, CountInvariance, PTL

(***************************************************************************)
(* With a push or a pass open, an issue may have more than one thing that  *)
(* moves it on; it never has none.                                         *)
(***************************************************************************)
\* An active issue has the row its stage runs, an open question or the merge
\* park: no interleaving leaves it where neither the poll loop, nor a person,
\* nor the tick would pick it up.
NeverStranded ==
  /\ status \in Working =>
       item.kind = (IF status = "reviewing" THEN "reviewer" ELSE "developer")
  /\ status = "needs_human" => open # {}
  /\ status = "final_review" => parked \/ open # {}
  /\ parked => status = "final_review"
  /\ status \in Working \cup Parked <=> instance = "active"

\* nothing has happened to an issue that is ready
Untouched == keys = {} /\ open = {} /\ pushing = NoAction /\ instance = "none"
RoundsReached == \A k \in keys : k[1] = "developer" => k[2] \in 1..round
StrandInv == NeverStranded /\ RoundsReached /\ (status = "ready" => Untouched)

\* What a step does to what moves the issue on
Leaves ==
  /\ UNCHANGED <<status, parked, instance>> /\ item'.kind = item.kind
  /\ open \subseteq open'
  /\ status = "ready" => UNCHANGED <<keys, open>> /\ pushing' \in {pushing, NoAction}
Runs ==
  /\ status' \in Working /\ ~parked' /\ instance' = "active"
  /\ item'.kind = (IF status' = "reviewing" THEN "reviewer" ELSE "developer")
Waits ==
  /\ status' \in Parked /\ instance' = "active"
  /\ (~parked' /\ open' # {}) \/ (parked' /\ status' = "final_review")
Stops == status' \in Ended /\ ~parked' /\ instance' # "active"
KeepsRounds ==
  /\ round' = round \/ round' = round + 1
  /\ \/ keys' = keys
     \/ \E h : keys' = keys \cup {<<"reviewer", round, h>>}
     \/ \E r \in 1..round' : keys' = keys \cup {<<"developer", r, 0>>}
Moves == (Leaves \/ Runs \/ Waits \/ Stops) /\ KeepsRounds

LEMMA KeepsRoundsIsKept ==
  ASSUME CountInv, RoundsReached, KeepsRounds
  PROVE  RoundsReached'
<1>1. 1..round \subseteq 1..round'
  BY DEF CountInv, CountTypes, KeepsRounds
<1>2. ASSUME NEW k \in keys', k[1] = "developer"
      PROVE  k[2] \in 1..round'
  <2>1. CASE k \in keys
    BY <1>1, <1>2, <2>1 DEF RoundsReached
  <2>2. CASE k \notin keys
    <3>1. \/ \E r \in 1..round' : k = <<"developer", r, 0>>
          \/ \E h : k = <<"reviewer", round, h>>
      BY <1>2, <2>2 DEF KeepsRounds
    <3> QED
      BY <1>1, <1>2, <3>1
  <2> QED
    BY <2>1, <2>2
<1> QED
  BY <1>2 DEF RoundsReached

LEMMA MovesKeepStrandInv ==
  ASSUME CountInv, StrandInv, Moves
  PROVE  StrandInv'
<1>1. RoundsReached'
  BY KeepsRoundsIsKept DEF StrandInv, Moves
<1>2. NeverStranded' /\ (status' = "ready" => Untouched')
  <2>1. CASE Leaves
    BY <2>1 DEF StrandInv, NeverStranded, Untouched, Leaves
  <2>2. CASE Runs
    BY <2>2 DEF NeverStranded, Runs
  <2>3. CASE Waits
    BY <2>3 DEF NeverStranded, Waits
  <2>4. CASE Stops
    BY <2>4 DEF NeverStranded, Stops
  <2> QED
    BY <2>1, <2>2, <2>3, <2>4 DEF Moves
<1> QED
  BY <1>1, <1>2 DEF StrandInv

LEMMA NewRowIsKeyed ==
  ASSUME CountInv, RoundsReached
  PROVE  <<"developer", round + 1, 0>> \notin keys
<1>1. round \in Nat /\ round + 1 \notin 1..round
  BY DEF CountInv, CountTypes
<1> QED
  BY <1>1 DEF RoundsReached

LEMMA FreshRuns ==
  ASSUME NEW kind, NEW h, NEW publish, EnqueueFresh(Row(kind, h, publish))
  PROVE  item'.kind = kind /\ keys' = keys
BY RowHasKind DEF EnqueueFresh

LEMMA RoutedRowMoves ==
  ASSUME CountInv, StrandInv,
         \/ DeveloperHandsOff \/ DeveloperRepairsCi
         \/ \E publish \in BOOLEAN : DeveloperRetries(publish)
         \/ \E h : ReviewerRetries(h)
  PROVE  Moves
<1> USE DEF Completes, Transition
<1>1. instance' = "active" /\ ~parked' /\ round' = round
  BY DEF DeveloperHandsOff, DeveloperRepairsCi, DeveloperRetries, ReviewerRetries
<1>2. CASE DeveloperHandsOff
  <2>1. EnqueueReviewer(remote) /\ status' = "reviewing"
    BY <1>2 DEF DeveloperHandsOff
  <2>2. item' = Row("reviewer", remote, FALSE)
    BY <2>1 DEF EnqueueReviewer, EnqueueFresh, EnqueueKeyed
  <2>3. keys' = keys \/ keys' = keys \cup {<<"reviewer", round, remote>>}
    BY <2>1 DEF EnqueueReviewer, EnqueueFresh, EnqueueKeyed
  <2> QED
    BY <1>1, <2>1, <2>2, <2>3, RowHasKind DEF Moves, Runs, KeepsRounds
<1>3. CASE DeveloperRepairsCi \/ \E publish \in BOOLEAN : DeveloperRetries(publish)
  <2>1. /\ \E publish : EnqueueFresh(Row("developer", 0, publish))
        /\ status' \in {"developing", "repairing"}
    BY <1>3 DEF DeveloperRepairsCi, DeveloperRetries, RetryStage
  <2> QED
    BY <1>1, <2>1, FreshRuns DEF Moves, Runs, KeepsRounds
<1>4. CASE \E h : ReviewerRetries(h)
  <2>1. (\E h : EnqueueFresh(Row("reviewer", h, FALSE))) /\ status' = "reviewing"
    BY <1>4 DEF ReviewerRetries
  <2> QED
    BY <1>1, <2>1, FreshRuns DEF Moves, Runs, KeepsRounds
<1> QED
  BY <1>2, <1>3, <1>4

LEMMA NewRoundMoves ==
  ASSUME CountInv, StrandInv,
         StartWorkflow \/ ReviewerRequestsChanges
  PROVE  Moves
<1> USE DEF Transition
<1>1. CASE StartWorkflow
  <2>1. /\ EnqueueKeyed(<<"developer", 1, 0>>, Row("developer", 0, FALSE))
        /\ status' = "developing" /\ ~parked' /\ instance' = "active" /\ round' = round
        /\ keys = {}
    BY <1>1 DEF StartWorkflow, StrandInv, Untouched
  <2>2. item'.kind = "developer" /\ keys' = keys \cup {<<"developer", 1, 0>>}
    BY <2>1, RowHasKind DEF EnqueueKeyed
  <2>3. 1 \in 1..round'
    BY <2>1 DEF CountInv, CountTypes
  <2> QED
    BY <2>1, <2>2, <2>3 DEF Moves, Runs, KeepsRounds
<1>2. CASE ReviewerRequestsChanges
  <2>1. /\ EnqueueKeyed(<<"developer", round + 1, 0>>, Row("developer", 0, FALSE))
        /\ status' = "repairing" /\ ~parked' /\ instance' = "active" /\ round' = round + 1
    BY <1>2 DEF ReviewerRequestsChanges, Completes
  <2>2. item'.kind = "developer" /\ keys' = keys \cup {<<"developer", round', 0>>}
    BY <2>1, RowHasKind, NewRowIsKeyed DEF EnqueueKeyed, StrandInv
  <2>3. round' \in 1..round'
    BY <2>1 DEF CountInv, CountTypes
  <2> QED
    BY <2>1, <2>2, <2>3 DEF Moves, Runs, KeepsRounds
<1> QED
  BY <1>1, <1>2

\* a transaction that enqueues a developer for a stage of its own
DeveloperRuns ==
  /\ \E publish : EnqueueFresh(Row("developer", 0, publish))
  /\ status' \in DeveloperStage /\ ~parked' /\ instance' = "active"
  /\ round' = round \/ round' = round + 1

LEMMA DeveloperRunsMoves ==
  ASSUME DeveloperRuns
  PROVE  Moves
BY FreshRuns DEF DeveloperRuns, Moves, Runs, KeepsRounds

LEMMA ConflictMoves ==
  ASSUME DeveloperMeetsConflict \/ MergeNeedsRepair \/ ScanRepairs
  PROVE  Moves
<1>1. QueueConflictRepair /\ instance = "active"
  BY DEF DeveloperMeetsConflict, MergeNeedsRepair, ScanRepairs, Completes, ScanOpen
<1>2. DeveloperRuns
  BY <1>1 DEF QueueConflictRepair, Transition, DeveloperRuns
<1> QED
  BY <1>2, DeveloperRunsMoves

LEMMA DecisionRuns ==
  ASSUME NEW a \in open,
         \/ ResolveRepair(a) \/ ResolveRetry(a) \/ \E h : ResolveResume(a, h)
  PROVE  Moves
<1> USE DEF Transition, Decides
<1>1. CASE ResolveRepair(a) \/ ResolveRetry(a)
  <2>1. DeveloperRuns
    BY <1>1 DEF ResolveRepair, ResolveRetry, DeveloperRuns
  <2> QED
    BY <2>1, DeveloperRunsMoves
<1>2. ASSUME NEW h, ResolveResume(a, h)
      PROVE  Moves
  <2>1. CASE a.role = "reviewer"
    <3>1. /\ EnqueueFresh(Row("reviewer", h, FALSE))
          /\ status' = "reviewing" /\ ~parked' /\ instance' = "active"
          /\ round' = round \/ round' = round + 1
      BY <1>2, <2>1 DEF ResolveResume
    <3> QED
      BY <3>1, FreshRuns DEF Moves, Runs, KeepsRounds
  <2>2. CASE a.role # "reviewer"
    <3>1. DeveloperRuns
      BY <1>2, <2>2 DEF ResolveResume, DeveloperRuns
    <3> QED
      BY <3>1, DeveloperRunsMoves
  <2> QED
    BY <2>1, <2>2
<1> QED
  BY <1>1, <1>2

\* The push may land on an issue that has left the question it was chosen for.
LEMMA PushLandsMoves ==
  ASSUME CountInv, StrandInv, PushLands
  PROVE  Moves
<1>1. status # "ready"
  BY DEF PushLands, StrandInv, Untouched
<1>2. CASE "developing" \in Transitions[status] /\ item = NoItem
  <2>1. status \notin Ended
    BY <1>2, NothingLeavesTheEnd
  <2>2. instance = "active"
    BY <1>1, <2>1 DEF StrandInv, NeverStranded, CountInv, CountTypes, Status
  <2>3. DeveloperRuns
    BY <1>2, <2>2 DEF PushLands, Transition, DeveloperRuns
  <2> QED
    BY <2>3, DeveloperRunsMoves
<1>3. CASE ~("developing" \in Transitions[status] /\ item = NoItem)
  <2>1. UNCHANGED <<status, parked, instance, item, keys, open, round>>
    BY <1>3 DEF PushLands, rowVars
  <2> QED
    BY <1>1, <2>1 DEF Moves, Leaves, KeepsRounds
<1> QED
  BY <1>2, <1>3

LEMMA ScanQueuesMoves ==
  ASSUME StrandInv, ScanQueues
  PROVE  Moves
<1>1. CASE ScanOpen /\ ~(item.kind = "developer" /\ ~item.publish)
  <2>1. DeveloperRuns
    BY <1>1 DEF ScanQueues, ScanOpen, Transition, DeveloperRuns
  <2> QED
    BY <2>1, DeveloperRunsMoves
<1>2. CASE ~(ScanOpen /\ ~(item.kind = "developer" /\ ~item.publish))
  <2>1. UNCHANGED <<status, parked, instance, item, keys, open, round, pushing>>
    BY <1>2 DEF ScanQueues, rowVars
  <2> QED
    BY <2>1 DEF Moves, Leaves, KeepsRounds
<1> QED
  BY <1>1, <1>2

LEMMA AskingMoves ==
  ASSUME StrandInv,
         \/ \E type : DeveloperEscalates(type)
         \/ \E type, advance : ReviewerAsks(type, advance)
         \/ \E h, role : ReviewerEscalates(h, role)
         \/ ReviewerApproves \/ GateParks \/ ParkCapWait
  PROVE  Moves
<1> USE DEF Completes, Transition, Raise
<1>1. UNCHANGED <<round, keys, instance>> /\ instance = "active"
  BY DEF DeveloperEscalates, ReviewerAsks, ReviewerEscalates, ReviewerApproves, GateParks,
         ParkCapWait, Finalizes
<1>2. CASE ReviewerApproves
  BY <1>1, <1>2 DEF ReviewerApproves, ParkForMerge, Moves, Waits, KeepsRounds
<1>3. CASE ~ReviewerApproves
  <2>1. status' = "needs_human" /\ ~parked' /\ open' # {}
    BY <1>3 DEF DeveloperEscalates, ReviewerAsks, ReviewerEscalates, GateParks, ParkCapWait
  <2> QED
    BY <1>1, <2>1 DEF Moves, Waits, KeepsRounds
<1> QED
  BY <1>2, <1>3

LEMMA MergeFailsMoves ==
  ASSUME StrandInv, MergeFails
  PROVE  Moves
<1>1. UNCHANGED <<round, keys, instance, item, pushing>>
  BY DEF MergeFails
<1>2. CASE status = "final_review"
  <2>1. status' = "needs_human" /\ ~parked' /\ open' # {} /\ instance = "active"
    BY <1>2 DEF MergeFails, Transition, Raise, StrandInv, NeverStranded
  <2> QED
    BY <1>1, <2>1 DEF Moves, Waits, KeepsRounds
<1>3. CASE status # "final_review"
  <2>1. UNCHANGED <<status, parked, open>>
    BY <1>3 DEF MergeFails
  <2> QED
    BY <1>1, <2>1 DEF Moves, Leaves, KeepsRounds
<1> QED
  BY <1>2, <1>3

LEMMA ResolveMergeMoves ==
  ASSUME NEW a \in open, ResolveMerge(a)
  PROVE  Moves
BY DEF ResolveMerge, ParkForMerge, Decides, Moves, Waits, KeepsRounds

LEMMA EndingMoves ==
  ASSUME StrandInv,
         \/ \E a \in open, to \in Ended : ResolveClose(a, to)
         \/ \E to \in Ended : AbortIssue(to)
         \/ CloseReadyIssue
  PROVE  Moves
<1> USE DEF Transition
<1>1. UNCHANGED <<round, keys>>
  BY DEF ResolveClose, AbortIssue, CloseReadyIssue
<1>2. status' \in Ended /\ ~parked' /\ instance' # "active"
  BY DEF ResolveClose, AbortIssue, CloseReadyIssue
<1> QED
  BY <1>1, <1>2 DEF Moves, Stops, KeepsRounds

LEMMA FinalizeLandsMoves ==
  ASSUME StrandInv, FinalizeLands
  PROVE  Moves
<1>1. UNCHANGED <<round, keys, item, pushing>>
  BY DEF FinalizeLands
<1>2. CASE instance = "active" /\ "done" \in Transitions[status]
  BY <1>1, <1>2 DEF FinalizeLands, Transition, Moves, Stops, KeepsRounds
<1>3. CASE ~(instance = "active" /\ "done" \in Transitions[status])
  BY <1>1, <1>3 DEF FinalizeLands, Moves, Leaves, KeepsRounds
<1> QED
  BY <1>2, <1>3

LEMMA LeavingMoves ==
  ASSUME CountInv, StrandInv,
         \/ Lease \/ PutBack \/ Reclaim
         \/ \E wait \in {"none", "capped"}, publish \in BOOLEAN : DeferWork(wait, publish)
         \/ AgentPushes \/ ChecksWaitSync \/ OperatorPushes \/ OperatorMerges
         \/ ToggleAutoMerge \/ ScanPushes
         \/ PushFails \/ ListStranded \/ FinalizeStarts \/ PassSkips \/ Crash
         \/ GhMerges \/ MergeConflicts \/ \E moves \in BOOLEAN : SyncPushes(moves)
         \/ \E a \in open : PushStarts(a)
  PROVE  Moves
<1> USE DEF issueVars, rowVars, callVars
<1>1. UNCHANGED <<status, round, parked, instance, keys, open>>
  BY DEF Lease, PutBack, Reclaim, DeferWork, AgentPushes, ChecksWaitSync, OperatorPushes,
         OperatorMerges, ToggleAutoMerge, ScanPushes, PushFails, ListStranded,
         FinalizeStarts, PassSkips, Crash, GhMerges, MergeConflicts, SyncPushes, PushStarts
<1>2. item'.kind = item.kind
  <2>1. CASE \/ Lease \/ PutBack \/ Reclaim
             \/ \E wait \in {"none", "capped"}, publish \in BOOLEAN : DeferWork(wait, publish)
    BY <2>1, RowKeepsKind DEF CountInv, CountTypes
  <2>2. CASE ~(\/ Lease \/ PutBack \/ Reclaim
               \/ \E wait \in {"none", "capped"}, publish \in BOOLEAN : DeferWork(wait, publish))
    BY <2>2 DEF AgentPushes, ChecksWaitSync, OperatorPushes,
         OperatorMerges, ToggleAutoMerge, ScanPushes, PushFails, ListStranded,
         FinalizeStarts, PassSkips, Crash, GhMerges, MergeConflicts, SyncPushes, PushStarts
  <2> QED
    BY <2>1, <2>2
<1>3. status = "ready" => pushing' \in {pushing, NoAction}
  BY DEF Lease, PutBack, Reclaim, DeferWork, AgentPushes, ChecksWaitSync, OperatorPushes,
         OperatorMerges, ToggleAutoMerge, ScanPushes, PushFails, ListStranded,
         FinalizeStarts, PassSkips, Crash, GhMerges, MergeConflicts, SyncPushes, PushStarts,
         StrandInv, Untouched
<1> QED
  BY <1>1, <1>2, <1>3 DEF Moves, Leaves, KeepsRounds

LEMMA StrandInductive ==
  ASSUME CountInv, StrandInv, [Next]_vars
  PROVE  StrandInv'
<1>1. CASE UNCHANGED vars
  BY <1>1 DEF StrandInv, NeverStranded, RoundsReached, Untouched, vars, issueVars, rowVars,
              callVars
<1>2. CASE PushAnswers \/ FinalizeOrGate \/ PassSkips \/ Crash
  <2>1. Moves
    BY <1>2, PushLandsMoves, LeavingMoves, AskingMoves, Zenon DEF PushAnswers, FinalizeOrGate
  <2> QED
    BY <2>1, MovesKeepStrandInv
<1>3. CASE WorkSteps
  <2>1. Moves
    BY <1>3, RoutedRowMoves, NewRoundMoves, ConflictMoves, AskingMoves, LeavingMoves, Zenon
       DEF WorkSteps, Routed, DeveloperAnswers, ReviewerAnswers
  <2> QED
    BY <2>1, MovesKeepStrandInv
<1>4. CASE Decisions
  <2>1. Moves
    BY <1>4, DecisionRuns, ResolveMergeMoves, EndingMoves, LeavingMoves, Zenon DEF Decisions
  <2> QED
    BY <2>1, MovesKeepStrandInv
<1>5. CASE Background
  <2>1. Moves
    BY <1>5, ConflictMoves, ScanQueuesMoves, AskingMoves, MergeFailsMoves, EndingMoves,
       FinalizeLandsMoves, LeavingMoves, Zenon DEF Background, Answers
  <2> QED
    BY <2>1, MovesKeepStrandInv
<1> QED
  BY <1>1, <1>2, <1>3, <1>4, <1>5 DEF Next

\* NeverStranded holds whatever falls into the awaits, for all budgets: the races
\* of the lease push and the recovery pass add a second effect, they lose none.
THEOREM NeverStrandedHolds == Spec => []NeverStranded
<1>1. Init => StrandInv
  BY DEF Init, StrandInv, NeverStranded, RoundsReached, Untouched
<1>2. CountInv /\ StrandInv /\ [Next]_vars => StrandInv'
  BY StrandInductive
<1>3. StrandInv => NeverStranded
  BY DEF StrandInv
<1> QED
  BY <1>1, <1>2, <1>3, CountInvariance, PTL DEF Spec

(***************************************************************************)
(* How an issue ends.                                                      *)
(***************************************************************************)
\* An issue is done only if its pull request is merged: by the finalizer, whose
\* answer may land after any other step, or by a person whom a close or an abort
\* found to have merged it (Landing).
DoneIsMerged == status = "done" => pr = "merged"

MergedInv == DoneIsMerged /\ (fin = "merged" => pr = "merged")

\* A step that neither ends the issue as done nor reports a merge
QuietEnd ==
  /\ pr = "merged" => pr' = "merged"
  /\ status' = "done" => status = "done"
  /\ fin' = "merged" => fin = "merged"

LEMMA WorkEndsQuietly == ASSUME WorkSteps PROVE QuietEnd
<1> USE DEF QuietEnd, issueVars, ghVars, callVars
<1>1. CASE StartWorkflow \/ Lease \/ PutBack \/ Reclaim \/ AgentPushes \/ ChecksWaitSync
  BY <1>1 DEF StartWorkflow, Lease, PutBack, Reclaim, AgentPushes, ChecksWaitSync, Transition
<1>2. ASSUME NEW wait, NEW publish, DeferWork(wait, publish) PROVE QuietEnd
  BY <1>2 DEF DeferWork
<1>3. CASE DeveloperAnswers
  BY <1>3 DEF DeveloperAnswers, DeveloperHandsOff, DeveloperRepairsCi, DeveloperMeetsConflict,
              DeveloperRetries, DeveloperEscalates, QueueConflictRepair, Transition, RetryStage
<1>4. CASE ReviewerAnswers
  BY <1>4 DEF ReviewerAnswers, ReviewerApproves, ReviewerRequestsChanges, ReviewerAsks,
              ReviewerRetries, ReviewerEscalates, Transition, ParkForMerge
<1> QED
  BY <1>1, <1>2, <1>3, <1>4, Zenon DEF WorkSteps, Routed

LEMMA MergedInductive == MergedInv /\ [Next]_vars => MergedInv'
<1> SUFFICES ASSUME MergedInv, [Next]_vars PROVE MergedInv'
  OBVIOUS
<1> USE DEF MergedInv, DoneIsMerged, issueVars, ghVars, callVars
<1>0. ASSUME QuietEnd PROVE MergedInv'
  BY <1>0 DEF QuietEnd
<1>1. CASE PushAnswers \/ FinalizeOrGate \/ PassSkips \/ Crash
  BY <1>1 DEF PushAnswers, PushLands, PushFails, FinalizeOrGate, FinalizeStarts, GateParks,
              PassSkips, Crash, Transition
<1>2. CASE WorkSteps
  BY <1>0, <1>2, WorkEndsQuietly
<1>3. ASSUME NEW a \in open, NEW to \in Ended, ResolveClose(a, to) PROVE MergedInv'
  BY <1>3 DEF ResolveClose, Landing, Transition
<1>4. ASSUME NEW a \in open,
             \/ ResolveRepair(a) \/ ResolveRetry(a) \/ ResolveMerge(a) \/ PushStarts(a)
             \/ \E h \in {a.head, remote} : ResolveResume(a, h)
      PROVE  MergedInv'
  BY <1>4 DEF ResolveRepair, ResolveRetry, ResolveMerge, PushStarts, ResolveResume,
              Transition, ParkForMerge
<1>5. CASE Answers \/ FinalizeLands
  BY <1>5 DEF Answers, GhMerges, MergeFails, MergeConflicts, SyncPushes, MergeNeedsRepair,
              QueueConflictRepair, FinalizeLands, Transition
<1>6. CASE ListStranded \/ ScanPushes \/ ScanQueues \/ ScanRepairs
  BY <1>6 DEF ListStranded, ScanPushes, ScanQueues, ScanRepairs, QueueConflictRepair,
              Transition
<1>7. CASE ParkCapWait \/ ToggleAutoMerge \/ CloseReadyIssue \/ OperatorPushes
           \/ OperatorMerges
  BY <1>7 DEF ParkCapWait, ToggleAutoMerge, CloseReadyIssue, OperatorPushes,
              OperatorMerges, Transition
<1>8. ASSUME NEW to \in Ended, AbortIssue(to) PROVE MergedInv'
  BY <1>8 DEF AbortIssue, Landing, Transition
<1>9. CASE UNCHANGED vars
  BY <1>9 DEF vars
<1> QED
  BY <1>1, <1>2, <1>3, <1>4, <1>5, <1>6, <1>7, <1>8, <1>9, Zenon
     DEF Next, Decisions, Background

\* DoneIsMerged holds whatever falls into the awaits.
THEOREM DoneIsMergedHolds == Spec => []DoneIsMerged
<1>1. Init => MergedInv
  BY DEF Init, MergedInv, DoneIsMerged
<1>2. MergedInv => DoneIsMerged
  BY DEF MergedInv
<1> QED
  BY <1>1, <1>2, MergedInductive, PTL DEF Spec

\* An issue that has ended is left alone: the answer of a merge, a sync or a scan
\* that was in flight, and whatever comes later, change neither its status nor a
\* row, a question, a budget or a record of it.
EndedIsLeftAlone ==
  [][(status \in Ended) => UNCHANGED <<issueVars, rowVars, verified, historyVars>>]_vars

\* EndedIsLeftAlone holds with both windows shut.
THEOREM EndedIsLeftAloneHolds == Windows = {} => (Spec => EndedIsLeftAlone)
<1> SUFFICES ASSUME Windows = {} PROVE Spec => EndedIsLeftAlone
  OBVIOUS
<1> DEFINE Alone == status \in Ended =>
                      UNCHANGED <<issueVars, rowVars, verified, historyVars>>
<1>1. IInv /\ [Next]_vars => [Alone]_vars
  <2> SUFFICES ASSUME IInv, Next, status \in Ended
               PROVE  UNCHANGED <<issueVars, rowVars, verified, historyVars>>
    OBVIOUS
  <2>1. /\ instance # "active" /\ item = NoItem /\ open = {} /\ ~parked
        /\ ~listed /\ pushing = NoAction /\ Transitions[status] = {}
    BY DEF IInv, NextEffectOK, ExactlyOneNextEffect, RestIsQuiet, TypeOK, CallsOK,
           Transitions, Status
  <2>2. item.state = "none" /\ item.kind = "none"
    BY <2>1 DEF NoItem
  <2>3. ~WorkSteps
    BY <2>1, <2>2 DEF WorkSteps, StartWorkflow, Lease, PutBack, Reclaim, DeferWork,
         AgentPushes, ChecksWaitSync, Routed, DeveloperAnswers, ReviewerAnswers,
         DeveloperHandsOff, DeveloperRepairsCi, DeveloperMeetsConflict, DeveloperRetries,
         DeveloperEscalates, ReviewerApproves, ReviewerRequestsChanges, ReviewerAsks,
         ReviewerRetries, ReviewerEscalates, Completes
  <2>4. ~Decisions
    BY <2>1 DEF Decisions
  <2>5. ~PushAnswers /\ ~FinalizeOrGate
    BY <2>1 DEF PushAnswers, PushLands, PushFails, FinalizeOrGate, FinalizeStarts,
                GateParks, Finalizes
  <2>6. CASE PassSkips \/ Crash \/ ListStranded \/ OperatorPushes \/ OperatorMerges
    BY <2>6 DEF PassSkips, Crash, ListStranded, OperatorPushes, OperatorMerges
  <2>7. CASE Answers \/ FinalizeLands
    BY <2>1, <2>7 DEF Answers, GhMerges, MergeFails, MergeConflicts, SyncPushes,
                      MergeNeedsRepair, FinalizeLands, issueVars, rowVars, historyVars
  <2>8. CASE ScanPushes \/ ScanQueues \/ ScanRepairs
    BY <2>1, <2>8 DEF ScanPushes, ScanQueues, ScanRepairs, ScanOpen, issueVars, rowVars,
                      historyVars
  <2>9. ~ParkCapWait /\ ~ToggleAutoMerge /\ ~CloseReadyIssue
        /\ \A to \in Ended : ~AbortIssue(to)
    BY <2>1, <2>2 DEF ParkCapWait, ToggleAutoMerge, CloseReadyIssue, AbortIssue, Transition
  <2> QED
    BY <2>3, <2>4, <2>5, <2>6, <2>7, <2>8, <2>9, Zenon DEF Next, Background
<1> QED
  BY <1>1, Invariance, PTL DEF Spec, EndedIsLeftAlone

\* The two claims of commands.ts and auto-merge.ts that lease_push and stale_list
\* refute hold when nothing falls into those awaits: a push is answered for an
\* open question, and only a park, or what ended while gh was asked, is merged.
THEOREM ClaimsHoldUndisturbed ==
  Windows = {} => (Spec => []WorkHasNoOpenAction /\ OnlyParkedIsMerged)
<1> SUFFICES ASSUME Windows = {} PROVE Spec => []WorkHasNoOpenAction /\ OnlyParkedIsMerged
  OBVIOUS
<1> DEFINE FromPark == pr = "open" /\ fin = "merging" /\ fin' = "merged" =>
                         parked \/ status \in Ended
<1>1. IInv => WorkHasNoOpenAction
  BY DEF IInv, NextEffectOK, ExactlyOneNextEffect, WorkHasItsItem, WorkHasNoOpenAction
<1>2. IInv => FromPark
  BY DEF IInv, CallsOK
<1> HIDE DEF FromPark
<1>3. Spec => [][FromPark]_vars
  BY <1>2, Invariance, PTL
<1>4. [][FromPark]_vars => OnlyParkedIsMerged
  BY DEF FromPark, OnlyParkedIsMerged
<1> QED
  BY <1>1, <1>3, <1>4, Invariance, PTL
=============================================================================
