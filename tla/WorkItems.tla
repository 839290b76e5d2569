------------------------------ MODULE WorkItems ------------------------------
(***************************************************************************)
(* The durable outbox: packages/server/src/repository/work-items.ts.       *)
(* One row per work item, changed only by single-statement compare-and-set *)
(* updates.  Every operator below is one of those updates, as an action on *)
(* the row variables; the worker loop and the recovery pass (WorkerLoop)   *)
(* compose them with their own state.                                      *)
(*                                                                         *)
(* Time is abstracted to what a row comparison can see:                    *)
(*   i \in expired   <=>   lease_expires_at < now                          *)
(*   i \in gated     <=>   available_at > now                              *)
(***************************************************************************)
EXTENDS Naturals, FiniteSets

CONSTANTS
  Item,          \* work items, identified by their idempotency key
  Instance,      \* workflow instances
  InstanceOf,    \* [Item -> Instance]
  Token,         \* lease tokens; each claim mints a fresh one
  NoToken,       \* lease_token IS NULL
  MaxAttempts    \* max_attempts (3 by default in the code)

ASSUME WorkItemsAssumption ==
  /\ IsFiniteSet(Item)
  /\ InstanceOf \in [Item -> Instance]
  /\ NoToken \notin Token
  /\ MaxAttempts \in Nat \ {0}

VARIABLES
  status,        \* [Item -> Status]; "absent" = no row yet
  attemptCount,  \* attempt_count
  leaseToken,    \* lease_token
  expired,       \* leased rows whose lease_expires_at has passed
  gated,         \* pending rows still behind available_at
  born           \* created_at, as a rank (0 = no row yet)

rowVars == <<status, attemptCount, leaseToken, expired, gated, born>>

Status == {"absent", "pending", "leased", "done", "dead", "cancelled"}
Terminal == {"done", "dead", "cancelled"}
Active == {"pending", "leased"}
TokenOrNone == Token \cup {NoToken}

RowsTypeOK ==
  /\ status \in [Item -> Status]
  /\ attemptCount \in [Item -> Nat]
  /\ leaseToken \in [Item -> TokenOrNone]
  /\ expired \subseteq Item
  /\ gated \subseteq Item
  /\ born \in [Item -> Nat]

RowsInit ==
  /\ status = [i \in Item |-> "absent"]
  /\ attemptCount = [i \in Item |-> 0]
  /\ leaseToken = [i \in Item |-> NoToken]
  /\ expired = {}
  /\ gated = {}
  /\ born = [i \in Item |-> 0]

ItemsOf(n) == {i \in Item : InstanceOf[i] = n}

\* WHERE status = 'leased' AND lease_token = @token
HoldsWithoutToken(i, t) == status[i] = "leased"
Holds(i, t) == status[i] = "leased" /\ leaseToken[i] = t

\* attempt_count = MAX(0, attempt_count - 1), taken when @revert = 1
NoRefund(n) == n
Refunded(n) == IF n > 0 THEN n - 1 ELSE 0

AttemptCapReached(i) == attemptCount[i] >= MaxAttempts

\* created_at of a row inserted now: later than every existing row
NextRank == Cardinality({j \in Item : status[j] # "absent"}) + 1

\* The one-active-item-per-instance partial unique index
\* (idx_work_items_one_active), seen by an insert of j in the transaction that
\* has just made the items of `closing` terminal.
InsertAllowed(j, closing) ==
  /\ status[j] = "absent"
  /\ \A k \in ItemsOf(InstanceOf[j]) \ closing : status[k] \notin Active

Insert(j) ==
  /\ status' = [status EXCEPT ![j] = "pending"]
  /\ born' = [born EXCEPT ![j] = NextRank]
  /\ UNCHANGED <<attemptCount, leaseToken, expired, gated>>

\* enqueueWorkItem: an insert for a key that already has a row changes nothing.
EnqueueWorkItem(j) == InsertAllowed(j, {}) /\ Insert(j)

Claimable(i) == status[i] = "pending" /\ i \notin gated
Oldest(i) == \A j \in Item : Claimable(j) => born[i] <= born[j]

ClaimWorkItem(i, t) ==
  /\ Claimable(i)
  /\ Oldest(i)
  /\ status' = [status EXCEPT ![i] = "leased"]
  /\ leaseToken' = [leaseToken EXCEPT ![i] = t]
  /\ attemptCount' = [attemptCount EXCEPT ![i] = @ + 1]
  /\ expired' = expired \ {i}
  /\ UNCHANGED <<gated, born>>

RefreshHeartbeat(i, t) ==
  /\ Holds(i, t)
  /\ expired' = expired \ {i}
  /\ UNCHANGED <<status, attemptCount, leaseToken, gated, born>>

\* finishWorkItem, and in the same transaction the inserts routing makes:
\* `next` is empty or one new item of the same instance.
FinishWorkItem(i, t, outcome, next) ==
  /\ Holds(i, t)
  /\ \A j \in next : InsertAllowed(j, {i})
  /\ status' = [k \in Item |-> IF k = i THEN outcome
                               ELSE IF k \in next THEN "pending" ELSE status[k]]
  /\ born' = [k \in Item |-> IF k \in next THEN NextRank ELSE born[k]]
  /\ leaseToken' = [leaseToken EXCEPT ![i] = NoToken]
  /\ expired' = expired \ {i}
  /\ UNCHANGED <<attemptCount, gated>>

\* requeueWorkItem without a refund: the failure is charged to the attempts.
RequeueCharged(i, t) ==
  /\ Holds(i, t)
  /\ status' = [status EXCEPT ![i] = "pending"]
  /\ leaseToken' = [leaseToken EXCEPT ![i] = NoToken]
  /\ expired' = expired \ {i}
  /\ gated' = gated \cup {i}
  /\ UNCHANGED <<attemptCount, born>>

\* deferWorkItem, and requeueWorkItem with revertAttemptCount: the same update
\* with the claim-time bump undone.
RequeueRefunded(i, t) ==
  /\ Holds(i, t)
  /\ status' = [status EXCEPT ![i] = "pending"]
  /\ leaseToken' = [leaseToken EXCEPT ![i] = NoToken]
  /\ attemptCount' = [attemptCount EXCEPT ![i] = Refunded(@)]
  /\ expired' = expired \ {i}
  /\ gated' = gated \cup {i}
  /\ UNCHANGED born

\* cancelWorkItem on a set of rows: deliberately not fenced on the token.
CancellableAnyRow(i) == status[i] # "absent"
Cancellable(i) == status[i] \in Active

CancelWorkItems(S) ==
  LET hit == {i \in S : Cancellable(i)} IN
  /\ status' = [k \in Item |-> IF k \in hit THEN "cancelled" ELSE status[k]]
  /\ leaseToken' = [k \in Item |-> IF k \in hit THEN NoToken ELSE leaseToken[k]]
  /\ expired' = expired \ hit
  /\ UNCHANGED <<attemptCount, gated, born>>

\* The passing of time: a lease that nobody renewed, a backoff gate.
LeaseExpires(i) ==
  /\ status[i] = "leased"
  /\ i \notin expired
  /\ expired' = expired \cup {i}
  /\ UNCHANGED <<status, attemptCount, leaseToken, gated, born>>

BackoffElapses(i) ==
  /\ i \in gated
  /\ gated' = gated \ {i}
  /\ UNCHANGED <<status, attemptCount, leaseToken, expired, born>>

\* listExpiredLeases
ExpiredLeases == {i \in expired : status[i] = "leased"}
==============================================================================
