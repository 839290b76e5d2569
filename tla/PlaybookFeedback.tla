--------------------------- MODULE PlaybookFeedback ---------------------------
(***************************************************************************)
(* coordinator/playbook-feedback.ts under coordinator/reflect-trigger.ts:  *)
(* what an issue that has ended owes to Agent Deck.  A reflection pass     *)
(* collects a receipt of the playbooks each finished session used and then *)
(* sends one report per human correction, exhaustion of attempts and       *)
(* recurring finding.  Deck keeps every report it receives; Dealer keeps   *)
(* an intent row before the call and a sent row after the answer.          *)
(*                                                                         *)
(* Passes overlap: two callers of one finalizeAutoMerge start one each, and *)
(* the probe at the end of a session collects beside them.  A pass runs     *)
(* without interruption between its awaits.  No human action is resolved   *)
(* after the issue ended, so what is owed is fixed from the start.         *)
(***************************************************************************)
EXTENDS Integers, FiniteSets

CONSTANTS
  FbSession,    \* worker sessions of the issue
  FbAction,     \* its human actions
  Exhausted,    \* those of type attempts_exhausted
  NoHuman,     \* the action of a report about findings
  NoSession,    \* what a pass that is not collecting waits for
  MaxPasses     \* bound on the reflection passes

ASSUME FeedbackAssumption ==
  /\ Exhausted \subseteq FbAction /\ NoHuman \notin FbAction
  /\ NoSession \notin FbSession
  /\ MaxPasses \in Nat \ {0}

VARIABLES
  choice,     \* [FbAction -> absent, "corrected" or otherwise settled]
  recurring,  \* a blocking finding recurred
  profile,    \* [FbSession -> "bare", "deck" or "correlated"]
  finished,   \* sessions in a terminal status
  receipt,    \* [FbSession -> the latest receipt row]
  flights,    \* collections awaiting Deck
  reflection, \* [Reflection -> where the pass stands]
  intents,    \* source keys with a pending row
  sentRows,   \* [SourceKey -> sent rows]
  inbox,      \* [SourceKey -> reports Deck holds]
  unanswered, \* [SourceKey -> those whose answer never reached Dealer]
  overlapped  \* two passes were at their reports at once

fbVars == <<choice, recurring, profile, finished, receipt, flights, reflection,
            intents, sentRows, inbox, unanswered, overlapped>>

Reflection == 1..MaxPasses
SourceKey ==
  [trigger : {"human_retry"}, action : FbAction]
    \cup [trigger : {"attempts_exhausted"}, action : Exhausted]
    \cup [trigger : {"recurring_blocking"}, action : {NoHuman}]

\* a pass: the sessions still to collect and the one awaited, the reports
\* still to send, the one Deck has been given, whether it has it
Pass == [at : {"idle", "collecting", "waiting", "health", "sending", "done",
               "dead"},
         todo : SUBSET FbSession, awaits : FbSession \cup {NoSession},
         left : SUBSET SourceKey, current : SUBSET SourceKey,
         stored : BOOLEAN, failed : BOOLEAN,
         outcome : {"none", "nothing", "completed", "failed", "skipped"}]

\* nobody waits for the probe's own collection
Probe == 0

FbTypeOK ==
  /\ choice \in [FbAction -> {"absent", "corrected", "settled"}]
  /\ recurring \in BOOLEAN
  /\ profile \in [FbSession -> {"bare", "deck", "correlated"}]
  /\ finished \in SUBSET FbSession
  /\ receipt \in [FbSession -> {"none", "skipped", "error", "empty", "used"}]
  /\ flights \in SUBSET [session : FbSession, by : Reflection \cup {Probe}]
  /\ reflection \in [Reflection -> Pass]
  /\ intents \in SUBSET SourceKey
  /\ sentRows \in [SourceKey -> Nat]
  /\ inbox \in [SourceKey -> Nat]
  /\ unanswered \in [SourceKey -> Nat]
  /\ overlapped \in BOOLEAN

IdlePass == [at |-> "idle", todo |-> {}, awaits |-> NoSession, left |-> {},
             current |-> {}, stored |-> FALSE, failed |-> FALSE,
             outcome |-> "none"]

FbInit ==
  /\ choice \in [FbAction -> {"absent", "corrected", "settled"}]
  /\ recurring \in BOOLEAN
  /\ profile \in [FbSession -> {"bare", "deck", "correlated"}]
  /\ finished = {}
  /\ receipt = [s \in FbSession |-> "none"]
  /\ flights = {}
  /\ reflection = [p \in Reflection |-> IdlePass]
  /\ intents = {}
  /\ sentRows = [k \in SourceKey |-> 0]
  /\ inbox = [k \in SourceKey |-> 0]
  /\ unanswered = [k \in SourceKey |-> 0]
  /\ overlapped = FALSE

-----------------------------------------------------------------------------
(* Receipts *)

\* Mutated: no single flight.
FlightIgnored(s) == FALSE

\* collectPlaybookUseReceipt: one collection per session at a time
InFlight(s) == \E f \in flights : f.session = s

\* a non-empty receipt is final; a session with nothing to correlate gets a
\* fresh "skipped" row; anything else asks Deck
Frozen(s) == receipt[s] = "used"
Correlates(s) == profile[s] = "correlated"

\* worker-loop.ts, safeCompleteSession: the session ends and is probed
EndSession(s) ==
  /\ s \notin finished
  /\ finished' = finished \cup {s}
  /\ IF Correlates(s)
       THEN /\ flights' = flights \cup {[session |-> s, by |-> Probe]}
            /\ UNCHANGED receipt
       ELSE receipt' = [receipt EXCEPT ![s] = "skipped"] /\ UNCHANGED flights
  /\ UNCHANGED <<choice, recurring, profile, reflection, intents, sentRows,
                 inbox, unanswered, overlapped>>

\* a session recovery ends is not probed
ReconcileSession(s) ==
  /\ s \notin finished
  /\ finished' = finished \cup {s}
  /\ UNCHANGED <<choice, recurring, profile, receipt, flights, reflection,
                 intents, sentRows, inbox, unanswered, overlapped>>

\* triggerIssueReflect: the sessions are listed once
Reflect(p) ==
  /\ reflection[p].at = "idle"
  /\ \A q \in Reflection : q < p => reflection[q].at # "idle"
  /\ reflection' = [reflection EXCEPT ![p] =
       [@ EXCEPT !.at = "collecting", !.todo = finished]]
  /\ UNCHANGED <<choice, recurring, profile, finished, receipt, flights,
                 intents, sentRows, inbox, unanswered, overlapped>>

\* The collection of the next session, which joins one in flight.  Without
\* a call to Deck it is over at once.
CollectNext(p) ==
  /\ reflection[p].at = "collecting"
  /\ \E s \in reflection[p].todo :
       \/ /\ InFlight(s) \/ (~Frozen(s) /\ Correlates(s))
          /\ flights' = IF InFlight(s) THEN flights
                        ELSE flights \cup {[session |-> s, by |-> p]}
          /\ reflection' = [reflection EXCEPT ![p] =
               [@ EXCEPT !.at = "waiting", !.awaits = s]]
          /\ UNCHANGED receipt
       \/ /\ ~InFlight(s) /\ (Frozen(s) \/ ~Correlates(s))
          /\ receipt' = IF Frozen(s) THEN receipt
                        ELSE [receipt EXCEPT ![s] = "skipped"]
          /\ reflection' = [reflection EXCEPT ![p].todo = @ \ {s}]
          /\ UNCHANGED flights
  /\ UNCHANGED <<choice, recurring, profile, finished, intents, sentRows,
                 inbox, unanswered, overlapped>>

\* Deck answers, does not answer in time or answers nonsense ("error"); it
\* may not have ingested the use yet ("empty").  Everybody waiting goes on.
Collected(f) ==
  /\ f \in flights
  /\ \E r \in {"error", "empty", "used"} :
       receipt' = [receipt EXCEPT ![f.session] = r]
  /\ flights' = flights \ {f}
  /\ reflection' = [p \in Reflection |->
       IF reflection[p].awaits = f.session
         THEN [reflection[p] EXCEPT !.at = "collecting", !.awaits = NoSession,
                                    !.todo = @ \ {f.session}]
         ELSE reflection[p]]
  /\ UNCHANGED <<choice, recurring, profile, finished, intents, sentRows,
                 inbox, unanswered, overlapped>>

-----------------------------------------------------------------------------
(* Reports *)

\* Mutated: the sent rows are not read.
NothingSent == {}

\* Mutated: an intent counts as a report.
IntentsCount == {k \in SourceKey : sentRows[k] > 0 \/ k \in intents}

SentKeys == {k \in SourceKey : sentRows[k] > 0}

\* existingSignalKeys: only a sent row claims its action
ClaimedActions == {k.action : k \in SentKeys} \ {NoHuman}

HumanRetries == {[trigger |-> "human_retry", action |-> a] :
                   a \in {b \in FbAction : choice[b] = "corrected"}}
Exhaustions == {[trigger |-> "attempts_exhausted", action |-> a] :
                  a \in {b \in Exhausted : choice[b] # "absent"}}
RecurringReport == IF recurring
  THEN {[trigger |-> "recurring_blocking", action |-> NoHuman]} ELSE {}

Candidates ==
  {k \in HumanRetries \cup Exhaustions \cup RecurringReport :
     k.action \notin ClaimedActions /\ k \notin SentKeys}

HasDeck == \E s \in FbSession : profile[s] # "bare"

Reporting(p) == reflection[p].at \in {"health", "sending"}

\* the sessions are done: read what is owed, and ask whether Deck is there
BeginReports(p) ==
  /\ reflection[p].at = "collecting" /\ reflection[p].todo = {}
  /\ reflection' = [reflection EXCEPT ![p] =
       IF Candidates = {} THEN [@ EXCEPT !.at = "done", !.outcome = "nothing"]
       ELSE IF ~HasDeck THEN [@ EXCEPT !.at = "done", !.outcome = "skipped"]
       ELSE [@ EXCEPT !.at = "health", !.left = Candidates]]
  /\ overlapped' = (overlapped \/ (/\ Candidates # {} /\ HasDeck
                                   /\ \E q \in Reflection : Reporting(q)))
  /\ UNCHANGED <<choice, recurring, profile, finished, receipt, flights,
                 intents, sentRows, inbox, unanswered>>

DeckOffline(p) ==
  /\ reflection[p].at = "health"
  /\ reflection' = [reflection EXCEPT ![p] =
       [@ EXCEPT !.at = "done", !.outcome = "failed"]]
  /\ UNCHANGED <<choice, recurring, profile, finished, receipt, flights,
                 intents, sentRows, inbox, unanswered, overlapped>>

\* the order in which the candidates are put together
Rank == [human_retry |-> 1, attempts_exhausted |-> 2, recurring_blocking |-> 3]
FirstOf(keys) ==
  {k \in keys : \A l \in keys : Rank[k.trigger] <= Rank[l.trigger]}

\* The loop goes on to its next report, writing the intent before the call,
\* or ends with a status row; bad: a report of this pass has failed
NextReport(p, bad) ==
  LET here == [reflection[p] EXCEPT !.left = @ \ reflection[p].current,
                                    !.current = {}, !.stored = FALSE,
                                    !.failed = bad] IN
  IF here.left = {}
    THEN /\ reflection' = [reflection EXCEPT ![p] =
              [here EXCEPT !.at = "done",
                           !.outcome = IF bad THEN "failed" ELSE "completed"]]
         /\ UNCHANGED intents
    ELSE \E k \in FirstOf(here.left) :
           /\ reflection' = [reflection EXCEPT ![p] =
                [here EXCEPT !.at = "sending", !.current = {k}]]
           /\ intents' = intents \cup {k}

DeckHealthy(p) ==
  /\ reflection[p].at = "health"
  /\ NextReport(p, FALSE)
  /\ UNCHANGED <<choice, recurring, profile, finished, receipt, flights,
                 sentRows, inbox, unanswered, overlapped>>

\* Deck files the report; it does not know the key
DeckStores(p) ==
  /\ reflection[p].at = "sending" /\ ~reflection[p].stored
  /\ inbox' = [k \in SourceKey |->
       IF k \in reflection[p].current THEN inbox[k] + 1 ELSE inbox[k]]
  /\ reflection' = [reflection EXCEPT ![p].stored = TRUE]
  /\ UNCHANGED <<choice, recurring, profile, finished, receipt, flights,
                 intents, sentRows, unanswered, overlapped>>

ReportAccepted(p) ==
  /\ reflection[p].at = "sending" /\ reflection[p].stored
  /\ sentRows' = [k \in SourceKey |->
       IF k \in reflection[p].current THEN sentRows[k] + 1 ELSE sentRows[k]]
  /\ NextReport(p, reflection[p].failed)
  /\ UNCHANGED <<choice, recurring, profile, finished, receipt, flights,
                 inbox, unanswered, overlapped>>

\* what Deck holds and Dealer will never hear of when these passes stop here
Lost(passes) == [k \in SourceKey |-> unanswered[k] + Cardinality({p \in passes :
  k \in reflection[p].current /\ reflection[p].stored})]

\* refused, or the 15 seconds are over, whether Deck has the report or not
ReportFails(p) ==
  /\ reflection[p].at = "sending"
  /\ unanswered' = Lost({p})
  /\ NextReport(p, TRUE)
  /\ UNCHANGED <<choice, recurring, profile, finished, receipt, flights,
                 sentRows, inbox, overlapped>>

\* the server dies: the rows stay
FbCrash ==
  /\ \E p \in Reflection : reflection[p].at \notin {"idle", "done", "dead"}
  /\ unanswered' = Lost(Reflection)
  /\ reflection' = [p \in Reflection |->
       IF reflection[p].at \in {"idle", "done", "dead"} THEN reflection[p]
       ELSE [IdlePass EXCEPT !.at = "dead"]]
  /\ flights' = {}
  /\ UNCHANGED <<choice, recurring, profile, finished, receipt, intents,
                 sentRows, inbox, overlapped>>

FbNext ==
  \/ \E s \in FbSession : EndSession(s) \/ ReconcileSession(s)
  \/ \E f \in flights : Collected(f)
  \/ \E p \in Reflection :
       \/ Reflect(p) \/ CollectNext(p) \/ BeginReports(p)
       \/ DeckOffline(p) \/ DeckHealthy(p) \/ DeckStores(p)
       \/ ReportAccepted(p) \/ ReportFails(p)
  \/ FbCrash

FbSpec == FbInit /\ [][FbNext]_fbVars

-----------------------------------------------------------------------------
(* Properties *)

\* playbook-feedback.ts: a receipt that names playbooks is never superseded,
\* although the probe and any number of passes collect for one session and
\* an answer given before Deck had ingested the use may arrive late.
UseIsNotForgotten ==
  [][\A s \in FbSession : receipt[s] = "used" => receipt'[s] = "used"]_fbVars

\* reportDeckFailureSignals: passes that do not overlap file one report of a
\* key, and one more for each whose answer was lost to a crash or a timeout.
OneReportPerKey ==
  ~overlapped => \A k \in SourceKey : inbox[k] <= 1 + unanswered[k]

\* A pass that ends "completed", or with nothing to send, leaves a sent row
\* for every correction, every exhaustion and the recurring findings,
\* whatever earlier passes left behind when they were cut short.
NothingIsDropped ==
  \A p \in Reflection : reflection[p].outcome \in {"nothing", "completed"} =>
    /\ \A k \in HumanRetries \cup Exhaustions :
         \E l \in SourceKey : l.action = k.action /\ sentRows[l] > 0
    /\ \A k \in RecurringReport : sentRows[k] > 0
=============================================================================
