----------------------------- MODULE IssueProofs ------------------------------
(***************************************************************************)
(* One issue from the files it starts with to the feedback it leaves: the  *)
(* theorems of SourceAttachments and PlaybookFeedback, for any sets of     *)
(* blobs, sessions and actions and any number of reloads and passes, and   *)
(* those of the sum that MCIssue explores.                                 *)
(***************************************************************************)
EXTENDS MCIssue, CoordinatorProofs, DeveloperEffectProofs, FiniteSetTheorems

-----------------------------------------------------------------------------
(* Source attachments.  A workflow that is not parked runs on the rows, so  *)
(* a refused reload, which spares the rows it read, spares the snapshot.    *)

RunsOnItsRows == stage = "working" => frozenRows = liveRows

SrcInv == SrcTypeOK /\ RunsOnItsRows /\ InputsAreWhole

LEMMA SrcInitInv == SrcInit => SrcInv
<1> SUFFICES ASSUME SrcInit PROVE SrcInv
  OBVIOUS
<1>1. reload \in [SrcReload -> [at : {"idle", "fetching", "staging", "over"},
                               prev : SUBSET SrcBlob, next : SUBSET SrcBlob]]
  BY DEF SrcInit, NotAsked
<1>2. SrcTypeOK
  BY <1>1 DEF SrcInit, SrcTypeOK
<1>3. liveRows \subseteq Whole
  BY DEF SrcInit, Whole
<1>4. QED
  BY <1>2, <1>3 DEF SrcInit, SrcInv, RunsOnItsRows, InputsAreWhole, InstanceActive

\* A blob that was whole and is not pruned is whole after any store.
LEMMA StoredStaysWhole ==
  ASSUME NEW put, NEW out, NEW b \in Whole, b \notin out
  PROVE  /\ Stored(put)[b] = "whole"
         /\ Pruned(Stored(put), out)[b] = "whole"
  BY DEF Whole, Stored, Pruned

LEMMA DirectoryType ==
  ASSUME NEW put, NEW out,
         blobFile \in [SrcBlob -> {"absent", "whole", "torn"}]
  PROVE  /\ Stored(put) \in [SrcBlob -> {"absent", "whole", "torn"}]
         /\ Pruned(Stored(put), out) \in [SrcBlob -> {"absent", "whole", "torn"}]
  BY DEF Stored, Pruned

LEMMA CommitInv ==
  ASSUME SrcInv, NEW r \in SrcReload, ReloadCommits(r)
  PROVE  SrcInv'
<1> DEFINE n == reload[r].next
           out == reload[r].prev \ StillListed(n)
<1>1. n \in SUBSET SrcBlob
  BY DEF SrcInv, SrcTypeOK
<1>2. blobFile' = Pruned(Stored(n \ Torn), out) /\ liveRows' = n
  BY DEF ReloadCommits
<1>3. SrcTypeOK'
  BY <1>1, DirectoryType DEF ReloadCommits, SrcInv, SrcTypeOK, Refused, NotAsked
<1>4. stage \in {"ready", "parked"} /\ stage' = stage /\ frozenRows' = frozenRows
      /\ undercut' = undercut
  BY DEF ReloadCommits, ReloadAllowed
<1>5. ASSUME NEW b \in n PROVE blobFile'[b] = "whole"
  <2>1. b \in n \ Torn /\ b \notin out
    BY DEF ReloadCommits, InTheWay, StillListed
  <2>2. QED
    BY <1>1, <1>2, <2>1 DEF Pruned, Stored
<1>6. ASSUME ~undercut, InstanceActive, NEW b \in frozenRows
      PROVE  blobFile'[b] = "whole"
  <2>1. b \in Whole /\ b \notin out
    BY <1>6 DEF SrcInv, InputsAreWhole, StillListed
  <2>2. QED
    BY <1>2, <2>1, StoredStaysWhole
<1>7. InputsAreWhole'
  BY <1>1, <1>2, <1>3, <1>4, <1>5, <1>6
     DEF InputsAreWhole, Whole, InstanceActive, SrcTypeOK
<1>8. QED
  BY <1>3, <1>4, <1>7 DEF SrcInv, RunsOnItsRows

LEMMA ConflictInv ==
  ASSUME SrcInv, NEW r \in SrcReload, ReloadConflicts(r)
  PROVE  SrcInv'
<1> DEFINE n == reload[r].next
           out == n \ reload[r].prev
<1>1. blobFile' = Pruned(Stored(n), out)
  BY DEF ReloadConflicts
<1>2. /\ stage' = stage /\ liveRows' = liveRows /\ frozenRows' = frozenRows
      /\ stage \notin {"ready", "parked"}
  BY DEF ReloadConflicts, ReloadAllowed
<1>3. SrcTypeOK'
  BY DirectoryType DEF ReloadConflicts, SrcInv, SrcTypeOK, Refused, NotAsked
<1>4. ~undercut' => ~undercut /\ reload[r].prev = liveRows
  BY DEF ReloadConflicts, SrcInv, SrcTypeOK
<1>5. ASSUME ~undercut', NEW b \in liveRows PROVE blobFile'[b] = "whole"
  <2>1. b \in Whole /\ b \notin out
    BY <1>4, <1>5 DEF SrcInv, InputsAreWhole
  <2>2. QED
    BY <1>1, <2>1, StoredStaysWhole
<1>6. InstanceActive => frozenRows = liveRows
  BY <1>2 DEF InstanceActive, SrcInv, RunsOnItsRows
<1>7. InputsAreWhole'
  BY <1>2, <1>3, <1>5, <1>6 DEF InputsAreWhole, Whole, InstanceActive, SrcTypeOK
<1>8. QED
  BY <1>2, <1>3, <1>7 DEF SrcInv, RunsOnItsRows

LEMMA StoreFailsInv ==
  ASSUME SrcInv, NEW r \in SrcReload, StoreFails(r)
  PROVE  SrcInv'
<1>1. PICK put : blobFile' = Stored(put)
  BY DEF StoreFails
<1>2. UNCHANGED <<stage, liveRows, frozenRows, undercut>>
  BY DEF StoreFails
<1>3. SrcTypeOK'
  BY <1>1, <1>2, DirectoryType
     DEF StoreFails, SrcInv, SrcTypeOK, Refused, NotAsked
<1>4. Whole \subseteq Whole'
  BY <1>1 DEF Whole, Stored
<1>5. QED
  BY <1>2, <1>3, <1>4 DEF SrcInv, RunsOnItsRows, InputsAreWhole, InstanceActive

\* A crash may leave the rows of a reload that had committed.
LEMMA SrcCrashInv ==
  ASSUME SrcInv, SrcCrash
  PROVE  SrcInv'
<1>1. UNCHANGED <<stage, frozenRows, undercut>>
  BY DEF SrcCrash
<1>2. reload' \in [SrcReload -> [at : {"idle", "fetching", "staging", "over"},
                                prev : SUBSET SrcBlob, next : SUBSET SrcBlob]]
  BY DEF SrcCrash, NotAsked, Refused
<1>3. CASE UNCHANGED <<liveRows, blobFile>>
  BY <1>1, <1>2, <1>3 DEF SrcInv, SrcTypeOK, RunsOnItsRows, InputsAreWhole,
                          InstanceActive, Whole
<1>4. CASE \E r \in SrcReload :
             \E b \in reload[r].next \ (Whole \cup Torn),
                put \in SUBSET (reload[r].next \ Torn) :
               blobFile' = [Stored(put) EXCEPT ![b] = "torn"] /\ UNCHANGED liveRows
  <2>1. PICK b, put : /\ b \notin Whole
                      /\ blobFile' = [Stored(put) EXCEPT ![b] = "torn"]
                      /\ UNCHANGED liveRows
    BY <1>4
  <2>2. blobFile' \in [SrcBlob -> {"absent", "whole", "torn"}]
    BY <2>1, DirectoryType DEF SrcInv, SrcTypeOK
  <2>3. Whole \subseteq Whole'
    BY <2>1 DEF Whole, Stored
  <2>4. QED
    BY <1>1, <1>2, <2>1, <2>2, <2>3
       DEF SrcInv, SrcTypeOK, RunsOnItsRows, InputsAreWhole, InstanceActive
<1>5. CASE \E r \in SrcReload :
             /\ InTheWay(reload[r].next) = {}
             /\ blobFile' = Stored(reload[r].next)
             /\ liveRows' \in {liveRows} \cup (IF ReloadAllowed THEN {reload[r].next} ELSE {})
  <2>1. PICK r \in SrcReload :
             /\ InTheWay(reload[r].next) = {}
             /\ blobFile' = Stored(reload[r].next)
             /\ \/ liveRows' = liveRows
                \/ ReloadAllowed /\ liveRows' = reload[r].next
    BY <1>5
  <2>2. reload[r].next \in SUBSET SrcBlob
    BY DEF SrcInv, SrcTypeOK
  <2>3. SrcTypeOK'
    BY <1>1, <1>2, <2>1, <2>2, DirectoryType DEF SrcInv, SrcTypeOK
  <2>4. Whole \subseteq Whole' /\ reload[r].next \subseteq Whole'
    BY <2>1, <2>2 DEF Whole, Stored
  <2>5. QED
    BY <1>1, <2>1, <2>3, <2>4
       DEF SrcInv, RunsOnItsRows, InputsAreWhole, InstanceActive, ReloadAllowed
<1>6. QED
  BY <1>3, <1>4, <1>5 DEF SrcCrash

LEMMA SrcNextInv == SrcInv /\ [SrcNext]_srcVars => SrcInv'
<1> SUFFICES ASSUME SrcInv, [SrcNext]_srcVars PROVE SrcInv'
  OBVIOUS
<1> USE DEF SrcInv, SrcTypeOK, RunsOnItsRows, InputsAreWhole, InstanceActive
<1>1. CASE FreezeAtStart
  BY <1>1 DEF FreezeAtStart, Whole
<1>2. CASE ParkInScope
  BY <1>2 DEF ParkInScope, Whole
<1>3. CASE ResumeRefrozen
  BY <1>3 DEF ResumeRefrozen, Whole
<1>4. CASE EndOfWorkflow
  BY <1>4 DEF EndOfWorkflow, Whole
<1>5. CASE DeleteWithBlobs
  BY <1>5 DEF DeleteWithBlobs, Whole
<1>6. CASE SrcCrash
  BY <1>6, SrcCrashInv
<1>7. ASSUME NEW r \in SrcReload, AskReload(r) \/ TicketArrives(r) \/ ReloadGivesUp(r)
      PROVE  SrcInv'
  <2>1. UNCHANGED <<stage, liveRows, frozenRows, blobFile, undercut>>
    BY <1>7 DEF AskReload, TicketArrives, ReloadGivesUp
  <2>2. reload' \in [SrcReload -> [at : {"idle", "fetching", "staging", "over"},
                                  prev : SUBSET SrcBlob, next : SUBSET SrcBlob]]
    BY <1>7 DEF AskReload, TicketArrives, ReloadGivesUp, Refused, NotAsked
  <2>3. QED
    BY <2>1, <2>2 DEF Whole
<1>8. ASSUME NEW r \in SrcReload, StoreFails(r) PROVE SrcInv'
  BY <1>8, StoreFailsInv
<1>9. ASSUME NEW r \in SrcReload, ReloadCommits(r) PROVE SrcInv'
  BY <1>9, CommitInv
<1>10. ASSUME NEW r \in SrcReload, ReloadConflicts(r) PROVE SrcInv'
  BY <1>10, ConflictInv
<1>11. CASE UNCHANGED srcVars
  BY <1>11 DEF srcVars, Whole
<1>12. QED
  BY <1>1, <1>2, <1>3, <1>4, <1>5, <1>6, <1>7, <1>8, <1>9, <1>10, <1>11 DEF SrcNext

\* source-reload.ts and commands.ts: what a workflow has frozen and what the
\* next one would freeze is there byte for byte, through any reloads and
\* crashes, until a reload is refused that had read other rows.
THEOREM InputsStayWhole == SrcSpec => []InputsAreWhole
<1>1. SrcInv => InputsAreWhole
  BY DEF SrcInv
<1>2. QED
  BY <1>1, SrcInitInv, SrcNextInv, PTL DEF SrcSpec

-----------------------------------------------------------------------------
(* Playbook feedback: shape *)

\* A pass has a report at Deck only while it sends, one of those still left.
SendsWhatIsLeft ==
  \A p \in Reflection :
    /\ reflection[p].current \subseteq reflection[p].left
    /\ reflection[p].at # "sending" => reflection[p].current = {}
    /\ reflection[p].at # "waiting" => reflection[p].awaits = NoSession

FbShape == FbTypeOK /\ SendsWhatIsLeft

\* The rest of the loop: the report at Deck is off the list, and either all
\* are or another one of them is at Deck.
LEMMA NextReportDoes ==
  ASSUME FbShape, NEW p \in Reflection, NEW bad \in BOOLEAN, NextReport(p, bad)
  PROVE  /\ intents' \in SUBSET SourceKey
         /\ \E pass \in Pass :
              /\ reflection' = [reflection EXCEPT ![p] = pass]
              /\ pass.left = reflection[p].left \ reflection[p].current
              /\ pass.todo = reflection[p].todo /\ pass.awaits = reflection[p].awaits
              /\ pass.failed = bad /\ pass.stored = FALSE
              /\ \/ /\ pass.at = "done" /\ pass.left = {} /\ pass.current = {}
                    /\ pass.outcome = IF bad THEN "failed" ELSE "completed"
                 \/ /\ pass.at = "sending" /\ pass.current \subseteq pass.left
                    /\ pass.outcome = reflection[p].outcome
<1> DEFINE here == [reflection[p] EXCEPT !.left = @ \ reflection[p].current,
                                         !.current = {}, !.stored = FALSE,
                                         !.failed = bad]
           ended == [here EXCEPT !.at = "done",
                                 !.outcome = IF bad THEN "failed" ELSE "completed"]
           sends(k) == [here EXCEPT !.at = "sending", !.current = {k}]
<1>0. reflection[p] \in Pass /\ reflection[p].left \in SUBSET SourceKey
  BY DEF FbShape, FbTypeOK, Pass
<1>1. here \in Pass
  BY <1>0 DEF Pass
<1>2. CASE here.left = {}
  <2>1. ended \in Pass
    BY <1>1 DEF Pass
  <2>2. reflection' = [reflection EXCEPT ![p] = ended] /\ UNCHANGED intents
    BY <1>2 DEF NextReport
  <2>3. /\ ended.left = reflection[p].left \ reflection[p].current
        /\ ended.todo = reflection[p].todo /\ ended.awaits = reflection[p].awaits
        /\ ended.failed = bad /\ ended.stored = FALSE
        /\ ended.at = "done" /\ ended.left = {} /\ ended.current = {}
        /\ ended.outcome = IF bad THEN "failed" ELSE "completed"
    BY <1>0, <1>2 DEF Pass
  <2>4. intents' \in SUBSET SourceKey
    BY <2>2 DEF FbShape, FbTypeOK
  <2> HIDE DEF ended
  <2>5. QED
    BY <2>1, <2>2, <2>3, <2>4
<1>3. CASE here.left # {}
  <2>1. PICK k \in here.left : /\ reflection' = [reflection EXCEPT ![p] = sends(k)]
                               /\ intents' = intents \cup {k}
    BY <1>3 DEF NextReport, FirstOf
  <2>2. k \in SourceKey
    BY <1>1 DEF Pass
  <2>3. sends(k) \in Pass
    BY <1>1, <2>2 DEF Pass
  <2>4. /\ sends(k).left = reflection[p].left \ reflection[p].current
        /\ sends(k).todo = reflection[p].todo
        /\ sends(k).awaits = reflection[p].awaits
        /\ sends(k).failed = bad /\ sends(k).stored = FALSE
        /\ sends(k).at = "sending" /\ sends(k).current \subseteq sends(k).left
        /\ sends(k).outcome = reflection[p].outcome
    BY <1>0, <2>1 DEF Pass
  <2>5. intents' \in SUBSET SourceKey
    BY <2>1, <2>2 DEF FbShape, FbTypeOK
  <2> HIDE DEF sends
  <2>6. QED
    BY <2>1, <2>3, <2>4, <2>5
<1>4. QED
  BY <1>2, <1>3

LEMMA LostType ==
  ASSUME FbShape, NEW passes \in SUBSET Reflection
  PROVE  /\ Lost(passes) \in [SourceKey -> Nat]
         /\ \A k \in SourceKey : Lost(passes)[k] >= unanswered[k]
         /\ \A k \in SourceKey :
              (\E p \in passes : k \in reflection[p].current /\ reflection[p].stored)
                => Lost(passes)[k] >= unanswered[k] + 1
<1>1. IsFiniteSet(Reflection)
  BY FS_Interval, FeedbackAssumption DEF Reflection
<1>2. ASSUME NEW k \in SourceKey
      PROVE  LET holders == {p \in passes : k \in reflection[p].current
                                             /\ reflection[p].stored}
             IN  /\ Cardinality(holders) \in Nat
                 /\ holders # {} => Cardinality(holders) >= 1
  <2> DEFINE holders == {p \in passes : k \in reflection[p].current
                                         /\ reflection[p].stored}
  <2>1. IsFiniteSet(holders)
    BY <1>1, FS_Subset
  <2>2. Cardinality(holders) \in Nat /\ (Cardinality(holders) = 0 <=> holders = {})
    BY <2>1, FS_CardinalityType, FS_EmptySet
  <2>3. QED
    BY <2>2
<1>3. unanswered \in [SourceKey -> Nat]
  BY DEF FbShape, FbTypeOK
<1>4. QED
  BY <1>2, <1>3 DEF Lost

LEMMA PassType ==
  ASSUME FbShape, NEW p \in Reflection
  PROVE  /\ reflection[p] \in Pass
         /\ reflection[p].left \in SUBSET SourceKey
         /\ reflection[p].current \in SUBSET SourceKey
         /\ reflection[p].todo \in SUBSET FbSession
         /\ reflection[p].failed \in BOOLEAN /\ reflection[p].stored \in BOOLEAN
  BY DEF FbShape, FbTypeOK, Pass

LEMMA CandidatesType == Candidates \subseteq SourceKey
  BY FeedbackAssumption DEF Candidates, HumanRetries, Exhaustions, RecurringReport, SourceKey

LEMMA FbInitShape == FbInit => FbShape
<1>1. IdlePass \in Pass
  BY DEF IdlePass, Pass
<1> SUFFICES ASSUME FbInit PROVE FbShape
  OBVIOUS
<1>2. reflection \in [Reflection -> Pass]
  BY <1>1 DEF FbInit
<1>3. SendsWhatIsLeft
  BY DEF FbInit, SendsWhatIsLeft, IdlePass
<1>4. QED
  BY <1>2, <1>3 DEF FbInit, FbShape, FbTypeOK

\* A step of one pass outside its report loop.
LEMMA QuietPassShape ==
  ASSUME FbShape, NEW p \in Reflection, NEW pass \in Pass,
         reflection' = [reflection EXCEPT ![p] = pass],
         pass.current = {} \/ (/\ pass.at = "sending" /\ pass.current \subseteq pass.left),
         pass.at # "waiting" => pass.awaits = NoSession
  PROVE  reflection' \in [Reflection -> Pass] /\ SendsWhatIsLeft'
  BY DEF FbShape, FbTypeOK, SendsWhatIsLeft

LEMMA FbNextShape == FbShape /\ [FbNext]_fbVars => FbShape'
<1> SUFFICES ASSUME FbShape, [FbNext]_fbVars PROVE FbShape'
  OBVIOUS
<1>1. ASSUME NEW s \in FbSession, EndSession(s) PROVE FbShape'
  BY <1>1 DEF EndSession, FbShape, FbTypeOK, SendsWhatIsLeft, Probe
<1>2. ASSUME NEW s \in FbSession, ReconcileSession(s) PROVE FbShape'
  BY <1>2 DEF ReconcileSession, FbShape, FbTypeOK, SendsWhatIsLeft
<1>3. ASSUME NEW f \in flights, Collected(f) PROVE FbShape'
  <2>1. f.session \in FbSession
    BY DEF FbShape, FbTypeOK
  <2>2. ASSUME NEW p \in Reflection
        PROVE  /\ reflection'[p] \in Pass
               /\ reflection'[p] = reflection[p]
                  \/ (reflection'[p].current = {} /\ reflection'[p].awaits = NoSession
                      /\ reflection'[p].at = "collecting")
    <3>1. CASE reflection[p].awaits = f.session
      <4>1. reflection'[p] = [reflection[p] EXCEPT
              !.at = "collecting", !.awaits = NoSession, !.todo = @ \ {f.session}]
        BY <1>3, <3>1 DEF Collected
      <4>2. reflection[p].current = {}
        BY <2>1, <3>1, FeedbackAssumption DEF FbShape, SendsWhatIsLeft
      <4>3. reflection[p].todo \ {f.session} \subseteq FbSession
        BY PassType DEF Pass
      <4>4. reflection'[p] \in Pass
        BY <4>1, <4>3, PassType DEF Pass
      <4>5. /\ reflection'[p].current = {} /\ reflection'[p].awaits = NoSession
            /\ reflection'[p].at = "collecting"
        BY <4>1, <4>2, PassType DEF Pass
      <4>6. QED
        BY <4>4, <4>5
    <3>2. CASE reflection[p].awaits # f.session
      BY <1>3, <3>2, PassType DEF Collected
    <3>3. QED
      BY <3>1, <3>2
  <2>3. reflection' \in [Reflection -> Pass] /\ SendsWhatIsLeft'
    BY <1>3, <2>2 DEF Collected, FbShape, SendsWhatIsLeft
  <2>4. receipt' \in [FbSession -> {"none", "skipped", "error", "empty", "used"}]
    BY <1>3, <2>1 DEF Collected, FbShape, FbTypeOK
  <2>5. QED
    BY <1>3, <2>3, <2>4 DEF Collected, FbShape, FbTypeOK
<1>4. ASSUME NEW p \in Reflection, Reflect(p) PROVE FbShape'
  <2> DEFINE pass == [reflection[p] EXCEPT !.at = "collecting", !.todo = finished]
  <2>1. pass \in Pass /\ pass.current = {} /\ pass.awaits = NoSession
    <3>1. reflection[p].current = {} /\ reflection[p].awaits = NoSession
          /\ finished \subseteq FbSession
      BY <1>4 DEF Reflect, FbShape, FbTypeOK, SendsWhatIsLeft
    <3>2. pass \in Pass
      BY <3>1, PassType DEF Pass
    <3> QED
      BY <3>1, <3>2, PassType DEF Pass
  <2>2. reflection' = [reflection EXCEPT ![p] = pass]
    BY <1>4 DEF Reflect
  <2> HIDE DEF pass
  <2>3. reflection' \in [Reflection -> Pass] /\ SendsWhatIsLeft'
    BY <2>1, <2>2, QuietPassShape
  <2>4. QED
    BY <1>4, <2>3 DEF Reflect, FbShape, FbTypeOK
<1>5. ASSUME NEW p \in Reflection, CollectNext(p) PROVE FbShape'
  <2> DEFINE waits(s) == [reflection[p] EXCEPT !.at = "waiting", !.awaits = s]
             goesOn(s) == [reflection[p] EXCEPT !.todo = @ \ {s}]
  <2>1. PICK s \in reflection[p].todo :
          \/ /\ reflection' = [reflection EXCEPT ![p] = waits(s)]
             /\ flights' \in {flights, flights \cup {[session |-> s, by |-> p]}}
             /\ UNCHANGED receipt
          \/ /\ reflection' = [reflection EXCEPT ![p] = goesOn(s)]
             /\ receipt' \in {receipt, [receipt EXCEPT ![s] = "skipped"]}
             /\ UNCHANGED flights
    <3>1. PICK s \in reflection[p].todo :
            \/ /\ InFlight(s) \/ (~Frozen(s) /\ Correlates(s))
               /\ flights' = IF InFlight(s) THEN flights
                              ELSE flights \cup {[session |-> s, by |-> p]}
               /\ reflection' = [reflection EXCEPT ![p] =
                    [reflection[p] EXCEPT !.at = "waiting", !.awaits = s]]
               /\ UNCHANGED receipt
            \/ /\ ~InFlight(s) /\ (Frozen(s) \/ ~Correlates(s))
               /\ receipt' = IF Frozen(s) THEN receipt
                              ELSE [receipt EXCEPT ![s] = "skipped"]
               /\ reflection' = [reflection EXCEPT ![p].todo = @ \ {s}]
               /\ UNCHANGED flights
      BY <1>5, Zenon DEF CollectNext
    <3>2. [reflection EXCEPT ![p].todo = @ \ {s}] = [reflection EXCEPT ![p] = goesOn(s)]
      BY SMT
    <3>3. [reflection EXCEPT ![p] = [reflection[p] EXCEPT !.at = "waiting", !.awaits = s]]
            = [reflection EXCEPT ![p] = waits(s)]
      OBVIOUS
    <3> HIDE DEF waits, goesOn
    <3>4. QED
      BY <3>1, <3>2, <3>3
  <2>2. s \in FbSession
    BY PassType
  <2>3. /\ waits(s) \in Pass /\ waits(s).current = {} /\ waits(s).at = "waiting"
        /\ goesOn(s) \in Pass /\ goesOn(s).current = {}
        /\ goesOn(s).awaits = NoSession
    BY <1>5, <2>2, PassType DEF CollectNext, Pass, FbShape, SendsWhatIsLeft
  <2> HIDE DEF waits, goesOn
  <2>4. reflection' \in [Reflection -> Pass] /\ SendsWhatIsLeft'
    BY <2>1, <2>3, QuietPassShape
  <2>5. /\ receipt' \in [FbSession -> {"none", "skipped", "error", "empty", "used"}]
        /\ flights' \in SUBSET [session : FbSession, by : Reflection \cup {Probe}]
    BY <2>1, <2>2 DEF FbShape, FbTypeOK
  <2>6. QED
    BY <1>5, <2>4, <2>5 DEF CollectNext, FbShape, FbTypeOK
<1>6. ASSUME NEW p \in Reflection, BeginReports(p) \/ DeckOffline(p) \/ DeckStores(p)
      PROVE  FbShape'
  <2>1. PICK pass \in Pass :
          /\ reflection' = [reflection EXCEPT ![p] = pass]
          /\ \/ pass.current = {}
             \/ pass.at = "sending" /\ pass.current \subseteq pass.left
          /\ pass.at # "waiting" => pass.awaits = NoSession
    <3> DEFINE ended(o) == [reflection[p] EXCEPT !.at = "done", !.outcome = o]
               asks == [reflection[p] EXCEPT !.at = "health", !.left = Candidates]
               stores == [reflection[p] EXCEPT !.stored = TRUE]
               Fits(pass) == /\ pass \in Pass /\ pass.awaits = NoSession
                             /\ \/ pass.current = {}
                                \/ pass.at = "sending" /\ pass.current \subseteq pass.left
    <3>1. CASE BeginReports(p)
      <4>1. reflection[p].current = {} /\ reflection[p].awaits = NoSession
        BY <3>1 DEF BeginReports, FbShape, SendsWhatIsLeft
      <4>2. Fits(ended("nothing")) /\ Fits(ended("skipped")) /\ Fits(asks)
        BY <4>1, PassType, CandidatesType DEF Pass
      <4> HIDE DEF ended, asks, Fits
      <4>3. \E pass \in {ended("nothing"), ended("skipped"), asks} :
              reflection' = [reflection EXCEPT ![p] = pass]
        BY <3>1 DEF BeginReports, ended, asks
      <4>4. QED
        BY <4>2, <4>3 DEF Fits
    <3>2. CASE DeckOffline(p)
      <4>1. reflection[p].current = {} /\ reflection[p].awaits = NoSession
        BY <3>2 DEF DeckOffline, FbShape, SendsWhatIsLeft
      <4>2. Fits(ended("failed"))
        BY <4>1, PassType DEF Pass
      <4>3. reflection' = [reflection EXCEPT ![p] = ended("failed")]
        BY <3>2 DEF DeckOffline
      <4> HIDE DEF ended
      <4>4. QED
        BY <4>2, <4>3
    <3>3. CASE DeckStores(p)
      <4>1. /\ reflection[p].at = "sending" /\ reflection[p].awaits = NoSession
            /\ reflection[p].current \subseteq reflection[p].left
        BY <3>3 DEF DeckStores, FbShape, SendsWhatIsLeft
      <4>2. Fits(stores)
        BY <4>1, PassType DEF Pass
      <4>3. reflection' = [reflection EXCEPT ![p] = stores]
        BY <3>3 DEF DeckStores
      <4> HIDE DEF stores
      <4>4. QED
        BY <4>2, <4>3
    <3>4. QED
      BY <1>6, <3>1, <3>2, <3>3
  <2>2. reflection' \in [Reflection -> Pass] /\ SendsWhatIsLeft'
    BY <2>1, QuietPassShape
  <2>3. inbox' \in [SourceKey -> Nat]
    BY <1>6 DEF BeginReports, DeckOffline, DeckStores, FbShape, FbTypeOK
  <2>a. overlapped' \in BOOLEAN
    BY <1>6, Zenon DEF BeginReports, DeckOffline, DeckStores, FbShape, FbTypeOK
  <2>4. QED
    BY <1>6, <2>2, <2>3, <2>a DEF BeginReports, DeckOffline, DeckStores, FbShape, FbTypeOK
<1>7. ASSUME NEW p \in Reflection, NEW bad \in BOOLEAN, NextReport(p, bad),
             reflection[p].at \in {"health", "sending"}
      PROVE  /\ reflection' \in [Reflection -> Pass] /\ SendsWhatIsLeft'
             /\ intents' \in SUBSET SourceKey
  <2>1. reflection[p].awaits = NoSession
    BY <1>7 DEF FbShape, SendsWhatIsLeft
  <2>2. PICK pass \in Pass :
          /\ reflection' = [reflection EXCEPT ![p] = pass]
          /\ \/ pass.current = {}
             \/ pass.at = "sending" /\ pass.current \subseteq pass.left
          /\ pass.awaits = NoSession
    BY <1>7, <2>1, NextReportDoes
  <2>3. QED
    BY <1>7, <2>2, QuietPassShape, NextReportDoes
<1>8. ASSUME NEW p \in Reflection, DeckHealthy(p) PROVE FbShape'
  BY <1>7, <1>8 DEF DeckHealthy, FbShape, FbTypeOK
<1>9. ASSUME NEW p \in Reflection, ReportAccepted(p) PROVE FbShape'
  <2>1. sentRows' \in [SourceKey -> Nat]
    BY <1>9 DEF ReportAccepted, FbShape, FbTypeOK
  <2>2. QED
    BY <1>7, <1>9, <2>1, PassType DEF ReportAccepted, FbShape, FbTypeOK
<1>10. ASSUME NEW p \in Reflection, ReportFails(p) PROVE FbShape'
  <2>1. unanswered' \in [SourceKey -> Nat]
    BY <1>10, LostType DEF ReportFails
  <2>2. QED
    BY <1>7, <1>10, <2>1 DEF ReportFails, FbShape, FbTypeOK
<1>11. CASE FbCrash
  <2>1. unanswered' \in [SourceKey -> Nat]
    BY <1>11, LostType DEF FbCrash
  <2>2. [IdlePass EXCEPT !.at = "dead"] \in Pass
    BY DEF IdlePass, Pass
  <2>3. reflection' \in [Reflection -> Pass]
    BY <1>11, <2>2, PassType DEF FbCrash
  <2>4. SendsWhatIsLeft'
    BY <1>11 DEF FbCrash, FbShape, SendsWhatIsLeft, IdlePass
  <2>5. QED
    BY <1>11, <2>1, <2>3, <2>4 DEF FbCrash, FbShape, FbTypeOK
<1>12. CASE UNCHANGED fbVars
  BY <1>12 DEF fbVars, FbShape, FbTypeOK, SendsWhatIsLeft
<1>13. QED
  BY <1>1, <1>2, <1>3, <1>4, <1>5, <1>6, <1>8, <1>9, <1>10, <1>11, <1>12 DEF FbNext

-----------------------------------------------------------------------------
(* Playbook feedback: receipts.  A collection is in flight only for a       *)
(* session without a final receipt, and only one: its answer can replace    *)
(* nothing that must stay.                                                  *)

OneFlightEach ==
  /\ \A f \in flights : f.session \in finished /\ receipt[f.session] # "used"
  /\ \A f, g \in flights : f.session = g.session => f = g
  /\ \A s \in FbSession : receipt[s] # "none" => s \in finished
  /\ \A p \in Reflection : reflection[p].todo \subseteq finished

ReceiptInv == FbShape /\ OneFlightEach

UseStays == \A s \in FbSession : receipt[s] = "used" => receipt'[s] = "used"

LEMMA QuietReceipts ==
  ASSUME ReceiptInv, UNCHANGED <<receipt, flights, finished>>,
         \A p \in Reflection : reflection'[p].todo \subseteq reflection[p].todo
  PROVE  OneFlightEach' /\ UseStays
  BY DEF ReceiptInv, OneFlightEach, UseStays

LEMMA OnePassMoves ==
  ASSUME FbShape, NEW p \in Reflection, NEW pass,
         reflection' = [reflection EXCEPT ![p] = pass],
         pass.todo \subseteq reflection[p].todo
  PROVE  \A q \in Reflection : reflection'[q].todo \subseteq reflection[q].todo
  BY DEF FbShape, FbTypeOK

LEMMA ReceiptStep ==
  ASSUME ReceiptInv, [FbNext]_fbVars
  PROVE  OneFlightEach' /\ UseStays
<1> USE DEF ReceiptInv
<1>1. ASSUME NEW s \in FbSession, EndSession(s) PROVE OneFlightEach' /\ UseStays
  <2>1. receipt[s] = "none" /\ \A f \in flights : f.session # s
    BY <1>1 DEF EndSession, OneFlightEach
  <2>2. receipt'[s] # "used" /\ \A t \in FbSession : t # s => receipt'[t] = receipt[t]
    BY <1>1, <2>1 DEF EndSession, FbShape, FbTypeOK
  <2>3. \A f \in flights' : f \in flights \/ f = [session |-> s, by |-> Probe]
    BY <1>1 DEF EndSession
  <2>4. finished' = finished \cup {s} /\ UNCHANGED reflection
    BY <1>1 DEF EndSession
  <2>5. flights \in SUBSET [session : FbSession, by : Reflection \cup {Probe}]
    BY DEF FbShape, FbTypeOK
  <2>6. QED
    BY <2>1, <2>2, <2>3, <2>4, <2>5 DEF OneFlightEach, UseStays
<1>2. ASSUME NEW s \in FbSession, ReconcileSession(s) PROVE OneFlightEach' /\ UseStays
  BY <1>2 DEF ReconcileSession, OneFlightEach, UseStays
<1>3. ASSUME NEW f \in flights, Collected(f) PROVE OneFlightEach' /\ UseStays
  <2>1. f.session \in FbSession /\ receipt[f.session] # "used" /\ f.session \in finished
    BY DEF FbShape, FbTypeOK, OneFlightEach
  <2>2. \A t \in FbSession : t # f.session => receipt'[t] = receipt[t]
    BY <1>3, <2>1 DEF Collected, FbShape, FbTypeOK
  <2>3. flights' = flights \ {f} /\ \A g \in flights' : g.session # f.session
    BY <1>3 DEF Collected, OneFlightEach
  <2>4. ASSUME NEW p \in Reflection
        PROVE  reflection'[p].todo \subseteq reflection[p].todo
    BY <1>3, PassType DEF Collected, Pass
  <2>5. flights \in SUBSET [session : FbSession, by : Reflection \cup {Probe}]
    BY DEF FbShape, FbTypeOK
  <2>6. UNCHANGED finished
    BY <1>3 DEF Collected
  <2>7. QED
    BY <2>1, <2>2, <2>3, <2>4, <2>5, <2>6 DEF OneFlightEach, UseStays
<1>4. ASSUME NEW p \in Reflection, Reflect(p) PROVE OneFlightEach' /\ UseStays
  <2>1. \A q \in Reflection : reflection'[q].todo \subseteq finished
    BY <1>4, PassType DEF Reflect, Pass, FbShape, FbTypeOK, OneFlightEach
  <2>2. QED
    BY <1>4, <2>1 DEF Reflect, OneFlightEach, UseStays
<1>5. ASSUME NEW p \in Reflection, CollectNext(p) PROVE OneFlightEach' /\ UseStays
  <2>1. PICK s \in reflection[p].todo :
          \/ /\ InFlight(s) \/ (~Frozen(s) /\ Correlates(s))
             /\ flights' = IF InFlight(s) THEN flights
                           ELSE flights \cup {[session |-> s, by |-> p]}
             /\ UNCHANGED receipt
          \/ /\ receipt' = IF Frozen(s) THEN receipt
                           ELSE [receipt EXCEPT ![s] = "skipped"]
             /\ ~InFlight(s) /\ UNCHANGED flights
    BY <1>5 DEF CollectNext
  <2>2. s \in FbSession /\ s \in finished
    BY PassType DEF OneFlightEach
  <2>3. \A q \in Reflection : reflection'[q].todo \subseteq reflection[q].todo
    <3>1. PICK t : \/ reflection' = [reflection EXCEPT ![p] =
                                      [reflection[p] EXCEPT !.at = "waiting", !.awaits = t]]
                   \/ reflection' = [reflection EXCEPT ![p].todo = @ \ {t}]
      BY <1>5, Zenon DEF CollectNext
    <3>2. [reflection[p] EXCEPT !.at = "waiting", !.awaits = t].todo = reflection[p].todo
      BY PassType DEF Pass
    <3>3. CASE reflection' = [reflection EXCEPT ![p].todo = @ \ {t}]
      BY <3>3, PassType DEF Pass, FbShape, FbTypeOK
    <3>4. QED
      BY <3>1, <3>2, <3>3, OnePassMoves
  <2>4. UNCHANGED finished
    BY <1>5 DEF CollectNext
  <2>5. CASE InFlight(s) \/ (Frozen(s) /\ UNCHANGED flights)
    <3>1. UNCHANGED <<receipt, flights>> \/ receipt' = [receipt EXCEPT ![s] = "skipped"]
      BY <2>1, <2>5
    <3>2. UNCHANGED <<receipt, flights>>
      BY <2>1, <2>5
    <3>3. QED
      BY <2>3, <2>4, <3>2, QuietReceipts
  <2>6. CASE ~InFlight(s) /\ ~Frozen(s)
    <3>1. receipt'[s] # "used" /\ \A t \in FbSession : t # s => receipt'[t] = receipt[t]
      BY <2>1, <2>2, <2>6 DEF Frozen, FbShape, FbTypeOK
    <3>2. \A f \in flights' : f \in flights \/ f = [session |-> s, by |-> p]
      BY <2>1
    <3>3. \A f \in flights : f.session # s
      BY <2>6 DEF InFlight
    <3>4. receipt[s] # "used"
      BY <2>6 DEF Frozen
    <3>5. flights \in SUBSET [session : FbSession, by : Reflection \cup {Probe}]
      BY DEF FbShape, FbTypeOK
    <3>6. QED
      BY <2>2, <2>3, <2>4, <3>1, <3>2, <3>3, <3>4, <3>5 DEF OneFlightEach, UseStays
  <2>7. CASE ~InFlight(s) /\ Frozen(s)
    <3>1. UNCHANGED receipt
      BY <2>1, <2>7
    <3>2. CASE UNCHANGED flights
      BY <2>5, <2>7, <3>2
    <3>3. CASE ~UNCHANGED flights
      BY <2>1, <2>7, <3>3
    <3>4. QED
      BY <3>2, <3>3
  <2>8. QED
    BY <2>5, <2>6, <2>7
<1>6. ASSUME NEW p \in Reflection,
             BeginReports(p) \/ DeckOffline(p) \/ DeckStores(p)
      PROVE  OneFlightEach' /\ UseStays
  <2>1. \A q \in Reflection : reflection'[q].todo \subseteq reflection[q].todo
    <3>1. CASE BeginReports(p)
      <4>1. PICK pass \in {[reflection[p] EXCEPT !.at = "done", !.outcome = "nothing"],
                           [reflection[p] EXCEPT !.at = "done", !.outcome = "skipped"],
                           [reflection[p] EXCEPT !.at = "health", !.left = Candidates]} :
              reflection' = [reflection EXCEPT ![p] = pass]
        BY <3>1 DEF BeginReports
      <4>2. pass.todo = reflection[p].todo
        BY PassType DEF Pass
      <4>3. QED
        BY <4>1, <4>2, OnePassMoves
    <3>2. CASE DeckOffline(p)
      BY <3>2, PassType DEF DeckOffline, Pass, FbShape, FbTypeOK
    <3>3. CASE DeckStores(p)
      BY <3>3, PassType DEF DeckStores, Pass, FbShape, FbTypeOK
    <3>4. QED
      BY <1>6, <3>1, <3>2, <3>3
  <2>2. QED
    BY <1>6, <2>1, QuietReceipts DEF BeginReports, DeckOffline, DeckStores
<1>7. ASSUME NEW p \in Reflection, NEW bad \in BOOLEAN, NextReport(p, bad),
             UNCHANGED <<receipt, flights, finished>>
      PROVE  OneFlightEach' /\ UseStays
  <2>1. PICK pass \in Pass : /\ reflection' = [reflection EXCEPT ![p] = pass]
                             /\ pass.todo = reflection[p].todo
    BY <1>7, NextReportDoes
  <2>2. \A q \in Reflection : reflection'[q].todo \subseteq reflection[q].todo
    BY <2>1 DEF FbShape, FbTypeOK
  <2>3. QED
    BY <1>7, <2>2, QuietReceipts
<1>8. ASSUME NEW p \in Reflection, DeckHealthy(p) \/ ReportAccepted(p) \/ ReportFails(p)
      PROVE  OneFlightEach' /\ UseStays
  <2>1. UNCHANGED <<receipt, flights, finished>>
    BY <1>8 DEF DeckHealthy, ReportAccepted, ReportFails
  <2>2. PICK bad \in BOOLEAN : NextReport(p, bad)
    BY <1>8, PassType DEF DeckHealthy, ReportAccepted, ReportFails
  <2>3. QED
    BY <1>7, <2>1, <2>2
<1>9. CASE FbCrash
  <2>1. \A q \in Reflection : reflection'[q].todo \subseteq reflection[q].todo
    BY <1>9 DEF FbCrash, IdlePass
  <2>2. flights' = {} /\ UNCHANGED <<receipt, finished>>
    BY <1>9 DEF FbCrash
  <2>3. QED
    BY <2>1, <2>2 DEF OneFlightEach, UseStays
<1>10. CASE UNCHANGED fbVars
  BY <1>10, QuietReceipts DEF fbVars
<1>11. QED
  BY <1>1, <1>2, <1>3, <1>4, <1>5, <1>6, <1>8, <1>9, <1>10 DEF FbNext

LEMMA FbInitReceipts == FbInit => ReceiptInv
  BY FbInitShape DEF FbInit, ReceiptInv, OneFlightEach, IdlePass

\* playbook-feedback.ts: a receipt that names playbooks is never superseded,
\* whatever collections overlap and whenever Deck answers them.
THEOREM UseIsNeverForgotten == FbSpec => UseIsNotForgotten
<1>1. ReceiptInv /\ [FbNext]_fbVars => ReceiptInv'
  BY FbNextShape, ReceiptStep DEF ReceiptInv
<1>2. ReceiptInv /\ [FbNext]_fbVars =>
        [\A s \in FbSession : receipt[s] = "used" => receipt'[s] = "used"]_fbVars
  BY ReceiptStep DEF UseStays
<1>3. QED
  BY <1>1, <1>2, FbInitReceipts, PTL DEF FbSpec, UseIsNotForgotten

-----------------------------------------------------------------------------
(* Playbook feedback: reports *)

Early == {"idle", "collecting", "waiting"}

\* Steps that touch no report: a pass stays where it is, or among its
\* collections.
Quiet ==
  /\ UNCHANGED <<choice, recurring, sentRows, inbox, unanswered, overlapped>>
  /\ \A q \in Reflection :
       \/ reflection'[q] = reflection[q]
       \/ /\ reflection[q].at \in Early /\ reflection'[q].at \in Early
          /\ reflection'[q].failed = reflection[q].failed
          /\ reflection'[q].outcome = reflection[q].outcome
          /\ reflection'[q].current = reflection[q].current

LEMMA QuietSteps ==
  ASSUME FbShape,
         \/ \E s \in FbSession : EndSession(s) \/ ReconcileSession(s)
         \/ \E f \in flights : Collected(f)
         \/ \E p \in Reflection : Reflect(p) \/ CollectNext(p)
         \/ UNCHANGED fbVars
  PROVE  Quiet
<1>1. ASSUME NEW s \in FbSession, EndSession(s) \/ ReconcileSession(s) PROVE Quiet
  BY <1>1 DEF EndSession, ReconcileSession, Quiet
<1>2. ASSUME NEW f \in flights, Collected(f) PROVE Quiet
  <2>1. ASSUME NEW q \in Reflection, reflection[q].awaits = f.session
        PROVE  /\ reflection[q].at = "waiting" /\ reflection'[q].at = "collecting"
               /\ reflection'[q].failed = reflection[q].failed
               /\ reflection'[q].outcome = reflection[q].outcome
               /\ reflection'[q].current = reflection[q].current
    <3>1. f.session \in FbSession
      BY DEF FbShape, FbTypeOK
    <3>2. reflection[q].at = "waiting"
      BY <2>1, <3>1, FeedbackAssumption DEF FbShape, SendsWhatIsLeft
    <3>3. reflection'[q] = [reflection[q] EXCEPT !.at = "collecting", !.awaits = NoSession,
                                                !.todo = @ \ {f.session}]
      BY <1>2, <2>1 DEF Collected
    <3>4. QED
      BY <3>2, <3>3, PassType DEF Pass
  <2>2. \A q \in Reflection : reflection[q].awaits # f.session => reflection'[q] = reflection[q]
    BY <1>2 DEF Collected
  <2>3. UNCHANGED <<choice, recurring, sentRows, inbox, unanswered, overlapped>>
    BY <1>2 DEF Collected
  <2>4. QED
    BY <2>1, <2>2, <2>3 DEF Quiet, Early
<1>3. ASSUME NEW p \in Reflection, NEW pass \in Pass,
             reflection' = [reflection EXCEPT ![p] = pass],
             reflection[p].at \in Early, pass.at \in Early,
             pass.failed = reflection[p].failed, pass.outcome = reflection[p].outcome,
             pass.current = reflection[p].current,
             UNCHANGED <<choice, recurring, sentRows, inbox, unanswered, overlapped>>
      PROVE  Quiet
  BY <1>3 DEF Quiet, FbShape, FbTypeOK
<1>4. ASSUME NEW p \in Reflection, Reflect(p) PROVE Quiet
  <2> DEFINE pass == [reflection[p] EXCEPT !.at = "collecting", !.todo = finished]
  <2>1. /\ pass \in Pass /\ pass.at \in Early /\ reflection[p].at \in Early
        /\ pass.failed = reflection[p].failed /\ pass.outcome = reflection[p].outcome
        /\ pass.current = reflection[p].current
    BY <1>4, PassType DEF Reflect, Pass, FbShape, FbTypeOK, Early
  <2>2. reflection' = [reflection EXCEPT ![p] = pass]
    BY <1>4 DEF Reflect
  <2>3. UNCHANGED <<choice, recurring, sentRows, inbox, unanswered, overlapped>>
    BY <1>4 DEF Reflect
  <2> HIDE DEF pass
  <2>4. QED
    BY <1>3, <2>1, <2>2, <2>3
<1>5. ASSUME NEW p \in Reflection, CollectNext(p) PROVE Quiet
  <2> DEFINE waits(s) == [reflection[p] EXCEPT !.at = "waiting", !.awaits = s]
             goesOn(s) == [reflection[p] EXCEPT !.todo = @ \ {s}]
  <2>1. PICK s \in reflection[p].todo :
          \/ reflection' = [reflection EXCEPT ![p] =
               [reflection[p] EXCEPT !.at = "waiting", !.awaits = s]]
          \/ reflection' = [reflection EXCEPT ![p].todo = @ \ {s}]
    BY <1>5, Zenon DEF CollectNext
  <2>2. s \in FbSession /\ reflection[p].at = "collecting"
    BY <1>5, PassType DEF CollectNext
  <2>3. \A pass \in {waits(s), goesOn(s)} :
          /\ pass \in Pass /\ pass.at \in Early
          /\ pass.failed = reflection[p].failed /\ pass.outcome = reflection[p].outcome
          /\ pass.current = reflection[p].current
    <3>1. /\ waits(s) \in Pass /\ waits(s).at = "waiting"
          /\ waits(s).failed = reflection[p].failed
          /\ waits(s).outcome = reflection[p].outcome
          /\ waits(s).current = reflection[p].current
      BY <2>2, PassType DEF Pass
    <3>2. /\ goesOn(s) \in Pass /\ goesOn(s).at = "collecting"
          /\ goesOn(s).failed = reflection[p].failed
          /\ goesOn(s).outcome = reflection[p].outcome
          /\ goesOn(s).current = reflection[p].current
      BY <2>2, PassType DEF Pass
    <3> HIDE DEF waits, goesOn
    <3>3. QED
      BY <3>1, <3>2 DEF Early
  <2>4. \E pass \in {waits(s), goesOn(s)} : reflection' = [reflection EXCEPT ![p] = pass]
    <3>1. [reflection EXCEPT ![p].todo = @ \ {s}] = [reflection EXCEPT ![p] = goesOn(s)]
      BY SMT
    <3>2. [reflection EXCEPT ![p] = [reflection[p] EXCEPT !.at = "waiting", !.awaits = s]]
            = [reflection EXCEPT ![p] = waits(s)]
      OBVIOUS
    <3> HIDE DEF waits, goesOn
    <3>3. QED
      BY <2>1, <3>1, <3>2
  <2>5. UNCHANGED <<choice, recurring, sentRows, inbox, unanswered, overlapped>>
    BY <1>5 DEF CollectNext
  <2> HIDE DEF waits, goesOn
  <2>6. QED
    BY <1>3, <2>2, <2>3, <2>4, <2>5 DEF Early
<1>6. CASE UNCHANGED fbVars
  BY <1>6 DEF fbVars, Quiet
<1>7. QED
  BY <1>1, <1>2, <1>4, <1>5, <1>6

\* What every step of FbNext is, seen from the reports.
LEMMA StepKinds ==
  ASSUME FbShape, [FbNext]_fbVars
  PROVE  \/ Quiet
         \/ \E p \in Reflection :
              \/ BeginReports(p) \/ DeckOffline(p) \/ DeckHealthy(p)
              \/ DeckStores(p) \/ ReportAccepted(p) \/ ReportFails(p)
         \/ FbCrash
  BY QuietSteps DEF FbNext

-----------------------------------------------------------------------------
(* Playbook feedback: nothing is dropped.  As long as no report of a pass  *)
(* has failed, what is owed is on its list or was sent; a sent row stays.   *)

Owed == HumanRetries \cup Exhaustions \cup RecurringReport
Delivered(k) == \E l \in SourceKey : l.action = k.action /\ sentRows[l] > 0

OnTrack ==
  \A p \in Reflection :
    /\ reflection[p].at \in Early \cup {"health"} => ~reflection[p].failed
    /\ reflection[p].at \in {"health", "sending"} /\ ~reflection[p].failed =>
         \A k \in Owed : k \in reflection[p].left \/ Delivered(k)
    /\ reflection[p].outcome \in {"nothing", "completed"} =>
         \A k \in Owed : Delivered(k)

TrackInv == FbShape /\ OnTrack

\* A step of one pass: the others keep what they had, sent rows only grow.
LEMMA TrackOfOne ==
  ASSUME TrackInv, NEW p \in Reflection, NEW pass \in Pass,
         reflection' = [reflection EXCEPT ![p] = pass],
         UNCHANGED <<choice, recurring>>,
         \A k \in SourceKey : sentRows[k] > 0 => sentRows'[k] > 0,
         pass.at \in Early \cup {"health"} => ~pass.failed,
         pass.at \in {"health", "sending"} /\ ~pass.failed =>
           \A k \in Owed : k \in pass.left \/ Delivered(k)',
         pass.outcome \in {"nothing", "completed"} => \A k \in Owed : Delivered(k)'
  PROVE  OnTrack'
<1>1. Owed' = Owed
  BY DEF Owed, HumanRetries, Exhaustions, RecurringReport
<1>2. ASSUME NEW k, Delivered(k) PROVE Delivered(k)'
  BY <1>2 DEF Delivered
<1>3. reflection'[p] = pass /\ \A q \in Reflection \ {p} : reflection'[q] = reflection[q]
  BY DEF TrackInv, FbShape, FbTypeOK
<1>4. QED
  BY <1>1, <1>2, <1>3 DEF TrackInv, OnTrack

LEMMA NothingLostAtTheStart ==
  ASSUME FbShape, NEW k \in Owed, k \notin Candidates
  PROVE  Delivered(k)
<1>1. k \in SourceKey
  BY FeedbackAssumption DEF Owed, HumanRetries, Exhaustions, RecurringReport, SourceKey
<1>2. k.action \in ClaimedActions \/ k \in SentKeys
  BY DEF Owed, Candidates
<1>3. QED
  BY <1>1, <1>2 DEF ClaimedActions, SentKeys, Delivered

LEMMA TrackStep == TrackInv /\ [FbNext]_fbVars => OnTrack'
<1> SUFFICES ASSUME TrackInv, [FbNext]_fbVars PROVE OnTrack'
  OBVIOUS
<1> USE DEF TrackInv
<1>1. CASE Quiet
  <2>1. Owed' = Owed /\ \A k : Delivered(k)' = Delivered(k)
    BY <1>1 DEF Quiet, Owed, HumanRetries, Exhaustions, RecurringReport, Delivered
  <2>2. QED
    BY <1>1, <2>1 DEF Quiet, OnTrack, Early
<1>2. ASSUME NEW p \in Reflection, BeginReports(p) PROVE OnTrack'
  <2> DEFINE nothing == [reflection[p] EXCEPT !.at = "done", !.outcome = "nothing"]
             skips == [reflection[p] EXCEPT !.at = "done", !.outcome = "skipped"]
             asks == [reflection[p] EXCEPT !.at = "health", !.left = Candidates]
  <2>1. UNCHANGED <<choice, recurring, sentRows>>
    BY <1>2 DEF BeginReports
  <2>2. \A k : Delivered(k)' = Delivered(k)
    BY <2>1 DEF Delivered
  <2>3. ~reflection[p].failed /\ reflection[p].at = "collecting"
    BY <1>2 DEF BeginReports, OnTrack, Early
  <2>4. /\ nothing \in Pass /\ nothing.at = "done" /\ nothing.outcome = "nothing"
        /\ skips \in Pass /\ skips.at = "done" /\ skips.outcome = "skipped"
        /\ asks \in Pass /\ asks.at = "health" /\ asks.left = Candidates
        /\ asks.failed = reflection[p].failed /\ asks.outcome = reflection[p].outcome
    BY PassType, CandidatesType DEF Pass
  <2>5. \/ Candidates = {} /\ reflection' = [reflection EXCEPT ![p] = nothing]
        \/ reflection' = [reflection EXCEPT ![p] = skips]
        \/ reflection' = [reflection EXCEPT ![p] = asks]
    BY <1>2 DEF BeginReports
  <2> HIDE DEF nothing, skips, asks
  <2>6. CASE Candidates = {} /\ reflection' = [reflection EXCEPT ![p] = nothing]
    BY <2>1, <2>2, <2>4, <2>6, NothingLostAtTheStart, TrackOfOne DEF Early
  <2>7. CASE reflection' = [reflection EXCEPT ![p] = skips]
    BY <2>1, <2>2, <2>4, <2>7, TrackOfOne DEF Early
  <2>8. CASE reflection' = [reflection EXCEPT ![p] = asks]
    <3>1. asks.outcome \in {"nothing", "completed"} => \A k \in Owed : Delivered(k)
      BY <2>4 DEF OnTrack
    <3>2. QED
      BY <2>1, <2>2, <2>3, <2>4, <2>8, <3>1, NothingLostAtTheStart, TrackOfOne
  <2>9. QED
    BY <2>5, <2>6, <2>7, <2>8
<1>3. ASSUME NEW p \in Reflection, DeckOffline(p) PROVE OnTrack'
  <2> DEFINE pass == [reflection[p] EXCEPT !.at = "done", !.outcome = "failed"]
  <2>1. pass \in Pass /\ pass.at = "done" /\ pass.outcome = "failed"
    BY PassType DEF Pass
  <2>2. reflection' = [reflection EXCEPT ![p] = pass] /\ UNCHANGED <<choice, recurring, sentRows>>
    BY <1>3 DEF DeckOffline
  <2> HIDE DEF pass
  <2>3. QED
    BY <2>1, <2>2, TrackOfOne DEF Early
<1>4. ASSUME NEW p \in Reflection, DeckStores(p) PROVE OnTrack'
  <2> DEFINE pass == [reflection[p] EXCEPT !.stored = TRUE]
  <2>1. /\ pass \in Pass /\ pass.at = reflection[p].at /\ pass.outcome = reflection[p].outcome
        /\ pass.failed = reflection[p].failed /\ pass.left = reflection[p].left
    BY PassType DEF Pass
  <2>2. reflection' = [reflection EXCEPT ![p] = pass] /\ UNCHANGED <<choice, recurring, sentRows>>
    BY <1>4 DEF DeckStores
  <2>3. \A k : Delivered(k)' = Delivered(k)
    BY <2>2 DEF Delivered
  <2> HIDE DEF pass
  <2>4. QED
    BY <2>1, <2>2, <2>3, TrackOfOne DEF OnTrack
\* what the loop leaves is what was left and has not been sent
<1>5. ASSUME NEW p \in Reflection, NEW bad \in BOOLEAN, NextReport(p, bad),
             reflection[p].at \in {"health", "sending"},
             UNCHANGED <<choice, recurring>>,
             \A k \in SourceKey : sentRows[k] > 0 => sentRows'[k] > 0,
             ~bad => /\ ~reflection[p].failed
                     /\ \A k \in reflection[p].current : sentRows'[k] > 0
      PROVE  OnTrack'
  <2>1. PICK pass \in Pass :
          /\ reflection' = [reflection EXCEPT ![p] = pass]
          /\ pass.left = reflection[p].left \ reflection[p].current
          /\ pass.todo = reflection[p].todo /\ pass.awaits = reflection[p].awaits
          /\ pass.failed = bad /\ pass.stored = FALSE
          /\ \/ /\ pass.at = "done" /\ pass.left = {} /\ pass.current = {}
                /\ pass.outcome = IF bad THEN "failed" ELSE "completed"
             \/ /\ pass.at = "sending" /\ pass.current \subseteq pass.left
                /\ pass.outcome = reflection[p].outcome
    BY <1>5, NextReportDoes
  <2>2. ASSUME NEW k, Delivered(k) PROVE Delivered(k)'
    BY <1>5, <2>2 DEF Delivered
  <2>3. ASSUME ~bad, NEW k \in Owed PROVE k \in pass.left \/ Delivered(k)'
    <3>1. k \in reflection[p].left \/ Delivered(k)
      BY <1>5, <2>3 DEF OnTrack
    <3>2. CASE k \in reflection[p].current
      <4>1. k \in SourceKey /\ sentRows'[k] > 0
        BY <1>5, <2>3, <3>2, PassType
      <4>2. QED
        BY <4>1 DEF Delivered
    <3>3. QED
      BY <2>1, <2>2, <3>1, <3>2
  <2>4. pass.outcome \in {"nothing", "completed"} => \A k \in Owed : Delivered(k)'
    BY <2>1, <2>2, <2>3 DEF OnTrack
  <2>5. QED
    BY <1>5, <2>1, <2>3, <2>4, TrackOfOne DEF Early
<1>6. ASSUME NEW p \in Reflection, DeckHealthy(p) PROVE OnTrack'
  <2>1. reflection[p].current = {} /\ ~reflection[p].failed
    BY <1>6 DEF DeckHealthy, FbShape, SendsWhatIsLeft, OnTrack
  <2>2. QED
    BY <1>5, <1>6, <2>1 DEF DeckHealthy
<1>7. ASSUME NEW p \in Reflection, ReportAccepted(p) PROVE OnTrack'
  <2>1. /\ \A k \in SourceKey : sentRows[k] > 0 => sentRows'[k] > 0
        /\ \A k \in reflection[p].current : sentRows'[k] > 0
    BY <1>7, PassType DEF ReportAccepted, FbShape, FbTypeOK
  <2>2. QED
    BY <1>5, <1>7, <2>1, PassType DEF ReportAccepted
<1>8. ASSUME NEW p \in Reflection, ReportFails(p) PROVE OnTrack'
  BY <1>5, <1>8 DEF ReportFails
<1>9. CASE FbCrash
  <2>1. Owed' = Owed /\ \A k : Delivered(k)' = Delivered(k)
    BY <1>9 DEF FbCrash, Owed, HumanRetries, Exhaustions, RecurringReport, Delivered
  <2>2. ASSUME NEW q \in Reflection
        PROVE  \/ reflection'[q] = reflection[q]
               \/ reflection'[q].at = "dead" /\ reflection'[q].outcome = "none"
    BY <1>9 DEF FbCrash, IdlePass
  <2>3. QED
    BY <2>1, <2>2 DEF OnTrack, Early
<1>10. QED
  BY <1>1, <1>2, <1>3, <1>4, <1>6, <1>7, <1>8, <1>9, StepKinds

\* reportDeckFailureSignals: a pass that ends without a failed report leaves
\* a sent row for everything the issue owed, whatever crashes, time-outs and
\* overlapping passes came before it.
THEOREM NothingIsEverDropped == FbSpec => []NothingIsDropped
<1>1. FbInit => TrackInv
  BY FbInitShape DEF FbInit, TrackInv, OnTrack, IdlePass, Early
<1>2. TrackInv /\ [FbNext]_fbVars => TrackInv'
  BY FbNextShape, TrackStep DEF TrackInv
<1>3. TrackInv => NothingIsDropped
  <2> SUFFICES ASSUME TrackInv, NEW p \in Reflection,
                      reflection[p].outcome \in {"nothing", "completed"}
               PROVE  /\ \A k \in HumanRetries \cup Exhaustions :
                           \E l \in SourceKey : l.action = k.action /\ sentRows[l] > 0
                      /\ \A k \in RecurringReport : sentRows[k] > 0
    BY DEF NothingIsDropped
  <2>1. \A k \in Owed : Delivered(k)
    BY DEF TrackInv, OnTrack
  <2>2. ASSUME NEW k \in RecurringReport PROVE sentRows[k] > 0
    <3>1. k = [trigger |-> "recurring_blocking", action |-> NoHuman]
      BY DEF RecurringReport
    <3>2. PICK l \in SourceKey : l.action = NoHuman /\ sentRows[l] > 0
      BY <2>1, <3>1 DEF Owed, Delivered
    <3>3. l = k
      BY <3>1, <3>2, FeedbackAssumption DEF SourceKey
    <3>4. QED
      BY <3>2, <3>3
  <2>3. QED
    BY <2>1, <2>2 DEF Owed, Delivered
<1>4. QED
  BY <1>1, <1>2, <1>3, PTL DEF FbSpec

-----------------------------------------------------------------------------
(* Playbook feedback: one report per key.  Of passes that do not overlap at *)
(* most one is at its reports, what it has left was never sent, and Deck    *)
(* holds no more of a key than Dealer has rows of, lost answers to, or a    *)
(* call in flight for.                                                      *)

Held(k) == \E p \in Reflection : k \in reflection[p].current /\ reflection[p].stored

OnePass == \A p, q \in Reflection : Reporting(p) /\ Reporting(q) => p = q
Unsent == \A p \in Reflection : Reporting(p) =>
            \A k \in reflection[p].left : sentRows[k] = 0
Counted == \A k \in SourceKey :
  /\ sentRows[k] <= 1
  /\ inbox[k] <= sentRows[k] + unanswered[k] + (IF Held(k) THEN 1 ELSE 0)

InTurn == ~overlapped => OnePass /\ Unsent /\ Counted
InTurnInv == FbShape /\ InTurn

\* Only a pass at its reports has one at Deck.
LEMMA HeldByReporting ==
  ASSUME FbShape, NEW p \in Reflection, NEW k \in reflection[p].current
  PROVE  Reporting(p) /\ k \in reflection[p].left
  BY DEF FbShape, SendsWhatIsLeft, Reporting

LEMMA CountsAreNat ==
  ASSUME FbShape, NEW k \in SourceKey
  PROVE  sentRows[k] \in Nat /\ inbox[k] \in Nat /\ unanswered[k] \in Nat
  BY DEF FbShape, FbTypeOK

\* A step of the pass at its reports; the others are not at theirs.
LEMMA CountOfOne ==
  ASSUME InTurnInv, FbShape', ~overlapped, NEW p \in Reflection, Reporting(p),
         NEW pass \in Pass, reflection' = [reflection EXCEPT ![p] = pass],
         pass.left \subseteq reflection[p].left,
         \A k \in pass.left : sentRows'[k] = sentRows[k],
         \A k \in SourceKey :
           /\ sentRows'[k] <= 1
           /\ inbox'[k] <= sentRows'[k] + unanswered'[k]
                            + (IF k \in pass.current /\ pass.stored THEN 1 ELSE 0)
  PROVE  InTurn'
<1>1. reflection'[p] = pass /\ \A q \in Reflection \ {p} : reflection'[q] = reflection[q]
  BY DEF InTurnInv, FbShape, FbTypeOK
<1>2. \A q \in Reflection \ {p} : ~Reporting(q) /\ ~Reporting(q)'
  BY <1>1 DEF InTurnInv, InTurn, OnePass, Reporting
<1>3. OnePass'
  BY <1>2 DEF OnePass
<1>4. Unsent'
  BY <1>1, <1>2 DEF Unsent, InTurnInv, InTurn
<1>5. ASSUME NEW k \in SourceKey PROVE Held(k)' <=> k \in pass.current /\ pass.stored
  <2>1. ASSUME NEW q \in Reflection \ {p} PROVE k \notin reflection[q].current
    BY <1>2, <2>1, HeldByReporting DEF InTurnInv
  <2>2. QED
    BY <1>1, <2>1 DEF Held
<1>6. Counted'
  BY <1>5 DEF Counted
<1>7. QED
  BY <1>3, <1>4, <1>6 DEF InTurn

\* What is held by the pass at its reports is held by no other.
LEMMA HeldByOne ==
  ASSUME InTurnInv, ~overlapped, NEW p \in Reflection, Reporting(p), NEW k \in SourceKey
  PROVE  Held(k) <=> k \in reflection[p].current /\ reflection[p].stored
<1>1. ASSUME NEW q \in Reflection, k \in reflection[q].current PROVE q = p
  BY <1>1, HeldByReporting DEF InTurnInv, InTurn, OnePass
<1>2. QED
  BY <1>1 DEF Held

LEMMA CountStep == InTurnInv /\ [FbNext]_fbVars => InTurn'
<1> SUFFICES ASSUME InTurnInv, [FbNext]_fbVars PROVE InTurn'
  OBVIOUS
<1> USE DEF InTurnInv
<1>0. FbShape'
  BY FbNextShape
<1>1. CASE Quiet
  <2>1. ASSUME NEW q \in Reflection
        PROVE  /\ Reporting(q)' <=> Reporting(q)
               /\ Reporting(q) => reflection'[q] = reflection[q]
               /\ \A k : k \in reflection'[q].current /\ reflection'[q].stored
                           <=> k \in reflection[q].current /\ reflection[q].stored
    <3>1. CASE reflection'[q] = reflection[q]
      BY <3>1 DEF Reporting
    <3>2. CASE reflection'[q] # reflection[q]
      <4>1. /\ reflection[q].at \in Early /\ reflection'[q].at \in Early
            /\ reflection'[q].current = reflection[q].current
        BY <1>1, <3>2 DEF Quiet
      <4>2. reflection[q].current = {}
        BY <4>1 DEF FbShape, SendsWhatIsLeft, Early
      <4>3. QED
        BY <4>1, <4>2 DEF Reporting, Early
    <3>3. QED
      BY <3>1, <3>2
  <2>2. UNCHANGED <<sentRows, inbox, unanswered, overlapped>>
    BY <1>1 DEF Quiet
  <2>3. \A k : Held(k)' <=> Held(k)
    BY <2>1 DEF Held
  <2>4. ~overlapped => OnePass' /\ Unsent'
    BY <2>1, <2>2 DEF InTurn, OnePass, Unsent
  <2>5. ~overlapped => Counted'
    BY <2>2, <2>3 DEF InTurn, Counted
  <2>6. QED
    BY <2>2, <2>4, <2>5 DEF InTurn
<1>2. ASSUME NEW p \in Reflection, BeginReports(p), ~overlapped' PROVE InTurn'
  <2> DEFINE nothing == [reflection[p] EXCEPT !.at = "done", !.outcome = "nothing"]
             skips == [reflection[p] EXCEPT !.at = "done", !.outcome = "skipped"]
             asks == [reflection[p] EXCEPT !.at = "health", !.left = Candidates]
  <2>1. UNCHANGED <<sentRows, inbox, unanswered>> /\ ~overlapped
    BY <1>2 DEF BeginReports
  <2>2. ~Reporting(p) /\ reflection[p].current = {}
    BY <1>2 DEF BeginReports, Reporting, FbShape, SendsWhatIsLeft
  <2>3. /\ nothing.at = "done" /\ nothing.current = {}
        /\ skips.at = "done" /\ skips.current = {}
        /\ asks.left = Candidates /\ asks.current = {}
    BY <2>2, PassType, CandidatesType DEF Pass
  <2>4. \/ reflection' = [reflection EXCEPT ![p] = nothing]
        \/ reflection' = [reflection EXCEPT ![p] = skips]
        \/ /\ reflection' = [reflection EXCEPT ![p] = asks]
           /\ \A q \in Reflection : ~Reporting(q)
    BY <1>2 DEF BeginReports
  <2>5. \A k \in Candidates : sentRows[k] = 0
    BY CandidatesType, CountsAreNat DEF Candidates, SentKeys
  <2> HIDE DEF nothing, skips, asks
  <2>6. /\ \A q \in Reflection \ {p} : reflection'[q] = reflection[q]
        /\ reflection'[p].current = {}
        /\ Reporting(p)' => /\ reflection'[p].left = Candidates
                            /\ \A q \in Reflection : ~Reporting(q)
    BY <2>3, <2>4 DEF Reporting, FbShape, FbTypeOK
  <2>7. \A k : Held(k)' <=> Held(k)
    BY <2>2, <2>6 DEF Held
  <2>8. Counted'
    BY <2>1, <2>7 DEF InTurn, Counted
  <2>9. OnePass' /\ Unsent'
    BY <2>1, <2>2, <2>5, <2>6 DEF InTurn, OnePass, Unsent, Reporting
  <2>10. QED
    BY <2>8, <2>9 DEF InTurn
<1>3. ASSUME NEW p \in Reflection, DeckOffline(p), ~overlapped' PROVE InTurn'
  <2> DEFINE pass == [reflection[p] EXCEPT !.at = "done", !.outcome = "failed"]
  <2>1. /\ pass \in Pass /\ pass.left = reflection[p].left
        /\ pass.current = reflection[p].current /\ pass.stored = reflection[p].stored
    BY PassType DEF Pass
  <2>2. /\ reflection' = [reflection EXCEPT ![p] = pass] /\ Reporting(p)
        /\ UNCHANGED <<sentRows, inbox, unanswered, overlapped>>
    BY <1>3 DEF DeckOffline, Reporting
  <2> HIDE DEF pass
  <2>3. ASSUME NEW k \in SourceKey
        PROVE  /\ sentRows'[k] <= 1
               /\ inbox'[k] <= sentRows'[k] + unanswered'[k]
                                + (IF k \in pass.current /\ pass.stored THEN 1 ELSE 0)
    BY <1>3, <2>1, <2>2, HeldByOne DEF InTurn, Counted
  <2>4. QED
    BY <1>0, <1>3, <2>1, <2>2, <2>3, CountOfOne
<1>4. ASSUME NEW p \in Reflection, DeckStores(p), ~overlapped' PROVE InTurn'
  <2> DEFINE pass == [reflection[p] EXCEPT !.stored = TRUE]
  <2>1. /\ pass \in Pass /\ pass.left = reflection[p].left
        /\ pass.current = reflection[p].current /\ pass.stored = TRUE
    BY PassType DEF Pass
  <2>2. /\ reflection' = [reflection EXCEPT ![p] = pass] /\ Reporting(p)
        /\ ~reflection[p].stored /\ UNCHANGED <<sentRows, unanswered, overlapped>>
        /\ inbox' = [k \in SourceKey |->
             IF k \in reflection[p].current THEN inbox[k] + 1 ELSE inbox[k]]
    BY <1>4 DEF DeckStores, Reporting
  <2> HIDE DEF pass
  <2>3. ASSUME NEW k \in SourceKey
        PROVE  /\ sentRows'[k] <= 1
               /\ inbox'[k] <= sentRows'[k] + unanswered'[k]
                                + (IF k \in pass.current /\ pass.stored THEN 1 ELSE 0)
    <3>1. ~Held(k) /\ sentRows[k] <= 1 /\ inbox[k] <= sentRows[k] + unanswered[k] + 0
      BY <1>4, <2>2, HeldByOne DEF InTurn, Counted
    <3>2. QED
      BY <2>1, <2>2, <3>1, CountsAreNat
  <2>4. QED
    BY <1>0, <1>4, <2>1, <2>2, <2>3, CountOfOne
<1>5. ASSUME NEW p \in Reflection, NEW bad \in BOOLEAN, NextReport(p, bad),
             reflection[p].at \in {"health", "sending"}, ~overlapped,
             \A k \in reflection[p].left \ reflection[p].current : sentRows'[k] = sentRows[k],
             \A k \in SourceKey : /\ sentRows'[k] <= 1
                                  /\ inbox'[k] <= sentRows'[k] + unanswered'[k]
      PROVE  InTurn'
  <2>1. PICK pass \in Pass :
          /\ reflection' = [reflection EXCEPT ![p] = pass]
          /\ pass.left = reflection[p].left \ reflection[p].current
          /\ pass.todo = reflection[p].todo /\ pass.awaits = reflection[p].awaits
          /\ pass.failed = bad /\ pass.stored = FALSE
          /\ \/ /\ pass.at = "done" /\ pass.left = {} /\ pass.current = {}
                /\ pass.outcome = IF bad THEN "failed" ELSE "completed"
             \/ /\ pass.at = "sending" /\ pass.current \subseteq pass.left
                /\ pass.outcome = reflection[p].outcome
    BY <1>5, NextReportDoes
  <2>2. ASSUME NEW k \in SourceKey
        PROVE  /\ sentRows'[k] <= 1
               /\ inbox'[k] <= sentRows'[k] + unanswered'[k]
                                + (IF k \in pass.current /\ pass.stored THEN 1 ELSE 0)
    <3>1. sentRows'[k] \in Nat /\ unanswered'[k] \in Nat
      BY <1>0 DEF FbShape, FbTypeOK
    <3>2. QED
      BY <1>5, <2>1, <3>1
  <2>3. QED
    BY <1>0, <1>5, <2>1, <2>2, CountOfOne DEF Reporting
<1>6. ASSUME NEW p \in Reflection, DeckHealthy(p), ~overlapped' PROVE InTurn'
  <2>1. /\ NextReport(p, FALSE) /\ reflection[p].at = "health"
        /\ UNCHANGED <<sentRows, inbox, unanswered, overlapped>>
    BY <1>6 DEF DeckHealthy
  <2>2. reflection[p].current = {} /\ Reporting(p)
    BY <2>1 DEF FbShape, SendsWhatIsLeft, Reporting
  <2>3. \A k \in SourceKey : sentRows[k] <= 1 /\ inbox[k] <= sentRows[k] + unanswered[k]
    BY <1>6, <2>1, <2>2, HeldByOne, CountsAreNat DEF InTurn, Counted
  <2>4. QED
    BY <1>5, <1>6, <2>1, <2>3
<1>7. ASSUME NEW p \in Reflection, ReportAccepted(p), ~overlapped' PROVE InTurn'
  <2>1. /\ NextReport(p, reflection[p].failed) /\ reflection[p].at = "sending"
        /\ UNCHANGED <<inbox, unanswered, overlapped>> /\ reflection[p].stored
        /\ sentRows' = [k \in SourceKey |->
             IF k \in reflection[p].current THEN sentRows[k] + 1 ELSE sentRows[k]]
    BY <1>7 DEF ReportAccepted
  <2>2. Reporting(p)
    BY <2>1 DEF Reporting
  <2>3. ASSUME NEW k \in SourceKey
        PROVE  sentRows'[k] <= 1 /\ inbox'[k] <= sentRows'[k] + unanswered'[k]
    <3>1. CASE k \in reflection[p].current
      <4>1. sentRows[k] = 0
        BY <1>7, <2>1, <2>2, <3>1, HeldByReporting DEF InTurn, Unsent
      <4>2. Held(k) /\ inbox[k] <= sentRows[k] + unanswered[k] + 1
        BY <1>7, <2>1, <2>2, <3>1, HeldByOne DEF InTurn, Counted
      <4>3. QED
        BY <2>1, <3>1, <4>1, <4>2, CountsAreNat
    <3>2. CASE k \notin reflection[p].current
      <4>1. ~Held(k) /\ sentRows[k] <= 1 /\ inbox[k] <= sentRows[k] + unanswered[k] + 0
        BY <1>7, <2>1, <2>2, <3>2, HeldByOne DEF InTurn, Counted
      <4>2. QED
        BY <2>1, <3>2, <4>1, CountsAreNat
    <3>3. QED
      BY <3>1, <3>2
  <2>4. \A k \in reflection[p].left \ reflection[p].current : sentRows'[k] = sentRows[k]
    BY <2>1, PassType
  <2>5. QED
    BY <1>5, <1>7, <2>1, <2>3, <2>4, PassType
<1>8. ASSUME NEW p \in Reflection, ReportFails(p), ~overlapped' PROVE InTurn'
  <2>1. /\ NextReport(p, TRUE) /\ reflection[p].at = "sending"
        /\ UNCHANGED <<sentRows, inbox, overlapped>> /\ unanswered' = Lost({p})
    BY <1>8 DEF ReportFails
  <2>2. Reporting(p)
    BY <2>1 DEF Reporting
  <2>3. ASSUME NEW k \in SourceKey
        PROVE  sentRows'[k] <= 1 /\ inbox'[k] <= sentRows'[k] + unanswered'[k]
    <3>1. /\ sentRows[k] <= 1
          /\ inbox[k] <= sentRows[k] + unanswered[k] + (IF Held(k) THEN 1 ELSE 0)
      BY <1>8, <2>1 DEF InTurn, Counted
    <3>2. /\ unanswered'[k] \in Nat /\ unanswered'[k] >= unanswered[k]
          /\ Held(k) => unanswered'[k] >= unanswered[k] + 1
      BY <1>8, <2>1, <2>2, LostType, HeldByOne
    <3>3. QED
      BY <2>1, <3>1, <3>2, CountsAreNat
  <2>4. QED
    BY <1>5, <1>8, <2>1, <2>3
<1>9. CASE FbCrash
  <2>1. ASSUME NEW q \in Reflection
        PROVE  ~Reporting(q)' /\ reflection'[q].current = {}
    BY <1>9 DEF FbCrash, IdlePass, Reporting, FbShape, SendsWhatIsLeft
  <2>2. OnePass' /\ Unsent' /\ \A k : ~Held(k)'
    BY <2>1 DEF OnePass, Unsent, Held
  <2>3. UNCHANGED <<sentRows, inbox, overlapped>> /\ unanswered' = Lost(Reflection)
    BY <1>9 DEF FbCrash
  <2>4. ASSUME ~overlapped, NEW k \in SourceKey
        PROVE  sentRows'[k] <= 1 /\ inbox'[k] <= sentRows'[k] + unanswered'[k]
    <3>1. /\ sentRows[k] <= 1
          /\ inbox[k] <= sentRows[k] + unanswered[k] + (IF Held(k) THEN 1 ELSE 0)
      BY <2>4 DEF InTurn, Counted
    <3>2. /\ unanswered'[k] \in Nat /\ unanswered'[k] >= unanswered[k]
          /\ Held(k) => unanswered'[k] >= unanswered[k] + 1
      BY <2>3, LostType DEF Held
    <3>3. QED
      BY <2>3, <3>1, <3>2, CountsAreNat
  <2>5. ~overlapped => Counted'
    <3>1. ASSUME NEW k \in SourceKey PROVE sentRows'[k] \in Nat /\ unanswered'[k] \in Nat
      BY <1>0 DEF FbShape, FbTypeOK
    <3>2. QED
      BY <2>2, <2>4, <3>1 DEF Counted
  <2>6. QED
    BY <2>2, <2>3, <2>5 DEF InTurn
<1>10. CASE overlapped'
  BY <1>10 DEF InTurn
<1>11. QED
  BY <1>1, <1>2, <1>3, <1>4, <1>6, <1>7, <1>8, <1>9, <1>10, StepKinds

\* reportDeckFailureSignals: passes that do not overlap file one report of a
\* key, and one more for each whose answer was lost to a crash or a time-out.
THEOREM OneReportPerKeyHolds == FbSpec => []OneReportPerKey
<1>1. FbInit => InTurnInv
  <2> SUFFICES ASSUME FbInit PROVE InTurnInv
    OBVIOUS
  <2>1. \A p \in Reflection : ~Reporting(p)
    BY DEF FbInit, IdlePass, Reporting
  <2>2. Counted
    BY DEF FbInit, Counted
  <2>3. QED
    BY <2>1, <2>2, FbInitShape DEF InTurnInv, InTurn, OnePass, Unsent
<1>2. InTurnInv /\ [FbNext]_fbVars => InTurnInv'
  BY FbNextShape, CountStep DEF InTurnInv
<1>3. InTurnInv => OneReportPerKey
  <2> SUFFICES ASSUME InTurnInv, ~overlapped, NEW k \in SourceKey
               PROVE  inbox[k] <= 1 + unanswered[k]
    BY DEF OneReportPerKey
  <2>1. /\ sentRows[k] <= 1
        /\ inbox[k] <= sentRows[k] + unanswered[k] + (IF Held(k) THEN 1 ELSE 0)
    BY DEF InTurnInv, InTurn, Counted
  <2>2. Held(k) => sentRows[k] = 0
    BY HeldByReporting DEF Held, InTurnInv, InTurn, Unsent
  <2>3. QED
    BY <2>1, <2>2, CountsAreNat DEF InTurnInv
<1>4. QED
  BY <1>1, <1>2, <1>3, PTL DEF FbSpec

-----------------------------------------------------------------------------
(* The sum.  A behaviour of MCIssue is one of each of its parts, so what is *)
(* proved of a part holds in the run.                                       *)

\* A step of the sum is a step of one part and stutters in every other.
LEMMA LifeStep ==
  ASSUME [LifeNext]_lifeVars
  PROVE  [Next]_vars /\ [DevNext]_devVars /\ [FbNext]_fbVars /\ [SrcNext]_srcVars
BY Zenon DEF LifeNext, lifeVars

\* The coordinator, the developer's work, the feedback and the source files
\* each keep their specification in the sum.
THEOREM IssuePartsKeepTheirSpecs ==
  LifeSpec => Spec /\ DevSpec /\ FbSpec /\ SrcSpec
<1>1. LifeInit => Init /\ DevInit /\ FbInit /\ SrcInit
  BY DEF LifeInit
<1>2. [LifeNext]_lifeVars =>
        [Next]_vars /\ [DevNext]_devVars /\ [FbNext]_fbVars /\ [SrcNext]_srcVars
  BY LifeStep
<1> QED
  BY <1>1, <1>2, PTL DEF LifeSpec, Spec, DevSpec, FbSpec, SrcSpec

\* Every property the run over one issue checks holds for any constants; those
\* that name the next effect and the merge with both windows shut.
THEOREM IssueIsSafe ==
  LifeSpec =>
    /\ []AutonomyBounded /\ [](TreesNotShared /\ InputsAreWhole)
    /\ [](OneReportPerKey /\ NothingIsDropped)
    /\ OriginKeepsChanges /\ WorkNeverLost /\ HandoffWasChecked /\ UseIsNotForgotten
    /\ (Windows = {} =>
          /\ [](TypeOK /\ ExactlyOneNextEffect /\ ReviewIsPinned /\ RoutingNeverRefused)
          /\ MergeIsCleared)
BY IssuePartsKeepTheirSpecs, AutonomyIsBounded, TreesNeverShared, InputsStayWhole,
   OneReportPerKeyHolds, NothingIsEverDropped, OriginAlwaysKeeps, WorkIsNeverLost,
   HandoffAlwaysChecked, UseIsNeverForgotten, TypeCorrect, OneNextEffectHolds,
   ReviewIsPinnedHolds, RoutingNeverRefusedHolds, MergeIsClearedHolds, PTL
=============================================================================
