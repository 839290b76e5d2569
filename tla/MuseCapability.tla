--------------------------- MODULE MuseCapability ---------------------------
(***************************************************************************)
(* adapters/muse-capability.ts with its callers: the cached health read    *)
(* (agent-health.ts), the escalation at admission (admission.ts), the      *)
(* safety net after a session (developer-effect.ts) and the operator's     *)
(* acknowledgement (commands.ts).  Every new version of the agent CLI is   *)
(* probed once, in the background, before its developers are trusted.      *)
(*                                                                         *)
(* A handler runs without interruption up to its next await, and what an   *)
(* await resumes (a microtask) runs before the next callback: Draining     *)
(* says that such continuations are due.                                   *)
(***************************************************************************)
EXTENDS Naturals, FiniteSets

CONSTANTS
  MuseVersion,   \* versions the binary may report
  NoVersion,     \* null
  MuseIssue,     \* issues with a developer on this runtime
  MuseReader,    \* health reads that may overlap
  MuseAttempts,  \* MAX_ERROR_ATTEMPTS
  MaxUpdates,    \* bound of the model: how often the binary changes
  MaxAcks        \* bound of the model: questions acknowledged

ASSUME MuseAssumption ==
  NoVersion \notin MuseVersion /\ MuseAttempts \in Nat \ {0} /\ MaxUpdates \in Nat

VARIABLES
  installed,   \* the version on disk
  updates,     \* how often it has changed, for the bound
  confirmed,   \* confirmedVersion
  reported,    \* current.version
  checked,     \* lastChecked; aged: its retry delay has passed
  overridden,  \* overriddenVersions
  probe,       \* inFlight, and whether its answer has been taken
  watchers,    \* missWatchers
  asks,        \* open muse_capability actions
  acked,       \* <<version, kind>> of those resolved with "acknowledge"
  decided,     \* history: those an operator ever acknowledged
  answer,      \* the runtime's entry in runtimeIssueCache
  reads        \* the health reads under way

fileVars == <<confirmed, reported, checked, overridden>>
askVars == <<asks, acked, decided>>
diskVars == <<installed, updates>>
museVars == <<diskVars, fileVars, probe, watchers, askVars, answer, reads>>

Result == {"capable", "missing", "error"}
AskKind == {"missing", "unverified"}
Ask == [version : MuseVersion, kind : AskKind, issue : MuseIssue]

NoCheck == [version |-> NoVersion, status |-> "none", attempts |-> 0, aged |-> FALSE]
NoProbe == [version |-> NoVersion, at |-> "none"]
NoAnswer == [version |-> NoVersion, blocks |-> FALSE]
Idle == [at |-> "idle", version |-> NoVersion, blocks |-> FALSE, spans |-> FALSE]

MuseTypeOK ==
  /\ installed \in MuseVersion /\ updates \in 0..MaxUpdates
  /\ confirmed \in MuseVersion \cup {NoVersion}
  /\ reported \in MuseVersion \cup {NoVersion}
  /\ checked \in [version : MuseVersion, status : Result,
                  attempts : Nat, aged : BOOLEAN] \cup {NoCheck}
  /\ overridden \subseteq MuseVersion
  /\ probe \in [version : MuseVersion, at : {"running", "settling"}] \cup {NoProbe}
  /\ watchers \subseteq MuseVersion \X MuseIssue
  /\ asks \subseteq Ask
  /\ acked \subseteq MuseVersion \X AskKind
  /\ decided \subseteq MuseVersion \X AskKind
  /\ answer \in [version : MuseVersion, blocks : BOOLEAN] \cup {NoAnswer}
  /\ reads \in [MuseReader -> [at : {"asked", "answered"}, version : MuseVersion,
                               blocks : BOOLEAN, spans : BOOLEAN] \cup {Idle}]

\* A fresh installation without a state file, or one that has been checked
MuseInit ==
  /\ installed \in MuseVersion /\ updates = 0
  /\ \/ confirmed = NoVersion /\ reported = NoVersion /\ checked = NoCheck
     \/ /\ confirmed = installed /\ reported = installed
        /\ checked = [version |-> installed, status |-> "capable", attempts |-> 0,
                      aged |-> FALSE]
  /\ overridden = {} /\ probe = NoProbe /\ watchers = {}
  /\ asks = {} /\ acked = {} /\ decided = {}
  /\ answer = NoAnswer /\ reads = [r \in MuseReader |-> Idle]

Draining ==
  probe.at = "settling" \/ \E r \in MuseReader : reads[r].at = "answered"

-----------------------------------------------------------------------------
(* The rules of the gate                                                   *)

SpentRetries(c) == c.status = "error" /\ c.attempts >= MuseAttempts

\* checkDue for a reported version: an exhausted one is left alone, but not
\* while there is no baseline to work on.
CheckDue(c) ==
  \/ c = NoCheck
  \/ c.status = "error" /\ c.aged /\ (SpentRetries(c) => confirmed = NoVersion)

\* museCapabilityIssues: only a confirmed loss blocks, and without a baseline
\* everything that is not confirmed.
GateBlocks(c) ==
  CASE c.status = "capable" -> FALSE
    [] c.status = "missing" -> c.version \notin overridden
    [] OTHER -> confirmed = NoVersion

\* observe: what becomes of the last check when version v is reported
CheckFor(v) == IF reported = v THEN checked ELSE NoCheck
WatchersFor(v) == IF reported = v THEN watchers ELSE {w \in watchers : w[1] = v}

ProbeOf(v) == [version |-> v, at |-> "running"]

\* The question a verdict puts to the operator
KindOf(c) ==
  CASE c.status = "missing" /\ c.version \notin overridden -> "missing"
    [] SpentRetries(c) -> "unverified"
    [] OTHER -> "none"

\* The dedupe key of a question: one version may be asked about twice.
VersionKey(v, k) == v
RequestKey(v, k) == <<v, k>>

\* ensureMuseCapabilityEscalation on issue i
EnsureAsked(c, i) ==
  LET k == KindOf(c)
      isOpen == \E a \in asks : RequestKey(a.version, a.kind) = RequestKey(c.version, k)
      isAcked == \E d \in acked : RequestKey(d[1], d[2]) = RequestKey(c.version, k)
  IN /\ asks' = IF k = "none" \/ isOpen \/ isAcked THEN asks
                ELSE asks \cup {[version |-> c.version, kind |-> k, issue |-> i]}
     /\ overridden' = IF k = "missing" /\ ~isOpen /\ isAcked
                      THEN overridden \cup {c.version} ELSE overridden

-----------------------------------------------------------------------------
(* The probe                                                               *)

\* Errors in a row are counted, here no further than to exhaustion; any other
\* verdict starts the count anew.
ErrorsInARow(c) == IF SpentRetries(c) THEN c.attempts ELSE c.attempts + 1
VerdictOn(v, result) ==
  [version |-> v, status |-> result, aged |-> FALSE,
   attempts |-> IF result = "error" THEN ErrorsInARow(checked) ELSE 0]

\* The version reported meanwhile is another one: the verdict is dropped.
ProbeOutdated ==
  /\ probe.at = "running" /\ reported # probe.version
  /\ probe' = [probe EXCEPT !.at = "settling"]
  /\ UNCHANGED <<diskVars, fileVars, watchers, askVars, answer, reads>>

\* The session ended, and the binary must still be the one that was probed.  A
\* bad verdict is put to the operator on an issue that waits for it.
ProbeAnswers(result) ==
  LET c == VerdictOn(probe.version, result)
      owed == {w \in watchers : w[1] = probe.version}
  IN /\ probe.at = "running" /\ reported = probe.version
     /\ result # "error" => installed = probe.version
     /\ probe' = [probe EXCEPT !.at = "settling"]
     /\ checked' = c
     /\ confirmed' = IF result = "capable" THEN probe.version ELSE confirmed
     /\ watchers' = CASE result = "capable" -> {}
                      [] result = "missing" \/ SpentRetries(c) -> watchers \ owed
                      [] OTHER -> watchers
     /\ IF (result = "missing" \/ SpentRetries(c)) /\ owed # {}
        THEN \E w \in owed : EnsureAsked(c, w[2])
        ELSE UNCHANGED <<asks, overridden>>
     /\ UNCHANGED <<diskVars, reported, acked, decided, answer, reads>>

ProbeFor(v) == IF probe = NoProbe THEN ProbeOf(v) ELSE probe

\* The finally block: the next probe, for a version reported in the meantime,
\* and the hook that drops the cached health.
ProbeSettles ==
  /\ probe.at = "settling"
  /\ probe' = IF reported # probe.version /\ CheckDue(checked)
              THEN ProbeOf(reported) ELSE NoProbe
  /\ answer' = NoAnswer
  /\ reads' = [r \in MuseReader |->
       IF reads[r].at = "idle" THEN Idle ELSE [reads[r] EXCEPT !.spans = TRUE]]
  /\ UNCHANGED <<diskVars, fileVars, watchers, askVars>>

\* The back-off delay of an inconclusive check has passed.
RetryComesDue ==
  /\ checked.status = "error" /\ ~checked.aged
  /\ checked' = [checked EXCEPT !.aged = TRUE]
  /\ UNCHANGED <<diskVars, confirmed, reported, overridden, probe, watchers,
                 askVars, answer, reads>>

-----------------------------------------------------------------------------
(* The health read: runtimeIssues                                          *)

\* Nothing cached: `muse --version` is spawned, and sees what is on disk.
ReadStarts(r) ==
  /\ reads[r] = Idle /\ answer = NoAnswer
  /\ reads' = [reads EXCEPT ![r] =
       [at |-> "asked", version |-> installed, blocks |-> FALSE, spans |-> FALSE]]
  /\ UNCHANGED <<diskVars, fileVars, probe, watchers, askVars, answer>>

\* museCapabilityIssues, possibly after a read that was started later
ReadAnswers(r) ==
  LET v == reads[r].version
  IN /\ reads[r].at = "asked" /\ ~Draining
     /\ reported' = v /\ checked' = CheckFor(v) /\ watchers' = WatchersFor(v)
     /\ probe' = IF CheckDue(CheckFor(v)) THEN ProbeFor(v) ELSE probe
     /\ reads' = [reads EXCEPT ![r].at = "answered", ![r].blocks = GateBlocks(CheckFor(v))]
     /\ UNCHANGED <<diskVars, confirmed, overridden, askVars, answer>>

NeverSuperseded(r) == FALSE
Superseded(r) == reads[r].spans

\* A check settled during the read: it is read anew.
ReadCaches(r) ==
  /\ reads[r].at = "answered"
  /\ answer' = IF Superseded(r) THEN answer
               ELSE [version |-> reads[r].version, blocks |-> reads[r].blocks]
  /\ reads' = [reads EXCEPT ![r] = Idle]
  /\ UNCHANGED <<diskVars, fileVars, probe, watchers, askVars>>

BlockAgesOut(a) == a.blocks
AgesOut(a) == a # NoAnswer

\* RUNTIME_CACHE_MS, whatever was found
AnswerExpires ==
  /\ AgesOut(answer)
  /\ answer' = NoAnswer
  /\ UNCHANGED <<diskVars, fileVars, probe, watchers, askVars, reads>>

-----------------------------------------------------------------------------
(* Sessions, admission and the operator                                    *)

\* museCapabilitySafetyNetAfterSession: a session of issue i ended with changes
\* and without one shell call.
SafetyNet(i) ==
  LET v == installed
      c == CheckFor(v)
  IN /\ ~Draining
     /\ reported' = v /\ checked' = c
     /\ IF confirmed = v
        THEN /\ watchers' = WatchersFor(v)
             /\ UNCHANGED <<overridden, probe, asks>>
        ELSE IF c.status = "missing"
        THEN /\ watchers' = WatchersFor(v) /\ EnsureAsked(c, i)
             /\ UNCHANGED probe
        ELSE /\ watchers' = WatchersFor(v) \cup {<<v, i>>}
             /\ probe' = ProbeFor(v)
             /\ UNCHANGED <<overridden, asks>>
     /\ UNCHANGED <<diskVars, confirmed, acked, decided, answer, reads>>

\* checkRoleAgentHealthy, after every health check of a developer
AdmissionAsks(i) ==
  /\ checked # NoCheck
  /\ EnsureAsked(checked, i)
  /\ UNCHANGED <<diskVars, confirmed, reported, checked, probe, watchers, acked,
                 decided, answer, reads>>

\* The override goes to the file first, then the row is resolved.
Overridden(a) ==
  IF a.kind = "missing" THEN overridden \cup {a.version} ELSE overridden

MayAcknowledge(a) ==
  ~Draining /\ (<<a.version, a.kind>> \in decided \/ Cardinality(decided) < MaxAcks)

Acknowledge(a) ==
  /\ MayAcknowledge(a)
  /\ overridden' = Overridden(a)
  /\ answer' = NoAnswer
  /\ asks' = asks \ {a}
  /\ acked' = acked \cup {<<a.version, a.kind>>}
  /\ decided' = decided \cup {<<a.version, a.kind>>}
  /\ UNCHANGED <<diskVars, confirmed, reported, checked, probe, watchers, reads>>

\* An abort or a close of the issue resolves its actions without a choice.
IssueEnds(i) ==
  /\ \E a \in asks : a.issue = i
  /\ asks' = {a \in asks : a.issue # i}
  /\ UNCHANGED <<diskVars, fileVars, probe, watchers, acked, decided, answer, reads>>

\* Everything but the file and the database is forgotten.
ForgetAll ==
  /\ probe' = NoProbe /\ watchers' = {} /\ answer' = NoAnswer
  /\ reads' = [r \in MuseReader |-> Idle]

MuseCrash ==
  /\ ForgetAll
  /\ UNCHANGED <<diskVars, fileVars, askVars>>

\* The process dies with the override on file and the row not yet resolved.
AcknowledgeCrashes(a) ==
  /\ MayAcknowledge(a)
  /\ overridden' = Overridden(a)
  /\ decided' = decided \cup {<<a.version, a.kind>>}
  /\ ForgetAll
  /\ UNCHANGED <<diskVars, confirmed, reported, checked, asks, acked>>

\* An update, or a rollback
BinaryChanges(v) ==
  /\ v # installed /\ updates < MaxUpdates
  /\ installed' = v /\ updates' = updates + 1
  /\ UNCHANGED <<fileVars, probe, watchers, askVars, answer, reads>>

-----------------------------------------------------------------------------
ProbeStep == ProbeOutdated \/ (\E result \in Result : ProbeAnswers(result)) \/ ProbeSettles
ReadStep(r) == ReadStarts(r) \/ ReadAnswers(r) \/ ReadCaches(r)

MuseNext ==
  \/ ProbeStep \/ RetryComesDue \/ AnswerExpires
  \/ \E r \in MuseReader : ReadStep(r)
  \/ \E i \in MuseIssue : SafetyNet(i) \/ AdmissionAsks(i) \/ IssueEnds(i)
  \/ \E a \in asks : Acknowledge(a) \/ AcknowledgeCrashes(a)
  \/ MuseCrash
  \/ \E v \in MuseVersion : BinaryChanges(v)

MuseSpec == MuseInit /\ [][MuseNext]_museVars

\* Agents' health is asked for again and again (every admission tick, every open
\* page), cached health ages, a probe ends at its timeout at the latest, and the
\* server does not crash for ever.
AnyCrash == MuseCrash \/ \E a \in asks : AcknowledgeCrashes(a)
MuseFairness ==
  /\ WF_museVars(ProbeStep) /\ WF_museVars(AnswerExpires)
  /\ \A r \in MuseReader : WF_museVars(ReadStep(r))
  /\ <>[][~AnyCrash]_museVars

-----------------------------------------------------------------------------
\* The gate decides on the version that is reported: no verdict about another
\* one is on file, and cached health of that version says what the gate says
\* now, unless a check is under way whose end will drop it (museCapabilityIssues,
\* startCheck, runtimeIssues).  A verdict that lands while health is being
\* read, an acknowledgement and overlapping reads must all leave it so.
MuseGateIsCurrent ==
  /\ checked # NoCheck => checked.version = reported
  /\ answer # NoAnswer /\ answer.version = reported /\ probe = NoProbe =>
       (answer.blocks <=> GateBlocks(checked))

\* One question per version and verdict, on one issue, never asked again once
\* acknowledged; and a lost capability is overridden only by an operator who was
\* asked about exactly that: not by dismissing "could not verify", and not by
\* the abort of the issue that carried the question.
OverrideWasDecided ==
  /\ \A v \in overridden : <<v, "missing">> \in decided
  /\ \A a, b \in asks : a.version = b.version /\ a.kind = b.kind => a = b
  /\ \A a \in asks : <<a.version, a.kind>> \notin acked

\* Whatever is updated, rolled back, read late or crashed meanwhile, the version
\* on disk never stays without a verdict of its own for ever.
InstalledIsChecked == []<>(checked # NoCheck /\ checked.version = installed)
=============================================================================
