-------------------------- MODULE SourceAttachments --------------------------
(***************************************************************************)
(* coordinator/source-reload.ts over coordinator/source-attachments.ts:    *)
(* the files of a Linear ticket as Dealer keeps them for one issue.  The   *)
(* rows name blobs, the blobs lie in a directory at paths made of issue,   *)
(* hash and name, and a workflow freezes the rows into a manifest that     *)
(* every attempt copies its inputs from.  A reload downloads first, reads  *)
(* the rows before that await, and does everything after it - store, swap  *)
(* the rows, prune - in one turn, which only a crash cuts short.           *)
(*                                                                         *)
(* A blob stands for its path.  Title, text and contract of the task are   *)
(* swapped with the rows; external links have no bytes: both are left out. *)
(***************************************************************************)
EXTENDS Integers, FiniteSets

CONSTANTS
  SrcBlob,     \* the files the ticket may have
  MaxReloads   \* bound on the reloads

ASSUME SourceAssumption == MaxReloads \in Nat \ {0}

VARIABLES
  stage,       \* "ready", "working", "parked" in scope, "ended", "deleted"
  liveRows,    \* blobs of issue_source_attachments
  frozenRows,  \* blobs of the latest task snapshot
  blobFile,    \* [SrcBlob -> "absent", "whole" or "torn"]
  reload,      \* [Reload -> where it stands, the rows it read, what it staged]
  undercut     \* a reload was refused after other reloads changed its rows

srcVars == <<stage, liveRows, frozenRows, blobFile, reload, undercut>>

SrcReload == 1..MaxReloads
NotAsked == [at |-> "idle", prev |-> {}, next |-> {}]
Refused == [NotAsked EXCEPT !.at = "over"]

SrcTypeOK ==
  /\ stage \in {"ready", "working", "parked", "ended", "deleted"}
  /\ liveRows \in SUBSET SrcBlob /\ frozenRows \in SUBSET SrcBlob
  /\ blobFile \in [SrcBlob -> {"absent", "whole", "torn"}]
  /\ reload \in [SrcReload -> [at : {"idle", "fetching", "staging", "over"},
                              prev : SUBSET SrcBlob, next : SUBSET SrcBlob]]
  /\ undercut \in BOOLEAN

Whole == {b \in SrcBlob : blobFile[b] = "whole"}
Torn == {b \in SrcBlob : blobFile[b] = "torn"}

\* an import commits its rows with the blobs in place
SrcInit ==
  /\ stage = "ready"
  /\ liveRows \in SUBSET SrcBlob /\ frozenRows = {}
  /\ blobFile = [b \in SrcBlob |-> IF b \in liveRows THEN "whole" ELSE "absent"]
  /\ reload = [r \in SrcReload |-> NotAsked]
  /\ undercut = FALSE

-----------------------------------------------------------------------------
(* The workflow *)

\* startWorkflowCore
FreezeAtStart ==
  /\ stage = "ready"
  /\ stage' = "working" /\ frozenRows' = liveRows
  /\ UNCHANGED <<liveRows, blobFile, reload, undercut>>

\* an open product_scope_decision, nothing running or queued
ParkInScope ==
  /\ stage = "working"
  /\ stage' = "parked"
  /\ UNCHANGED <<liveRows, frozenRows, blobFile, reload, undercut>>

\* refreshTaskSnapshotIfEdited, with the next item queued
ResumeRefrozen ==
  /\ stage = "parked"
  /\ stage' = "working" /\ frozenRows' = liveRows
  /\ UNCHANGED <<liveRows, blobFile, reload, undercut>>

EndOfWorkflow ==
  /\ stage \in {"working", "parked"}
  /\ stage' = "ended"
  /\ UNCHANGED <<liveRows, frozenRows, blobFile, reload, undercut>>

\* deleteDealerIssue: the rows, then the directory
DeleteWithBlobs ==
  /\ stage \in {"ready", "ended"}
  /\ stage' = "deleted" /\ liveRows' = {} /\ frozenRows' = {}
  /\ blobFile' = [b \in SrcBlob |-> "absent"]
  /\ UNCHANGED <<reload, undercut>>

-----------------------------------------------------------------------------
(* Reloads *)

InstanceActive == stage \in {"working", "parked"}

\* reloadConflict
ReloadAllowed == stage \in {"ready", "parked"}

AskReload(r) ==
  /\ reload[r].at = "idle" /\ \A q \in SrcReload : q < r => reload[q].at # "idle"
  /\ ReloadAllowed
  /\ reload' = [reload EXCEPT ![r].at = "fetching"]
  /\ UNCHANGED <<stage, liveRows, frozenRows, blobFile, undercut>>

\* the ticket is here: the rows are read, the downloads begin
TicketArrives(r) ==
  /\ reload[r].at = "fetching"
  /\ \E n \in SUBSET SrcBlob :
       reload' = [reload EXCEPT ![r] =
                    [at |-> "staging", prev |-> liveRows, next |-> n]]
  /\ UNCHANGED <<stage, liveRows, frozenRows, blobFile, undercut>>

\* no ticket, no contract in it, or a download that failed
ReloadGivesUp(r) ==
  /\ reload[r].at \in {"fetching", "staging"}
  /\ reload' = [reload EXCEPT ![r] = Refused]
  /\ UNCHANGED <<stage, liveRows, frozenRows, blobFile, undercut>>

\* the directory with blobs put in and taken out; what is there stays
Stored(put) == [b \in SrcBlob |-> IF b \in put THEN "whole" ELSE blobFile[b]]
Pruned(files, out) == [b \in SrcBlob |-> IF b \in out THEN "absent" ELSE files[b]]

\* storeStagedAttachments: what occupies a path must have its hash
InTheWay(n) == n \cap Torn

\* the store throws at the first blob of which a torn copy lies there
StoreFails(r) ==
  LET n == reload[r].next IN
  /\ reload[r].at = "staging" /\ InTheWay(n) # {}
  /\ \E put \in SUBSET (n \ Torn) : blobFile' = Stored(put)
  /\ reload' = [reload EXCEPT ![r] = Refused]
  /\ UNCHANGED <<stage, liveRows, frozenRows, undercut>>

\* Mutated: the snapshot of a parked workflow is not looked at.
RowsOnly(n) == n

\* what the rows or the snapshot of an active workflow still list
StillListed(n) == n \cup (IF InstanceActive THEN frozenRows ELSE {})

ReloadCommits(r) ==
  LET n == reload[r].next IN
  /\ reload[r].at = "staging" /\ InTheWay(n) = {}
  /\ ReloadAllowed
  /\ liveRows' = n
  /\ blobFile' = Pruned(Stored(n \ Torn), reload[r].prev \ StillListed(n))
  /\ reload' = [reload EXCEPT ![r] = Refused]
  /\ UNCHANGED <<stage, frozenRows, undercut>>

\* the transaction refuses: the workflow went on, or the issue is gone
ReloadConflicts(r) ==
  LET n == reload[r].next IN
  /\ reload[r].at = "staging" /\ InTheWay(n) = {}
  /\ ~ReloadAllowed
  /\ blobFile' = Pruned(Stored(n), n \ reload[r].prev)
  /\ undercut' = (undercut \/ reload[r].prev # liveRows)
  /\ reload' = [reload EXCEPT ![r] = Refused]
  /\ UNCHANGED <<stage, liveRows, frozenRows>>

\* The server dies: between turns; or while r stores, leaving one copy torn;
\* or with r committed and nothing pruned.
SrcCrash ==
  /\ \E r \in SrcReload : reload[r].at \in {"fetching", "staging"}
  /\ \/ UNCHANGED <<liveRows, blobFile>>
     \/ \E r \in SrcReload :
          LET n == reload[r].next IN
          /\ reload[r].at = "staging"
          /\ \/ \E b \in n \ (Whole \cup Torn), put \in SUBSET (n \ Torn) :
                  /\ blobFile' = [Stored(put) EXCEPT ![b] = "torn"]
                  /\ UNCHANGED liveRows
             \/ /\ InTheWay(n) = {} /\ blobFile' = Stored(n)
                /\ liveRows' \in {liveRows} \cup (IF ReloadAllowed THEN {n} ELSE {})
  /\ reload' = [r \in SrcReload |-> IF reload[r].at = "idle" THEN NotAsked ELSE Refused]
  /\ UNCHANGED <<stage, frozenRows, undercut>>

SrcNext ==
  \/ FreezeAtStart \/ ParkInScope \/ ResumeRefrozen \/ EndOfWorkflow
  \/ DeleteWithBlobs \/ SrcCrash
  \/ \E r \in SrcReload :
       \/ AskReload(r) \/ TicketArrives(r) \/ ReloadGivesUp(r)
       \/ StoreFails(r) \/ ReloadCommits(r) \/ ReloadConflicts(r)

SrcSpec == SrcInit /\ [][SrcNext]_srcVars

-----------------------------------------------------------------------------
(* Properties *)

\* What a workflow has frozen, and what the next one would freeze, is there
\* byte for byte (materializeSourceAttachments fails closed on less), through
\* reloads that overlap, are refused or die in the middle - unless a reload
\* was refused that had read its rows before another one changed them.
InputsAreWhole ==
  ~undercut =>
    /\ liveRows \subseteq Whole
    /\ InstanceActive => frozenRows \subseteq Whole

\* source-reload.ts:227-231, of a refused reload: the prior snapshot is intact.
RefusedReloadSpares == InstanceActive => frozenRows \subseteq Whole
=============================================================================
