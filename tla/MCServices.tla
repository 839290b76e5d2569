----------------------------- MODULE MCServices ------------------------------
(***************************************************************************)
(* The components that share no state with each other, model-checked in    *)
(* one run.  The state space is their sum, not their product: a behaviour  *)
(* picks one component in its first state and runs that component only,    *)
(* the others staying where they start.  Interleaving two components that  *)
(* have no variable in common reaches no new state of either.              *)
(***************************************************************************)
EXTENDS Admission, Blockers, SpawnSlots, HostAwake, PidMarker,
        ConflictSync, ReviewPublication, MuseCapability

VARIABLE part

Parts == {"admission", "blockers", "spawn", "awake", "pid", "sync",
          "review", "muse"}

svcVars == <<part, admVars, blkVars, spawnVars, awakeVars, pidVars,
             syncVars, pubVars, museVars>>

\* The first state of a component that is not explored
AdmRests == issueStatus = [i \in AdmIssue |-> "ready"] /\ decisions = {} /\ limit = 1
BlkRests ==
  /\ edges = [d \in Dependent |-> [t \in Ticket |-> -1]]
  /\ passes = [t \in Ticket |-> {}]
PidRests == marker = Nobody
MuseRests == checked # NoCheck

\* The versions are interchangeable: any one stands for all of them.
FirstInstalled == CHOOSE v \in MuseVersion : TRUE

SvcInit ==
  /\ part \in Parts
  /\ AdmInit /\ (part # "admission" => AdmRests)
  /\ BlkInit /\ (part # "blockers" => BlkRests)
  /\ SpawnInit
  /\ AwakeInit
  /\ PidInit /\ (part # "pid" => PidRests)
  /\ SyncInit
  /\ PubInit
  /\ MuseInit /\ installed = FirstInstalled /\ (part # "muse" => MuseRests)

SvcNext ==
  /\ UNCHANGED part
  /\ \/ /\ part = "admission" /\ AdmNext
        /\ UNCHANGED <<blkVars, spawnVars, awakeVars, pidVars, syncVars, pubVars, museVars>>
     \/ /\ part = "blockers" /\ BlkNext
        /\ UNCHANGED <<admVars, spawnVars, awakeVars, pidVars, syncVars, pubVars, museVars>>
     \/ /\ part = "spawn" /\ SpawnNext
        /\ UNCHANGED <<admVars, blkVars, awakeVars, pidVars, syncVars, pubVars, museVars>>
     \/ /\ part = "awake" /\ AwakeNext
        /\ UNCHANGED <<admVars, blkVars, spawnVars, pidVars, syncVars, pubVars, museVars>>
     \/ /\ part = "pid" /\ PidNext
        /\ UNCHANGED <<admVars, blkVars, spawnVars, awakeVars, syncVars, pubVars, museVars>>
     \/ /\ part = "sync" /\ SyncNext
        /\ UNCHANGED <<admVars, blkVars, spawnVars, awakeVars, pidVars, pubVars, museVars>>
     \/ /\ part = "review" /\ PubNext
        /\ UNCHANGED <<admVars, blkVars, spawnVars, awakeVars, pidVars, syncVars, museVars>>
     \/ /\ part = "muse" /\ MuseNext
        /\ UNCHANGED <<admVars, blkVars, spawnVars, awakeVars, pidVars, syncVars, pubVars>>

\* MuseFairness where that part runs; none of admission's fair actions changes
\* anything while it is at rest.
SvcFairness ==
  /\ AdmFairness
  /\ WF_museVars(part = "muse" /\ ProbeStep) /\ WF_museVars(part = "muse" /\ AnswerExpires)
  /\ \A r \in MuseReader : WF_museVars(part = "muse" /\ ReadStep(r))
  /\ <>[][~AnyCrash]_museVars

SvcSpec == SvcInit /\ [][SvcNext]_svcVars /\ SvcFairness

ServicesTypeOK ==
  /\ AdmTypeOK /\ BlkTypeOK /\ SpawnTypeOK /\ AwakeTypeOK /\ PidTypeOK
  /\ SyncTypeOK /\ PubTypeOK /\ MuseTypeOK
=============================================================================
