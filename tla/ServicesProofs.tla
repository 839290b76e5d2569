--------------------------- MODULE ServicesProofs ---------------------------
(***************************************************************************)
(* MCServices explores one of eight components at a time.  That is no less *)
(* than each component's own specification: every behaviour of the sum is  *)
(* a behaviour of each part, so whatever is proved of a part holds in the  *)
(* sum, the types first.                                                   *)
(***************************************************************************)
EXTENDS MCServices, AdmissionProofs, ProcessProofs, PullRequestProofs

\* A step of the sum is a step of one part and stutters in every other.
LEMMA SumStep ==
  ASSUME [SvcNext]_svcVars
  PROVE  /\ [AdmNext]_admVars /\ [BlkNext]_blkVars /\ [SpawnNext]_spawnVars
         /\ [AwakeNext]_awakeVars /\ [PidNext]_pidVars /\ [SyncNext]_syncVars
         /\ [PubNext]_pubVars /\ [MuseNext]_museVars
BY Zenon DEF SvcNext, svcVars

LEMMA SumInit ==
  SvcInit => /\ AdmInit /\ BlkInit /\ SpawnInit /\ AwakeInit
             /\ PidInit /\ SyncInit /\ PubInit /\ MuseInit
BY DEF SvcInit

\* Each component keeps its specification in the sum (the fairness aside).
THEOREM PartsKeepTheirSpecs ==
  SvcSpec => /\ AdmSpec /\ BlkSpec /\ SpawnSpec /\ AwakeSpec
             /\ PidSpec /\ SyncSpec /\ PubSpec /\ MuseSpec
<1>1. [SvcNext]_svcVars =>
         /\ [AdmNext]_admVars /\ [BlkNext]_blkVars /\ [SpawnNext]_spawnVars
         /\ [AwakeNext]_awakeVars /\ [PidNext]_pidVars /\ [SyncNext]_syncVars
         /\ [PubNext]_pubVars /\ [MuseNext]_museVars
  BY SumStep
<1> QED
  BY SumInit, <1>1, PTL DEF SvcSpec, AdmSpec, BlkSpec, SpawnSpec, AwakeSpec, PidSpec,
                            SyncSpec, PubSpec, MuseSpec

\* Every variable of the eight components has its type, for any constants.
THEOREM ServicesTypesHold == SvcSpec => []ServicesTypeOK
<1>1. ASSUME AdmTypeOK, BlkTypeOK, SpawnTypeOK, AwakeTypeOK,
             PidTypeOK, SyncTypeOK, PubTypeOK, MuseTypeOK
      PROVE  ServicesTypeOK
  BY <1>1 DEF ServicesTypeOK
<1> QED
  BY PartsKeepTheirSpecs, AdmTypeCorrect, OneFetchAtATime, SpawnTypeCorrect,
     AwakeTypeCorrect, PidTypeCorrect, SyncTypeCorrect, PubTypeCorrect,
     MuseTypeCorrect, <1>1, PTL

\* What the run over the sum checks of each component is what is proved of the
\* component; only the two liveness properties are the run's alone.
THEOREM ServicesAreSafe ==
  SvcSpec => /\ [](SlotsAccounted /\ AwakeMatchesWork /\ TakeoverExclusive)
             /\ [](ReviewIsTheVerdict /\ MuseGateIsCurrent /\ OverrideWasDecided)
             /\ NoDoomedStart /\ ImplementsSlotPool /\ DequeueHolds /\ SyncAddsOnlyBase
BY PartsKeepTheirSpecs, SlotsAlwaysAccounted, AwakeAlwaysMatchesWork,
   TakeoverAlwaysExclusive, ReviewIsAlwaysTheVerdict, GateAlwaysCurrent,
   OverrideAlwaysDecided, NoStartIsDoomed, AdmissionImplementsSlotPool,
   DequeueHoldsAlways, SyncAlwaysAddsOnlyBase, PTL
=============================================================================
