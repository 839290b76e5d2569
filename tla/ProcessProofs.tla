---------------------------- MODULE ProcessProofs ----------------------------
(***************************************************************************)
(* The components that look after processes: the sleep guard around        *)
(* caffeinate, for any number of children and holds, the pid marker, for   *)
(* any number of claimants, the spawn semaphore, for any number of runs    *)
(* and any MAX_CONCURRENT_RUNS, and the capability gate of an agent CLI,   *)
(* for any number of its versions.                                         *)
(***************************************************************************)
EXTENDS HostAwake, PidMarker, SpawnSlots, MuseCapability, FiniteSetTheorems, TLAPS

\* AwakeMatchesWork is inductive with the types; MaxHolds, the bound of the
\* exploration, may be anything.
AwakeShape ==
  /\ holds \in Nat
  /\ caffeinate \in Caffeinate \cup {NoCaffeinate}
  /\ childState \in [Caffeinate -> ChildStates]

AwakeInv == AwakeShape /\ AwakeMatchesWork

LEMMA AwakeInitInv == AwakeInit => AwakeInv
BY DEF AwakeInit, AwakeInv, AwakeShape, AwakeMatchesWork, ChildStates

\* ensureChild with h holds: no child but k is alive in s, h = 0 leaves no
\* child, and a child missing for no reason is spawned.
LEMMA EnsureChildInv ==
  ASSUME NEW h \in Nat, NEW k \in Caffeinate \cup {NoCaffeinate},
         NEW s \in [Caffeinate -> ChildStates],
         \A c \in Caffeinate : s[c] = "alive" => k = c,
         h = 0 => k = NoCaffeinate,
         holds' = h, EnsureChild(h, k, s)
  PROVE  AwakeInv'
<1>1. CASE h = 0 \/ k # NoCaffeinate
  BY <1>1 DEF EnsureChild, AwakeInv, AwakeShape, AwakeMatchesWork
<1>2. CASE h # 0 /\ k = NoCaffeinate
  <2>1. PICK c \in Caffeinate, born \in {"alive", "failed", "errored"} :
          /\ s[c] = "unborn"
          /\ caffeinate' = IF born = "errored" THEN NoCaffeinate ELSE c
          /\ childState' = [s EXCEPT ![c] = born]
    BY <1>2 DEF EnsureChild
  <2>2. \A d \in Caffeinate : s[d] # "alive"
    BY <1>2, AwakeAssumption
  <2>3. AwakeShape'
    BY <2>1 DEF AwakeShape, ChildStates
  <2>4. \A d \in Caffeinate : childState'[d] = "alive" => caffeinate' = d
    BY <2>1, <2>2
  <2>5. caffeinate' = NoCaffeinate => childState'[c] = "errored"
    BY <2>1, AwakeAssumption
  <2>. QED
    BY <1>2, <2>3, <2>4, <2>5 DEF AwakeInv, AwakeMatchesWork
<1>. QED
  BY <1>1, <1>2

LEMMA StopChildInv ==
  ASSUME AwakeInv, StopChild, holds' = 0
  PROVE  AwakeInv'
<1>1. AwakeShape'
  BY DEF AwakeInv, AwakeShape, StopChild, ChildStates
<1>2. \A c \in Caffeinate : childState'[c] # "alive"
  BY DEF AwakeInv, AwakeShape, AwakeMatchesWork, StopChild
<1>. QED
  BY <1>1, <1>2 DEF AwakeInv, AwakeMatchesWork, StopChild

LEMMA AwakeNextInv ==
  ASSUME AwakeInv, [AwakeNext]_awakeVars
  PROVE  AwakeInv'
<1>1. CASE AcquireHold
  <2>1. holds + 1 \in Nat /\ holds + 1 # 0
    BY DEF AwakeInv, AwakeShape
  <2>. QED
    BY <1>1, <2>1, EnsureChildInv DEF AcquireHold, AwakeInv, AwakeShape, AwakeMatchesWork
<1>2. CASE ReleaseHold
  <2>1. CASE holds > 1
    BY <1>2, <2>1 DEF ReleaseHold, AwakeInv, AwakeShape, AwakeMatchesWork
  <2>2. CASE ~(holds > 1)
    BY <1>2, <2>2, StopChildInv DEF ReleaseHold, AwakeInv, AwakeShape
  <2>. QED
    BY <2>1, <2>2
<1>3. CASE ReleaseAllHolds
  BY <1>3, StopChildInv DEF ReleaseAllHolds
<1>4. ASSUME NEW c \in Caffeinate, ChildDies(c)
      PROVE  AwakeInv'
  BY <1>4 DEF ChildDies, AwakeInv, AwakeShape, AwakeMatchesWork, ChildStates
<1>5. ASSUME NEW c \in Caffeinate, OnExit(c)
      PROVE  AwakeInv'
  <2> DEFINE s == [childState EXCEPT ![c] = "gone"]
  <2>1. /\ s \in [Caffeinate -> ChildStates]
        /\ Forgotten(c) \in Caffeinate \cup {NoCaffeinate}
        /\ holds \in Nat
    BY DEF AwakeInv, AwakeShape, ChildStates, Forgotten
  <2>2. \A d \in Caffeinate : s[d] = "alive" => Forgotten(c) = d
    BY <1>5 DEF OnExit, AwakeInv, AwakeShape, AwakeMatchesWork, Forgotten
  <2>3. holds = 0 => Forgotten(c) = NoCaffeinate
    BY DEF AwakeInv, AwakeMatchesWork, Forgotten
  <2>4. holds' = holds /\ EnsureChild(holds, Forgotten(c), s)
    BY <1>5 DEF OnExit
  <2>. HIDE DEF s
  <2>. QED
    BY <2>1, <2>2, <2>3, <2>4, EnsureChildInv
<1>6. ASSUME NEW c \in Caffeinate, OnError(c)
      PROVE  AwakeInv'
  BY <1>6 DEF OnError, Forgotten, AwakeInv, AwakeShape, AwakeMatchesWork, ChildStates
<1>7. CASE UNCHANGED awakeVars
  BY <1>7 DEF awakeVars, AwakeInv, AwakeShape, AwakeMatchesWork
<1>. QED
  BY <1>1, <1>2, <1>3, <1>4, <1>5, <1>6, <1>7 DEF AwakeNext

\* The host is kept awake by the guard's own child and only while there is
\* work, however late the exit and error events of earlier children arrive.
THEOREM AwakeAlwaysMatchesWork == AwakeSpec => []AwakeMatchesWork
<1>1. AwakeInv /\ [AwakeNext]_awakeVars => AwakeInv'
  BY AwakeNextInv
<1>2. AwakeInv => AwakeMatchesWork
  BY DEF AwakeInv
<1>. QED
  BY AwakeInitInv, <1>1, <1>2, PTL DEF AwakeSpec

\* The count never goes below zero, through any releases after a shutdown.
THEOREM AwakeTypeCorrect == AwakeSpec => []AwakeTypeOK
<1>1. AwakeInit => holds \in 0..MaxHolds
  BY AwakeAssumption DEF AwakeInit
<1>2. AwakeInv /\ holds \in 0..MaxHolds /\ [AwakeNext]_awakeVars => (holds \in 0..MaxHolds)'
  <2>. SUFFICES ASSUME holds \in 0..MaxHolds, [AwakeNext]_awakeVars
                PROVE  holds' \in 0..MaxHolds
    OBVIOUS
  <2>1. \/ holds' = holds
        \/ holds < MaxHolds /\ holds' = holds + 1
        \/ holds > 0 /\ holds' = holds - 1
        \/ holds' = 0
    BY Zenon DEF AwakeNext, AcquireHold, ReleaseHold, ReleaseAllHolds, ChildDies,
                 OnExit, OnError, awakeVars
  <2>. QED
    BY <2>1, AwakeAssumption
<1>3. AwakeInv /\ [AwakeNext]_awakeVars => AwakeInv'
  BY AwakeNextInv
<1>4. AwakeInv /\ holds \in 0..MaxHolds => AwakeTypeOK
  BY DEF AwakeInv, AwakeShape, AwakeTypeOK
<1>. QED
  BY AwakeInitInv, <1>1, <1>2, <1>3, <1>4, PTL DEF AwakeSpec

-----------------------------------------------------------------------------
(* The marker.  While the file is in place, who owns it is named in it,    *)
(* and only the holder of the arbiter's lock empties and rewrites it.      *)

\* the lock is with whoever is past it
LockHeld == \A p \in Proc : At(p, "locked") => arbiter = p

InPlace ==
  /\ marker # Nobody
  /\ \A p \in Proc : procAt[p] # "created"
  /\ \A p \in Proc : Owns(p) => marker = p
  /\ \A p \in Proc : At(p, "truncated") => marker = Unreadable /\ arbiter = p

PidInv == PidTypeOK /\ LockHeld /\ (~vacated => InPlace)

LEMMA PidInitInv == PidInit => PidInv
BY PidAssumption DEF PidInit, PidInv, PidTypeOK, ProcPlaces, LockHeld, InPlace, At, Owns

\* Types, step by step.
LEMMA PidNextType ==
  ASSUME PidTypeOK, PidNext
  PROVE  PidTypeOK'
<1>. PICK p \in Proc :
       \/ CreateMarker(p) \/ WriteMarker(p) \/ LookAtOwner(p)
       \/ LockArbiter(p) \/ ArbiterBusy(p) \/ Recheck(p)
       \/ LookBeforeRelease(p) \/ UnlinkMarker(p) \/ CrashProc(p)
  BY DEF PidNext
<1>. USE DEF PidTypeOK, ProcPlaces, MovesTo
<1>1. CASE CreateMarker(p)
  BY <1>1 DEF CreateMarker
<1>2. CASE WriteMarker(p)
  BY <1>2 DEF WriteMarker
<1>3. CASE LookAtOwner(p)
  BY <1>3 DEF LookAtOwner
<1>4. CASE LockArbiter(p) \/ ArbiterBusy(p)
  BY <1>4 DEF LockArbiter, ArbiterBusy
<1>5. CASE Recheck(p)
  BY <1>5 DEF Recheck
<1>6. CASE LookBeforeRelease(p) \/ UnlinkMarker(p)
  BY <1>6 DEF LookBeforeRelease, UnlinkMarker
<1>7. CASE CrashProc(p)
  BY <1>7 DEF CrashProc
<1>. QED
  BY <1>1, <1>2, <1>3, <1>4, <1>5, <1>6, <1>7

\* What a step of p leaves alone: the places of the others, and their lives
\* (a crash only takes p out).
LEMMA OthersStay ==
  ASSUME PidTypeOK, NEW p \in Proc, NEW s,
         MovesTo(p, s), crashed' = crashed
  PROVE  /\ \A q \in Proc : \A r : q # p => (At(q, r)' <=> At(q, r))
         /\ \A r : At(p, r)' => r = s
BY DEF PidTypeOK, MovesTo, At

\* The file stays in place when p goes on without touching it, keeps or drops
\* the lock only if it is its own, and owns it only when it is named.
LEMMA StaysInPlace ==
  ASSUME PidTypeOK, InPlace, NEW p \in Proc, NEW s,
         MovesTo(p, s), s \notin {"created", "truncated"},
         s \in {"claimed", "releasing"} => marker = p,
         UNCHANGED <<marker, crashed>>,
         \A q \in Proc : q # p /\ At(q, "truncated") => arbiter' = q
  PROVE  InPlace'
<1>1. \A q \in Proc : procAt'[q] # "created"
  BY DEF InPlace, MovesTo, PidTypeOK
<1>2. /\ \A q \in Proc : \A r : q # p => (At(q, r)' <=> At(q, r))
      /\ \A r : At(p, r)' => r = s
  BY OthersStay
<1>3. \A q \in Proc : Owns(q)' => marker' = q
  BY <1>2 DEF InPlace, Owns
<1>4. \A q \in Proc : At(q, "truncated")' => marker' = Unreadable /\ arbiter' = q
  BY <1>2 DEF InPlace
<1>. QED
  BY <1>1, <1>3, <1>4 DEF InPlace

LEMMA PidNextInv ==
  ASSUME PidInv, [PidNext]_pidVars
  PROVE  PidInv'
<1>. USE DEF PidInv
<1>1. CASE UNCHANGED pidVars
  BY <1>1 DEF pidVars, PidTypeOK, LockHeld, InPlace, At, Owns
<1>2. CASE PidNext
  <2>1. PidTypeOK'
    BY <1>2, PidNextType
  <2>2. PICK p \in Proc :
          \/ CreateMarker(p) \/ WriteMarker(p) \/ LookAtOwner(p)
          \/ LockArbiter(p) \/ ArbiterBusy(p) \/ Recheck(p)
          \/ LookBeforeRelease(p) \/ UnlinkMarker(p) \/ CrashProc(p)
    BY <1>2 DEF PidNext
  <2>3. CASE CreateMarker(p)
    <3>1. PICK s \in {"created", "exists"} : MovesTo(p, s)
      BY <2>3 DEF CreateMarker
    <3>2. LockHeld'
      BY <2>3, <3>1, OthersStay DEF CreateMarker, LockHeld
    <3>3. ASSUME ~vacated PROVE InPlace'
      <4>1. MovesTo(p, "exists") /\ UNCHANGED <<marker, arbiter, crashed>>
        BY <2>3, <3>3 DEF CreateMarker, InPlace
      <4>2. \A q \in Proc : q # p /\ At(q, "truncated") => arbiter' = q
        BY <3>3, <4>1 DEF InPlace
      <4>. QED
        BY <3>3, <4>1, <4>2, StaysInPlace
    <3>. QED
      BY <2>1, <2>3, <3>2, <3>3 DEF CreateMarker
  <2>4. CASE WriteMarker(p)
    <3>1. MovesTo(p, "claimed") /\ crashed' = crashed /\ vacated' = vacated /\ marker' = p
      BY <2>4 DEF WriteMarker
    <3>2. LockHeld'
      BY <2>4, <3>1, OthersStay DEF WriteMarker, LockHeld
    <3>3. ASSUME ~vacated PROVE InPlace'
      <4>1. marker = Unreadable /\ arbiter = p
        BY <2>4, <3>3 DEF WriteMarker, InPlace, At
      <4>2. \A q \in Proc : q # p => ~Owns(q) /\ ~At(q, "truncated")
        BY <3>3, <4>1, PidAssumption DEF InPlace
      <4>3. \A q \in Proc : q # p => ~Owns(q)' /\ ~At(q, "truncated")'
        BY <3>1, <4>2, OthersStay DEF Owns
      <4>4. \A q \in Proc : procAt'[q] # "created"
        BY <3>1, <3>3 DEF InPlace, MovesTo, PidTypeOK
      <4>5. marker' # Nobody
        BY <3>1, PidAssumption
      <4>6. ~At(p, "truncated")'
        BY <3>1, OthersStay
      <4>. QED
        BY <3>1, <4>3, <4>4, <4>5, <4>6 DEF InPlace
    <3>. QED
      BY <2>1, <3>1, <3>2, <3>3
  <2>5. CASE LookAtOwner(p)
    <3>1. /\ \E s \in {"refused", "claimed", "reclaim"} :
               MovesTo(p, s) /\ (s = "claimed" => marker = p)
          /\ UNCHANGED <<marker, arbiter, crashed, vacated>>
      BY <2>5 DEF LookAtOwner
    <3>2. LockHeld'
      BY <3>1, OthersStay DEF LockHeld
    <3>3. ~vacated => InPlace'
      BY <3>1, StaysInPlace DEF InPlace
    <3>. QED
      BY <2>1, <3>1, <3>2, <3>3
  <2>6. CASE LockArbiter(p)
    <3>1. /\ MovesTo(p, "locked") /\ arbiter = Nobody /\ arbiter' = p
          /\ UNCHANGED <<marker, crashed, vacated>>
      BY <2>6 DEF LockArbiter
    <3>2. \A q \in Proc : ~At(q, "locked")
      BY <3>1, PidAssumption DEF LockHeld
    <3>3. LockHeld'
      BY <3>1, <3>2, OthersStay DEF LockHeld
    <3>4. ~vacated => InPlace'
      <4>1. ~vacated => \A q \in Proc : ~At(q, "truncated")
        BY <3>1, PidAssumption DEF InPlace
      <4>. QED
        BY <3>1, <4>1, StaysInPlace
    <3>. QED
      BY <2>1, <3>1, <3>3, <3>4
  <2>7. CASE ArbiterBusy(p)
    <3>1. MovesTo(p, "refused") /\ UNCHANGED <<marker, arbiter, crashed, vacated>>
      BY <2>7 DEF ArbiterBusy
    <3>2. LockHeld'
      BY <3>1, OthersStay DEF LockHeld
    <3>3. ~vacated => InPlace'
      BY <3>1, StaysInPlace DEF InPlace, Owns
    <3>. QED
      BY <2>1, <3>1, <3>2, <3>3
  <2>8. CASE Recheck(p)
    <3>1. arbiter = p /\ crashed' = crashed /\ vacated' = vacated
      BY <2>8 DEF Recheck, LockHeld
    <3>2. \A q \in Proc : q # p => ~At(q, "locked")
      BY <3>1 DEF LockHeld
    <3>3. CASE TakenSince(p)
      <4>1. MovesTo(p, "refused") /\ arbiter' = Nobody /\ marker' = marker
        BY <2>8, <3>3 DEF Recheck
      <4>2. LockHeld'
        BY <3>1, <3>2, <4>1, OthersStay DEF LockHeld
      <4>3. ~vacated => InPlace'
        <5>1. ~vacated => \A q \in Proc : q # p => ~At(q, "truncated")
          BY <3>1 DEF InPlace
        <5>. QED
          BY <3>1, <4>1, <5>1, StaysInPlace
      <4>. QED
        BY <2>1, <3>1, <4>2, <4>3
    <3>4. CASE ~TakenSince(p)
      <4>1. MovesTo(p, "truncated") /\ arbiter' = arbiter /\ marker' = Unreadable
        BY <2>8, <3>4 DEF Recheck
      <4>2. LockHeld'
        BY <3>1, <3>2, <4>1, OthersStay DEF LockHeld
      <4>3. ASSUME ~vacated PROVE InPlace'
        <5>1. \A q \in Proc : q # p => ~At(q, "truncated")
          BY <3>1, <4>3 DEF InPlace
        <5>2. \A q \in Proc : ~Owns(q)
          BY <2>8, <3>4, <4>3 DEF TakenSince, HeldByOther, Live, InPlace, Owns, At, Recheck
        <5>3. \A q \in Proc : ~Owns(q)'
          BY <3>1, <4>1, <5>2, OthersStay DEF Owns
        <5>4. \A q \in Proc : procAt'[q] # "created"
          BY <4>1, <4>3 DEF InPlace, MovesTo, PidTypeOK
        <5>5. \A q \in Proc : At(q, "truncated")' => q = p
          BY <3>1, <4>1, <5>1, OthersStay
        <5>. QED
          BY <3>1, <4>1, <5>3, <5>4, <5>5, PidAssumption DEF InPlace
      <4>. QED
        BY <2>1, <3>1, <4>2, <4>3
    <3>. QED
      BY <3>3, <3>4
  <2>9. CASE LookBeforeRelease(p)
    <3>1. /\ \E s \in {"releasing", "exited"} : MovesTo(p, s)
          /\ UNCHANGED <<marker, arbiter, crashed, vacated>>
          /\ Owns(p)
      BY <2>9 DEF LookBeforeRelease, Owns
    <3>2. LockHeld'
      BY <3>1, OthersStay DEF LockHeld
    <3>3. ~vacated => InPlace'
      BY <3>1, StaysInPlace DEF InPlace, Owns
    <3>. QED
      BY <2>1, <3>1, <3>2, <3>3
  <2>10. CASE UnlinkMarker(p)
    <3>1. MovesTo(p, "exited") /\ UNCHANGED <<arbiter, crashed>> /\ vacated'
      BY <2>10 DEF UnlinkMarker
    <3>2. LockHeld'
      BY <3>1, OthersStay DEF LockHeld
    <3>. QED
      BY <2>1, <3>1, <3>2
  <2>11. CASE CrashProc(p)
    <3>1. /\ crashed' = crashed \cup {p} /\ UNCHANGED <<marker, procAt, vacated>>
          /\ arbiter' = IF arbiter = p THEN Nobody ELSE arbiter
      BY <2>11 DEF CrashProc
    <3>2. \A q \in Proc : \A r : At(q, r)' => At(q, r) /\ q # p
      BY <3>1 DEF At
    <3>. QED
      BY <2>1, <3>1, <3>2 DEF LockHeld, InPlace, Owns
  <2>. QED
    BY <2>2, <2>3, <2>4, <2>5, <2>6, <2>7, <2>8, <2>9, <2>10, <2>11
<1>. QED
  BY <1>1, <1>2

\* A marker left by a crash is taken over by one process at a time, whatever
\* the claimants and however they crash, as long as the file is never removed.
THEOREM TakeoverAlwaysExclusive == PidSpec => []TakeoverExclusive
<1>1. PidInv /\ [PidNext]_pidVars => PidInv'
  BY PidNextInv
<1>2. PidInv => TakeoverExclusive
  BY DEF PidInv, InPlace, TakeoverExclusive
<1>. QED
  BY PidInitInv, <1>1, <1>2, PTL DEF PidSpec

\* The file, the lock and every claim hold what the code can put there.
THEOREM PidTypeCorrect == PidSpec => []PidTypeOK
<1>1. PidInv /\ [PidNext]_pidVars => PidInv'
  BY PidNextInv
<1>2. PidInv => PidTypeOK
  BY DEF PidInv
<1>. QED
  BY PidInitInv, <1>1, <1>2, PTL DEF PidSpec

-----------------------------------------------------------------------------
(* The semaphore.  SlotsAccounted is inductive with the types.             *)

SpawnInv == SpawnTypeOK /\ SlotsAccounted

\* How many runs stand at s
Count(s) == Cardinality(RunsAt(s))

LEMMA RunsAtFinite == \A s : IsFiniteSet(RunsAt(s)) /\ Count(s) \in Nat
<1>. SUFFICES ASSUME NEW s
              PROVE  IsFiniteSet(RunsAt(s)) /\ Cardinality(RunsAt(s)) \in Nat
  BY DEF Count
<1>1. RunsAt(s) \in SUBSET Run
  BY DEF RunsAt
<1>2. IsFiniteSet(RunsAt(s))
  BY <1>1, SpawnAssumption, FS_Subset
<1>. QED
  BY <1>2, FS_CardinalityType

LEMMA RunsAtFiniteNext == \A s : IsFiniteSet(RunsAt(s)') /\ Count(s)' \in Nat
<1>. SUFFICES ASSUME NEW s
              PROVE  IsFiniteSet(RunsAt(s)') /\ Cardinality(RunsAt(s)') \in Nat
  BY DEF Count
<1>1. RunsAt(s)' \in SUBSET Run
  BY DEF RunsAt
<1>2. IsFiniteSet(RunsAt(s)')
  BY <1>1, SpawnAssumption, FS_Subset
<1>. QED
  BY <1>2, FS_CardinalityType

\* One run comes to s, one leaves it, or nobody does.
LEMMA Comes ==
  ASSUME NEW s, NEW r, r \notin RunsAt(s), RunsAt(s)' = RunsAt(s) \cup {r}
  PROVE  Count(s)' = Count(s) + 1
BY RunsAtFinite, FS_AddElement DEF Count

LEMMA Leaves ==
  ASSUME NEW s, NEW r \in RunsAt(s), RunsAt(s)' = RunsAt(s) \ {r}
  PROVE  Count(s)' = Count(s) - 1
BY RunsAtFinite, FS_RemoveElement DEF Count

LEMMA Stays ==
  ASSUME NEW s, RunsAt(s)' = RunsAt(s)
  PROVE  Count(s)' = Count(s)
BY DEF Count

\* A run that stands at s is counted there.
LEMMA Counted ==
  ASSUME NEW s, NEW r \in RunsAt(s)
  PROVE  Count(s) > 0
BY RunsAtFinite, FS_EmptySet DEF Count

-----------------------------------------------------------------------------
(* The list of waiters, under the two ways it changes *)

LEMMA AppendLists ==
  ASSUME SpawnTypeOK, WaitersListed, NEW r \in Run, runAt[r] # "waiting",
         runAt' = [runAt EXCEPT ![r] = "waiting"],
         spawnWaiters' = Append(spawnWaiters, r)
  PROVE  WaitersListed'
<1>1. /\ spawnWaiters \in Seq(Run) /\ Len(spawnWaiters) \in Nat
      /\ DOMAIN spawnWaiters = 1..Len(spawnWaiters)
      /\ DOMAIN spawnWaiters' = 1..(Len(spawnWaiters) + 1)
      /\ \A k \in 1..Len(spawnWaiters) : spawnWaiters'[k] = spawnWaiters[k]
      /\ spawnWaiters'[Len(spawnWaiters) + 1] = r
  BY DEF SpawnTypeOK
<1>2. \A k \in DOMAIN spawnWaiters : spawnWaiters[k] # r
  BY DEF WaitersListed
<1>3. \A q \in Run : runAt'[q] = "waiting" <=> (q = r \/ runAt[q] = "waiting")
  BY DEF SpawnTypeOK
<1>4. \A q \in Run : (\E k \in DOMAIN spawnWaiters' : spawnWaiters'[k] = q)
                     <=> (q = r \/ \E k \in DOMAIN spawnWaiters : spawnWaiters[k] = q)
  BY <1>1
<1>5. \A j, k \in DOMAIN spawnWaiters' : spawnWaiters'[j] = spawnWaiters'[k] => j = k
  BY <1>1, <1>2 DEF WaitersListed
<1>6. \A q \in Run :
        runAt'[q] = "waiting" <=> \E k \in DOMAIN spawnWaiters' : spawnWaiters'[k] = q
  BY <1>3, <1>4 DEF WaitersListed
<1>. QED
  BY <1>5, <1>6 DEF WaitersListed

LEMMA TailLists ==
  ASSUME SpawnTypeOK, WaitersListed, NEW w \in Run, spawnWaiters # <<>>,
         w = Head(spawnWaiters), spawnWaiters' = Tail(spawnWaiters),
         \A q \in Run : runAt'[q] = "waiting" <=> (q # w /\ runAt[q] = "waiting")
  PROVE  WaitersListed'
<1>1. /\ spawnWaiters \in Seq(Run) /\ Len(spawnWaiters) \in Nat \ {0}
      /\ DOMAIN spawnWaiters = 1..Len(spawnWaiters)
      /\ DOMAIN spawnWaiters' = 1..(Len(spawnWaiters) - 1)
      /\ \A k \in 1..(Len(spawnWaiters) - 1) : spawnWaiters'[k] = spawnWaiters[k + 1]
      /\ spawnWaiters[1] = w
  BY DEF SpawnTypeOK
<1>2. \A k \in 1..Len(spawnWaiters) : spawnWaiters[k] = w => k = 1
  BY <1>1 DEF WaitersListed
<1>3. \A q \in Run : (\E k \in DOMAIN spawnWaiters' : spawnWaiters'[k] = q)
                     <=> (q # w /\ \E k \in DOMAIN spawnWaiters : spawnWaiters[k] = q)
  <2>1. ASSUME NEW q \in Run, NEW k \in DOMAIN spawnWaiters', spawnWaiters'[k] = q
        PROVE  q # w /\ \E m \in DOMAIN spawnWaiters : spawnWaiters[m] = q
    <3>1. k + 1 \in 1..Len(spawnWaiters) /\ k + 1 # 1 /\ spawnWaiters[k + 1] = q
      BY <1>1, <2>1
    <3>. QED
      BY <1>1, <1>2, <3>1
  <2>2. ASSUME NEW q \in Run, q # w,
               NEW m \in DOMAIN spawnWaiters, spawnWaiters[m] = q
        PROVE  \E k \in DOMAIN spawnWaiters' : spawnWaiters'[k] = q
    <3>1. m # 1
      BY <1>1, <2>2
    <3>2. m - 1 \in 1..(Len(spawnWaiters) - 1) /\ (m - 1) + 1 = m
      BY <1>1, <3>1
    <3>. QED
      BY <1>1, <2>2, <3>2
  <2>. QED
    BY <2>1, <2>2
<1>4. \A j, k \in DOMAIN spawnWaiters' : spawnWaiters'[j] = spawnWaiters'[k] => j = k
  BY <1>1 DEF WaitersListed
<1>5. \A q \in Run :
        runAt'[q] = "waiting" <=> \E k \in DOMAIN spawnWaiters' : spawnWaiters'[k] = q
  BY <1>3 DEF WaitersListed
<1>. QED
  BY <1>4, <1>5 DEF WaitersListed

LEMMA SameLists ==
  ASSUME SpawnTypeOK, WaitersListed, spawnWaiters' = spawnWaiters,
         \A q \in Run : runAt'[q] = "waiting" <=> runAt[q] = "waiting"
  PROVE  WaitersListed'
BY DEF WaitersListed

-----------------------------------------------------------------------------
(* The steps *)

LEMMA SpawnInitInv == SpawnInit => SpawnInv
<1>. SUFFICES ASSUME SpawnInit PROVE SpawnInv
  OBVIOUS
<1>1. SpawnTypeOK /\ WaitersListed
  BY DEF SpawnInit, SpawnTypeOK, WaitersListed
<1>2. RunsAt("spawned") = {}
  BY DEF SpawnInit, RunsAt
<1>3. SlotsCounted
  BY <1>2, FS_EmptySet DEF SlotsCounted, SpawnInit
<1>. QED
  BY <1>1, <1>3 DEF SpawnInv, SlotsAccounted, NoLostWakeup, SpawnInit

LEMMA AcquireAtOnceInv ==
  ASSUME SpawnInv, NEW r \in Run, AcquireAtOnce(r)
  PROVE  SpawnInv'
<1>. USE DEF SpawnInv, SlotsAccounted
<1>1. SpawnTypeOK'
  BY DEF SpawnTypeOK, AcquireAtOnce, TakeSlot
<1>2. RunsAt("spawned")' = RunsAt("spawned") \cup {r} /\ r \notin RunsAt("spawned")
  BY DEF SpawnTypeOK, AcquireAtOnce, TakeSlot, RunsAt
<1>3. RunsAt("woken")' = RunsAt("woken")
  BY DEF SpawnTypeOK, AcquireAtOnce, TakeSlot, RunsAt
<1>4. Count("spawned")' = Count("spawned") + 1 /\ Count("woken")' = Count("woken")
  BY <1>2, <1>3, Comes, Stays
<1>5. SlotsCounted'
  BY <1>4 DEF SlotsCounted, Count, AcquireAtOnce, TakeSlot
<1>6. NoLostWakeup'
  <2>1. spawnCount' = spawnCount + 1 /\ spawnWaiters' = spawnWaiters
    BY DEF AcquireAtOnce, TakeSlot
  <2>2. spawnCount \in Nat /\ Count("woken") \in Nat /\ MaxSpawns \in Nat
    BY RunsAtFinite, SpawnAssumption DEF SpawnTypeOK
  <2>. QED
    BY <1>4, <2>1, <2>2 DEF NoLostWakeup, Count
<1>7. \A q \in Run : runAt'[q] = "waiting" <=> runAt[q] = "waiting"
  BY DEF SpawnTypeOK, AcquireAtOnce, TakeSlot
<1>8. WaitersListed'
  BY <1>7, SameLists DEF AcquireAtOnce
<1>. QED
  BY <1>1, <1>5, <1>6, <1>8

LEMMA AcquireLaterInv ==
  ASSUME SpawnInv, NEW r \in Run, AcquireLater(r)
  PROVE  SpawnInv'
<1>. USE DEF SpawnInv, SlotsAccounted
<1>1. SpawnTypeOK'
  BY DEF SpawnTypeOK, AcquireLater
<1>2. RunsAt("spawned")' = RunsAt("spawned") /\ RunsAt("woken")' = RunsAt("woken")
  BY DEF SpawnTypeOK, AcquireLater, RunsAt
<1>3. SlotsCounted'
  BY <1>2 DEF SlotsCounted, AcquireLater
<1>4. NoLostWakeup'
  <2>1. spawnCount' = spawnCount /\ spawnCount >= MaxSpawns
    BY DEF AcquireLater
  <2>2. spawnCount \in Nat /\ Count("woken")' \in Nat /\ MaxSpawns \in Nat
    BY RunsAtFiniteNext, SpawnAssumption DEF SpawnTypeOK
  <2>. QED
    BY <2>1, <2>2 DEF NoLostWakeup, Count
<1>5. WaitersListed'
  BY AppendLists DEF AcquireLater
<1>. QED
  BY <1>1, <1>3, <1>4, <1>5

LEMMA ContinueWokenInv ==
  ASSUME SpawnInv, NEW r \in Run, ContinueWoken(r)
  PROVE  SpawnInv'
<1>. USE DEF SpawnInv, SlotsAccounted
<1>1. SpawnTypeOK'
  BY DEF SpawnTypeOK, ContinueWoken, TakeSlot
<1>2. RunsAt("spawned")' = RunsAt("spawned") \cup {r} /\ r \notin RunsAt("spawned")
  BY DEF SpawnTypeOK, ContinueWoken, TakeSlot, RunsAt
<1>3. RunsAt("woken")' = RunsAt("woken") \ {r} /\ r \in RunsAt("woken")
  BY DEF SpawnTypeOK, ContinueWoken, TakeSlot, RunsAt
<1>4. Count("spawned")' = Count("spawned") + 1 /\ Count("woken")' = Count("woken") - 1
  BY <1>2, <1>3, Comes, Leaves
<1>5. SlotsCounted'
  BY <1>4 DEF SlotsCounted, Count, ContinueWoken, TakeSlot
<1>6. NoLostWakeup'
  <2>1. spawnCount' = spawnCount + 1 /\ spawnWaiters' = spawnWaiters
    BY DEF ContinueWoken, TakeSlot
  <2>2. spawnCount \in Nat /\ Count("woken") \in Nat /\ MaxSpawns \in Nat
    BY RunsAtFinite, SpawnAssumption DEF SpawnTypeOK
  <2>. QED
    BY <1>4, <2>1, <2>2 DEF NoLostWakeup, Count
<1>7. \A q \in Run : runAt'[q] = "waiting" <=> runAt[q] = "waiting"
  BY DEF SpawnTypeOK, ContinueWoken, TakeSlot
<1>8. WaitersListed'
  BY <1>7, SameLists DEF ContinueWoken
<1>. QED
  BY <1>1, <1>5, <1>6, <1>8

LEMMA ReleaseAloneInv ==
  ASSUME SpawnInv, NEW r \in Run, ReleaseAlone(r)
  PROVE  SpawnInv'
<1>. USE DEF SpawnInv, SlotsAccounted
<1>1. SpawnTypeOK'
  BY DEF SpawnTypeOK, ReleaseAlone, GivenBack
<1>2. RunsAt("spawned")' = RunsAt("spawned") \ {r} /\ r \in RunsAt("spawned")
  BY DEF SpawnTypeOK, ReleaseAlone, RunsAt
<1>3. Count("spawned")' = Count("spawned") - 1 /\ Count("spawned") > 0
  BY <1>2, Leaves, Counted
<1>4. SlotsCounted'
  BY <1>3 DEF SlotsCounted, Count, ReleaseAlone, GivenBack
<1>5. NoLostWakeup'
  BY DEF NoLostWakeup, ReleaseAlone
<1>6. \A q \in Run : runAt'[q] = "waiting" <=> runAt[q] = "waiting"
  BY DEF SpawnTypeOK, ReleaseAlone
<1>7. WaitersListed'
  BY <1>6, SameLists DEF ReleaseAlone
<1>. QED
  BY <1>1, <1>4, <1>5, <1>7

\* The sum of the slots taken and promised does not change: the wake-up is not
\* lost, whoever takes the slot first.
LEMMA ReleaseAndWakeInv ==
  ASSUME SpawnInv, NEW r \in Run, NEW w \in Run, ReleaseAndWake(r, w)
  PROVE  SpawnInv'
<1>. USE DEF SpawnInv, SlotsAccounted
<1>1. runAt[w] = "waiting" /\ w # r
  <2>1. 1 \in DOMAIN spawnWaiters /\ spawnWaiters[1] = w
    BY DEF SpawnTypeOK, ReleaseAndWake
  <2>. QED
    BY <2>1 DEF WaitersListed, ReleaseAndWake
<1>2. SpawnTypeOK'
  <2>1. runAt' \in [Run -> {"idle", "waiting", "woken", "spawned"}]
    BY DEF SpawnTypeOK, ReleaseAndWake
  <2>2. spawnWaiters' \in Seq(Run)
    BY DEF SpawnTypeOK, ReleaseAndWake
  <2>3. spawnCount' \in Nat
    BY DEF SpawnTypeOK, ReleaseAndWake, GivenBack
  <2>. QED
    BY <2>1, <2>2, <2>3 DEF SpawnTypeOK
<1>3. /\ runAt'[r] = "idle" /\ runAt'[w] = "woken"
      /\ \A q \in Run \ {r, w} : runAt'[q] = runAt[q]
  BY <1>1 DEF SpawnTypeOK, ReleaseAndWake
<1>4. RunsAt("spawned")' = RunsAt("spawned") \ {r} /\ r \in RunsAt("spawned")
  BY <1>1, <1>3 DEF ReleaseAndWake, RunsAt
<1>5. RunsAt("woken")' = RunsAt("woken") \cup {w} /\ w \notin RunsAt("woken")
  BY <1>1, <1>3 DEF ReleaseAndWake, RunsAt
<1>6. /\ Count("spawned")' = Count("spawned") - 1 /\ Count("spawned") > 0
      /\ Count("woken")' = Count("woken") + 1
  BY <1>4, <1>5, Leaves, Counted, Comes
<1>7. spawnCount' = spawnCount - 1 /\ spawnCount = Count("spawned")
  BY <1>6 DEF SlotsCounted, Count, ReleaseAndWake, GivenBack
<1>8. SlotsCounted'
  BY <1>6, <1>7 DEF SlotsCounted, Count
<1>9. NoLostWakeup'
  <2>1. spawnWaiters # <<>>
    BY DEF ReleaseAndWake
  <2>2. spawnCount \in Nat /\ Count("woken") \in Nat /\ MaxSpawns \in Nat
    BY RunsAtFinite, SpawnAssumption DEF SpawnTypeOK
  <2>. QED
    BY <1>6, <1>7, <2>1, <2>2 DEF NoLostWakeup, Count
<1>10. \A q \in Run : runAt'[q] = "waiting" <=> (q # w /\ runAt[q] = "waiting")
  BY <1>1, <1>3 DEF ReleaseAndWake
<1>11. WaitersListed'
  BY <1>10, TailLists DEF ReleaseAndWake
<1>. QED
  BY <1>2, <1>8, <1>9, <1>11

LEMMA SpawnNextInv ==
  ASSUME SpawnInv, [SpawnNext]_spawnVars
  PROVE  SpawnInv'
<1>1. CASE UNCHANGED spawnVars
  BY <1>1 DEF spawnVars, SpawnInv, SpawnTypeOK, SlotsAccounted, SlotsCounted,
              NoLostWakeup, WaitersListed, RunsAt
<1>. QED
  BY <1>1, AcquireAtOnceInv, AcquireLaterInv, ContinueWokenInv, ReleaseAloneInv,
     ReleaseAndWakeInv DEF SpawnNext

\* Every slot is accounted for through any order of releases, wake-ups and
\* barging acquirers: none is counted twice, no wake-up is lost, every waiter is
\* listed once.
THEOREM SlotsAlwaysAccounted == SpawnSpec => []SlotsAccounted
<1>1. SpawnInv /\ [SpawnNext]_spawnVars => SpawnInv'
  BY SpawnNextInv
<1>2. SpawnInv => SlotsAccounted
  BY DEF SpawnInv
<1>. QED
  BY SpawnInitInv, <1>1, <1>2, PTL DEF SpawnSpec

\* The counter is a natural number and only runs are in the list.
THEOREM SpawnTypeCorrect == SpawnSpec => []SpawnTypeOK
<1>1. SpawnInv /\ [SpawnNext]_spawnVars => SpawnInv'
  BY SpawnNextInv
<1>2. SpawnInv => SpawnTypeOK
  BY DEF SpawnInv
<1>. QED
  BY SpawnInitInv, <1>1, <1>2, PTL DEF SpawnSpec

-----------------------------------------------------------------------------
(* The capability gate, for any number of versions, issues and overlapping *)
(* reads, any retry budget and any number of updates                       *)

ReadRecord == [at : {"asked", "answered"}, version : MuseVersion,
               blocks : BOOLEAN, spans : BOOLEAN] \cup {Idle}
Check == [version : MuseVersion, status : Result, attempts : Nat, aged : BOOLEAN]

MuseShape ==
  /\ installed \in MuseVersion
  /\ reported \in MuseVersion \cup {NoVersion}
  /\ checked \in Check \cup {NoCheck}
  /\ probe \in [version : MuseVersion, at : {"running", "settling"}] \cup {NoProbe}
  /\ watchers \subseteq MuseVersion \X MuseIssue
  /\ asks \subseteq Ask
  /\ acked \subseteq MuseVersion \X AskKind
  /\ reads \in [MuseReader -> ReadRecord]
  /\ probe # NoProbe => reported \in MuseVersion

\* Beside OverrideWasDecided: what is acknowledged is on record and, for a lost
\* capability, on file, so that no later look at the row can lift the block.
AckOnFile ==
  \A v \in MuseVersion, k \in AskKind : <<v, k>> \in acked =>
    <<v, k>> \in decided /\ (k = "missing" => v \in overridden)

\* Beside MuseGateIsCurrent: the reported version may change without a check only
\* to the confirmed one, and an answer about to be cached is the gate's own.
ChangedToConfirmed ==
  answer # NoAnswer /\ answer.version # reported /\ probe = NoProbe =>
    reported = confirmed
ReadIsCurrent ==
  \A r \in MuseReader : reads[r].at = "answered" /\ ~reads[r].spans =>
    /\ reads[r].version = reported
    /\ probe = NoProbe => (reads[r].blocks <=> GateBlocks(checked))

AskInv == MuseShape /\ OverrideWasDecided /\ AckOnFile
GateInv == MuseGateIsCurrent /\ ChangedToConfirmed /\ ReadIsCurrent
MuseInv == AskInv /\ GateInv

LEMMA MuseInitInv == MuseInit => MuseInv
<1>. SUFFICES ASSUME MuseInit PROVE MuseInv
  OBVIOUS
<1>1. AskInv
  <2>1. checked \in Check \cup {NoCheck}
    <3>1. checked = NoCheck \/ checked = [version |-> installed, status |-> "capable",
                                          attempts |-> 0, aged |-> FALSE]
      BY DEF MuseInit
    <3>2. installed \in MuseVersion
      BY DEF MuseInit
    <3>3. [version |-> installed, status |-> "capable", attempts |-> 0, aged |-> FALSE] \in Check
      BY <3>2 DEF Check, Result
    <3>. QED
      BY <3>1, <3>3
  <2>2. reads \in [MuseReader -> ReadRecord]
    BY DEF MuseInit, ReadRecord
  <2>. QED
    BY <2>1, <2>2 DEF MuseInit, AskInv, MuseShape, OverrideWasDecided, AckOnFile
<1>2. GateInv
  BY DEF MuseInit, GateInv, MuseGateIsCurrent, ChangedToConfirmed, ReadIsCurrent, Idle, NoAnswer, NoCheck
<1>. QED
  BY <1>1, <1>2 DEF MuseInv

\* A question is put once, and putting it lifts no block.
LEMMA EnsureAskedKeeps ==
  ASSUME AskInv, NEW c \in Check, NEW i \in MuseIssue, EnsureAsked(c, i),
         UNCHANGED <<acked, decided>>
  PROVE  /\ asks' \subseteq Ask
         /\ overridden' = overridden
         /\ OverrideWasDecided' /\ AckOnFile'
<1>. DEFINE k == KindOf(c)
            isOpen == \E a \in asks : RequestKey(a.version, a.kind) = RequestKey(c.version, k)
            isAcked == \E d \in acked : RequestKey(d[1], d[2]) = RequestKey(c.version, k)
            q == [version |-> c.version, kind |-> k, issue |-> i]
<1>1. k \in AskKind \cup {"none"}
  BY DEF KindOf, AskKind
<1>2. isAcked => <<c.version, k>> \in acked
  BY DEF RequestKey, AskInv, MuseShape
<1>3. k = "missing" => ~isAcked
  BY <1>2 DEF AskInv, AckOnFile, KindOf, AskKind, Check
<1>4. overridden' = overridden
  BY <1>3 DEF EnsureAsked
<1>5. CASE k = "none" \/ isOpen \/ isAcked
  <2>1. asks' = asks
    BY <1>5 DEF EnsureAsked
  <2>. QED
    BY <2>1, <1>4 DEF AskInv, MuseShape, OverrideWasDecided, AckOnFile
<1>6. CASE ~(k = "none" \/ isOpen \/ isAcked)
  <2>1. asks' = asks \cup {q}
    BY <1>6 DEF EnsureAsked
  <2>2. q \in Ask
    BY <1>1, <1>6 DEF Ask, Check
  <2>3. \A a \in asks : ~(a.version = q.version /\ a.kind = q.kind)
    BY <1>6 DEF RequestKey
  <2>4. <<q.version, q.kind>> \notin acked
    BY <1>6 DEF RequestKey
  <2>. QED
    BY <2>1, <2>2, <2>3, <2>4, <1>4 DEF AskInv, MuseShape, OverrideWasDecided, AckOnFile
<1>. QED
  BY <1>5, <1>6

LEMMA ProbeForProbes == \A v : ProbeFor(v) # NoProbe
BY DEF ProbeFor, ProbeOf, NoProbe

LEMMA AskNextInv ==
  ASSUME AskInv, [MuseNext]_museVars
  PROVE  AskInv'
<1>. USE DEF AskInv, diskVars, fileVars, askVars
<1>1. CASE ProbeOutdated \/ RetryComesDue \/ AnswerExpires \/ UNCHANGED museVars
  <2>1. OverrideWasDecided' /\ AckOnFile'
    BY <1>1 DEF ProbeOutdated, RetryComesDue, AnswerExpires, museVars, OverrideWasDecided, AckOnFile
  <2>2. CASE ProbeOutdated
    BY <2>1, <2>2 DEF ProbeOutdated, MuseShape, NoProbe
  <2>3. CASE RetryComesDue
    <3>1. checked' \in Check
      <4>1. checked \in Check
        BY <2>3 DEF RetryComesDue, MuseShape, NoCheck
      <4>2. checked' = [checked EXCEPT !.aged = TRUE]
        BY <2>3 DEF RetryComesDue
      <4>. QED
        BY <4>1, <4>2 DEF Check
    <3>. QED
      BY <2>1, <2>3, <3>1 DEF RetryComesDue, MuseShape
  <2>4. CASE AnswerExpires \/ UNCHANGED museVars
    BY <2>1, <2>4 DEF AnswerExpires, museVars, MuseShape
  <2>. QED
    BY <1>1, <2>2, <2>3, <2>4
<1>2. ASSUME NEW result \in Result, ProbeAnswers(result) PROVE AskInv'
  <2>. DEFINE c == VerdictOn(probe.version, result)
              owed == {w \in watchers : w[1] = probe.version}
  <2>1. probe \in [version : MuseVersion, at : {"running", "settling"}]
    BY <1>2 DEF ProbeAnswers, MuseShape, NoProbe
  <2>2. c \in Check
    BY <1>2, <2>1 DEF VerdictOn, Check, ErrorsInARow, MuseShape, NoCheck, Result
  <2>3. /\ probe' \in [version : MuseVersion, at : {"running", "settling"}]
        /\ checked' = c /\ watchers' \subseteq watchers
    BY <1>2, <2>1 DEF ProbeAnswers
  <2>4. asks' \subseteq Ask /\ OverrideWasDecided' /\ AckOnFile'
    <3>1. CASE (result = "missing" \/ SpentRetries(c)) /\ owed # {}
      <4>1. PICK w \in owed : EnsureAsked(c, w[2])
        BY <1>2, <3>1 DEF ProbeAnswers
      <4>2. w[2] \in MuseIssue
        BY DEF MuseShape
      <4>. QED
        BY <1>2, <2>2, <4>1, <4>2, EnsureAskedKeeps DEF ProbeAnswers
    <3>2. CASE ~((result = "missing" \/ SpentRetries(c)) /\ owed # {})
      BY <1>2, <3>2 DEF ProbeAnswers, MuseShape, OverrideWasDecided, AckOnFile
    <3>. QED
      BY <3>1, <3>2
  <2>5. UNCHANGED <<installed, reported, acked, reads>> /\ reported \in MuseVersion
    BY <1>2, <2>1 DEF ProbeAnswers
  <2>. QED
    BY <2>2, <2>3, <2>4, <2>5 DEF MuseShape
<1>3. CASE ProbeSettles
  <2>1. probe # NoProbe
    BY <1>3 DEF ProbeSettles, NoProbe
  <2>2. probe' \in [version : MuseVersion, at : {"running", "settling"}] \cup {NoProbe}
    BY <1>3, <2>1 DEF ProbeSettles, MuseShape, ProbeOf
  <2>3. reads' \in [MuseReader -> ReadRecord]
    <3>1. ASSUME NEW r \in MuseReader PROVE reads'[r] \in ReadRecord
      <4>1. CASE reads[r].at = "idle"
        BY <1>3, <4>1 DEF ProbeSettles, ReadRecord
      <4>2. CASE reads[r].at # "idle"
        <5>1. reads[r] \in [at : {"asked", "answered"}, version : MuseVersion,
                            blocks : BOOLEAN, spans : BOOLEAN]
          BY <4>2 DEF MuseShape, ReadRecord, Idle
        <5>2. reads'[r] = [reads[r] EXCEPT !.spans = TRUE]
          BY <1>3, <4>2 DEF ProbeSettles
        <5>. QED
          BY <5>1, <5>2 DEF ReadRecord
      <4>. QED
        BY <4>1, <4>2
    <3>. QED
      BY <1>3, <3>1 DEF ProbeSettles
  <2>. QED
    BY <1>3, <2>1, <2>2, <2>3 DEF ProbeSettles, MuseShape, OverrideWasDecided, AckOnFile
<1>4. ASSUME NEW r \in MuseReader, ReadStep(r) PROVE AskInv'
  <2>1. reads' \in [MuseReader -> ReadRecord]
    <3>1. CASE ReadStarts(r) \/ ReadCaches(r)
      <4>1. [at |-> "asked", version |-> installed, blocks |-> FALSE, spans |-> FALSE]
              \in ReadRecord
        BY DEF MuseShape, ReadRecord
      <4>2. Idle \in ReadRecord
        BY DEF ReadRecord
      <4>. QED
        BY <3>1, <4>1, <4>2 DEF ReadStarts, ReadCaches, MuseShape
    <3>2. CASE ReadAnswers(r)
      <4>. DEFINE b == GateBlocks(CheckFor(reads[r].version))
      <4>1. reads[r] \in [at : {"asked", "answered"}, version : MuseVersion,
                          blocks : BOOLEAN, spans : BOOLEAN]
        BY <3>2 DEF ReadAnswers, MuseShape, ReadRecord, Idle
      <4>2. b \in BOOLEAN
        BY DEF GateBlocks
      <4>3. [reads[r] EXCEPT !.at = "answered", !.blocks = b] \in ReadRecord
        BY <4>1, <4>2 DEF ReadRecord
      <4>4. reads' = [reads EXCEPT ![r] = [reads[r] EXCEPT !.at = "answered", !.blocks = b]]
        BY <3>2 DEF ReadAnswers, MuseShape
      <4>. QED
        BY <4>3, <4>4 DEF MuseShape
    <3>. QED
      BY <1>4, <3>1, <3>2 DEF ReadStep
  <2>2. CASE ReadAnswers(r)
    <3>1. reads[r].version \in MuseVersion
      BY <2>2 DEF ReadAnswers, MuseShape, ReadRecord, Idle
    <3>. QED
      BY <2>1, <2>2, <3>1 DEF ReadAnswers, CheckFor, WatchersFor, ProbeFor, ProbeOf, MuseShape,
         OverrideWasDecided, AckOnFile
  <2>3. CASE ReadStarts(r) \/ ReadCaches(r)
    BY <2>1, <2>3 DEF ReadStarts, ReadCaches, MuseShape, OverrideWasDecided, AckOnFile
  <2>. QED
    BY <1>4, <2>2, <2>3 DEF ReadStep
<1>5. ASSUME NEW i \in MuseIssue, SafetyNet(i) PROVE AskInv'
  <2>. DEFINE c == CheckFor(installed)
  <2>1. /\ installed' = installed /\ reported' = installed /\ checked' = c
        /\ UNCHANGED <<acked, decided, reads>>
    BY <1>5 DEF SafetyNet
  <2>2. c \in Check \cup {NoCheck}
    BY DEF CheckFor, MuseShape
  <2>3. /\ watchers' \subseteq MuseVersion \X MuseIssue
        /\ probe' \in [version : MuseVersion, at : {"running", "settling"}] \cup {NoProbe}
    BY <1>5 DEF SafetyNet, WatchersFor, ProbeFor, ProbeOf, MuseShape
  <2>4. asks' \subseteq Ask /\ OverrideWasDecided' /\ AckOnFile'
    <3>1. CASE confirmed # installed /\ c.status = "missing"
      <4>1. EnsureAsked(c, i)
        BY <1>5, <3>1 DEF SafetyNet
      <4>2. c \in Check
        BY <2>2, <3>1 DEF NoCheck
      <4>. QED
        BY <2>1, <4>1, <4>2, EnsureAskedKeeps
    <3>2. CASE ~(confirmed # installed /\ c.status = "missing")
      <4>1. UNCHANGED <<asks, overridden>>
        BY <1>5, <3>2 DEF SafetyNet
      <4>. QED
        BY <2>1, <4>1 DEF MuseShape, OverrideWasDecided, AckOnFile
    <3>. QED
      BY <3>1, <3>2
  <2>. QED
    BY <2>1, <2>2, <2>3, <2>4 DEF MuseShape
<1>6. ASSUME NEW i \in MuseIssue, AdmissionAsks(i) PROVE AskInv'
  <2>1. checked \in Check
    BY <1>6 DEF AdmissionAsks, MuseShape
  <2>2. asks' \subseteq Ask /\ OverrideWasDecided' /\ AckOnFile'
    BY <1>6, <2>1, EnsureAskedKeeps DEF AdmissionAsks
  <2>. QED
    BY <1>6, <2>2 DEF AdmissionAsks, MuseShape
<1>7. ASSUME NEW i \in MuseIssue, IssueEnds(i) PROVE AskInv'
  BY <1>7 DEF IssueEnds, MuseShape, OverrideWasDecided, AckOnFile
<1>8. ASSUME NEW a \in asks, Acknowledge(a) PROVE AskInv'
  <2>1. a.version \in MuseVersion /\ a.kind \in AskKind
    BY DEF MuseShape, Ask
  <2>2. MuseShape'
    BY <1>8, <2>1 DEF Acknowledge, MuseShape
  <2>3. AckOnFile'
    BY <1>8, <2>1 DEF Acknowledge, AckOnFile, Overridden
  <2>4. OverrideWasDecided'
    <3>1. \A b \in asks' : <<b.version, b.kind>> \notin acked'
      BY <1>8, <2>1 DEF Acknowledge, OverrideWasDecided
    <3>2. \A v \in overridden' : <<v, "missing">> \in decided'
      BY <1>8, <2>1 DEF Acknowledge, OverrideWasDecided, Overridden
    <3>. QED
      BY <1>8, <3>1, <3>2 DEF Acknowledge, OverrideWasDecided
  <2>. QED
    BY <2>2, <2>3, <2>4
<1>9. CASE MuseCrash
  BY <1>9 DEF MuseCrash, ForgetAll, MuseShape, OverrideWasDecided, AckOnFile, ReadRecord
<1>10. ASSUME NEW a \in asks, AcknowledgeCrashes(a) PROVE AskInv'
  <2>1. a.version \in MuseVersion /\ a.kind \in AskKind
    BY DEF MuseShape, Ask
  <2>2. MuseShape'
    BY <1>10 DEF AcknowledgeCrashes, ForgetAll, MuseShape, ReadRecord
  <2>3. AckOnFile'
    BY <1>10, <2>1 DEF AcknowledgeCrashes, AckOnFile, Overridden
  <2>4. \A v \in overridden' : <<v, "missing">> \in decided'
    BY <1>10 DEF AcknowledgeCrashes, OverrideWasDecided, Overridden
  <2>. QED
    BY <1>10, <2>2, <2>3, <2>4 DEF AcknowledgeCrashes, OverrideWasDecided
<1>11. ASSUME NEW v \in MuseVersion, BinaryChanges(v) PROVE AskInv'
  BY <1>11 DEF BinaryChanges, MuseShape, OverrideWasDecided, AckOnFile
<1>. QED
  BY <1>1, <1>2, <1>3, <1>4, <1>5, <1>6, <1>7, <1>8, <1>9, <1>10, <1>11
     DEF MuseNext, ProbeStep

\* Only the status and the version of a check matter to the gate.
LEMMA SameGate ==
  ASSUME NEW c, NEW d, c.status = d.status, c.version = d.version
  PROVE  GateBlocks(c) <=> GateBlocks(d)
BY DEF GateBlocks

\* With the questions in order, neither admission nor a session lifts a block.
LEMMA OverriddenStays ==
  ASSUME AskInv,
         \/ \E i \in MuseIssue : SafetyNet(i) \/ AdmissionAsks(i)
  PROVE  overridden' = overridden
<1>1. ASSUME NEW i \in MuseIssue, SafetyNet(i) PROVE overridden' = overridden
  <2>. DEFINE c == CheckFor(installed)
  <2>1. CASE confirmed # installed /\ c.status = "missing"
    <3>1. c \in Check
      BY <2>1 DEF CheckFor, AskInv, MuseShape, NoCheck
    <3>2. EnsureAsked(c, i) /\ UNCHANGED <<acked, decided>>
      BY <1>1, <2>1 DEF SafetyNet
    <3>. QED
      BY <3>1, <3>2, EnsureAskedKeeps
  <2>2. CASE ~(confirmed # installed /\ c.status = "missing")
    BY <1>1, <2>2 DEF SafetyNet
  <2>. QED
    BY <2>1, <2>2
<1>2. ASSUME NEW i \in MuseIssue, AdmissionAsks(i) PROVE overridden' = overridden
  <2>1. checked \in Check
    BY <1>2 DEF AdmissionAsks, AskInv, MuseShape
  <2>. QED
    BY <1>2, <2>1, EnsureAskedKeeps DEF AdmissionAsks
<1>. QED
  BY <1>1, <1>2

LEMMA GateNextInv ==
  ASSUME MuseInv, [MuseNext]_museVars
  PROVE  GateInv'
<1>. USE DEF MuseInv, GateInv, diskVars, fileVars, askVars
<1>1. CASE UNCHANGED museVars \/ \E v \in MuseVersion : BinaryChanges(v)
  BY <1>1 DEF BinaryChanges, museVars, MuseGateIsCurrent, ChangedToConfirmed, ReadIsCurrent,
     GateBlocks
<1>2. CASE ProbeOutdated \/ \E result \in Result : ProbeAnswers(result)
  <2>1. probe' # NoProbe /\ UNCHANGED <<answer, reads, reported>>
    BY <1>2 DEF ProbeOutdated, ProbeAnswers, AskInv, MuseShape, NoProbe
  <2>2. checked' # NoCheck => checked'.version = reported
    <3>1. CASE ProbeOutdated
      BY <3>1 DEF ProbeOutdated, MuseGateIsCurrent
    <3>2. ASSUME NEW result \in Result, ProbeAnswers(result) PROVE checked'.version = reported
      <4>1. checked' = VerdictOn(probe.version, result) /\ reported = probe.version
        BY <3>2 DEF ProbeAnswers
      <4>. QED
        BY <4>1, Zenon DEF VerdictOn
    <3>. QED
      BY <1>2, <3>1, <3>2
  <2>. QED
    BY <2>1, <2>2 DEF MuseGateIsCurrent, ChangedToConfirmed, ReadIsCurrent
<1>3. CASE ProbeSettles
  <2>1. \A r \in MuseReader : reads'[r].at = "answered" => reads'[r].spans
    <3>1. ASSUME NEW r \in MuseReader, reads'[r].at = "answered" PROVE reads'[r].spans
      <4>1. reads[r].at # "idle"
        BY <1>3, <3>1 DEF ProbeSettles, Idle
      <4>2. reads[r] \in [at : {"asked", "answered"}, version : MuseVersion,
                          blocks : BOOLEAN, spans : BOOLEAN]
        BY <4>1 DEF AskInv, MuseShape, ReadRecord, Idle
      <4>3. reads'[r] = [reads[r] EXCEPT !.spans = TRUE]
        BY <1>3, <4>1 DEF ProbeSettles
      <4>. QED
        BY <4>2, <4>3
    <3>. QED
      BY <3>1
  <2>. QED
    BY <1>3, <2>1 DEF ProbeSettles, MuseGateIsCurrent, ChangedToConfirmed, ReadIsCurrent
<1>4. CASE RetryComesDue
  <2>1. checked \in Check
    BY <1>4 DEF RetryComesDue, AskInv, MuseShape, NoCheck
  <2>2. checked'.status = checked.status /\ checked'.version = checked.version
    BY <1>4, <2>1 DEF RetryComesDue, Check
  <2>3. UNCHANGED <<confirmed, reported, overridden, probe, answer, reads>> /\ checked # NoCheck
    BY <1>4 DEF RetryComesDue, NoCheck
  <2>4. GateBlocks(checked)' <=> GateBlocks(checked)
    BY <2>2, <2>3 DEF GateBlocks
  <2>. QED
    BY <2>2, <2>3, <2>4 DEF MuseGateIsCurrent, ChangedToConfirmed, ReadIsCurrent
<1>5. CASE AnswerExpires
  BY <1>5 DEF AnswerExpires, MuseGateIsCurrent, ChangedToConfirmed, ReadIsCurrent, GateBlocks
<1>6. ASSUME NEW r \in MuseReader, ReadStarts(r) PROVE GateInv'
  BY <1>6 DEF ReadStarts, AskInv, MuseShape, MuseGateIsCurrent, ChangedToConfirmed, ReadIsCurrent,
     GateBlocks
<1>7. ASSUME NEW r \in MuseReader, ReadAnswers(r) PROVE GateInv'
  <2>. DEFINE v == reads[r].version
  <2>1. reads[r] \in [at : {"asked", "answered"}, version : MuseVersion,
                      blocks : BOOLEAN, spans : BOOLEAN]
    BY <1>7 DEF ReadAnswers, AskInv, MuseShape, ReadRecord, Idle
  <2>2. /\ reported' = v /\ checked' = CheckFor(v)
        /\ probe' = IF CheckDue(CheckFor(v)) THEN ProbeFor(v) ELSE probe
        /\ UNCHANGED <<confirmed, overridden, answer>>
    BY <1>7 DEF ReadAnswers
  <2>3. GateBlocks(checked)' <=> GateBlocks(CheckFor(v))
    BY <2>2 DEF GateBlocks
  <2>4. /\ reads'[r].version = v /\ (reads'[r].blocks <=> GateBlocks(CheckFor(v)))
        /\ \A q \in MuseReader : q # r => reads'[q] = reads[q]
    BY <1>7, <2>1 DEF ReadAnswers, AskInv, MuseShape
  <2>5. \A q \in MuseReader : q # r => reads[q].at # "answered"
    BY <1>7 DEF ReadAnswers, Draining
  <2>6. ReadIsCurrent'
    BY <2>2, <2>3, <2>4, <2>5 DEF ReadIsCurrent
  <2>7. checked' # NoCheck => checked'.version = reported'
    BY <2>2 DEF CheckFor, MuseGateIsCurrent
  <2>8. CASE reported = v
    BY <2>2, <2>3, <2>6, <2>7, <2>8, ProbeForProbes
       DEF CheckFor, MuseGateIsCurrent, ChangedToConfirmed
  <2>9. CASE reported # v
    <3>1. probe' # NoProbe
      BY <2>2, <2>9, ProbeForProbes DEF CheckFor, CheckDue
    <3>. QED
      BY <3>1, <2>6, <2>7 DEF MuseGateIsCurrent, ChangedToConfirmed
  <2>. QED
    BY <2>8, <2>9
<1>8. ASSUME NEW r \in MuseReader, ReadCaches(r) PROVE GateInv'
  <2>1. UNCHANGED <<confirmed, reported, checked, overridden, probe>>
    BY <1>8 DEF ReadCaches
  <2>2. GateBlocks(checked)' <=> GateBlocks(checked)
    BY <2>1 DEF GateBlocks
  <2>3. ReadIsCurrent'
    BY <1>8, <2>1, <2>2 DEF ReadCaches, AskInv, MuseShape, ReadIsCurrent, Idle
  <2>4. CASE Superseded(r)
    BY <1>8, <2>1, <2>2, <2>3, <2>4 DEF ReadCaches, MuseGateIsCurrent, ChangedToConfirmed
  <2>5. CASE ~Superseded(r)
    <3>1. answer'.version = reads[r].version /\ answer'.blocks = reads[r].blocks
      BY <1>8, <2>5 DEF ReadCaches
    <3>2. /\ reads[r].version = reported
          /\ probe = NoProbe => (reads[r].blocks <=> GateBlocks(checked))
      BY <1>8, <2>5 DEF ReadCaches, Superseded, ReadIsCurrent
    <3>. QED
      BY <2>1, <2>2, <2>3, <3>1, <3>2 DEF MuseGateIsCurrent, ChangedToConfirmed
  <2>. QED
    BY <2>4, <2>5
<1>9. ASSUME NEW i \in MuseIssue, SafetyNet(i) PROVE GateInv'
  <2>. DEFINE v == installed
              c == CheckFor(v)
  <2>1. /\ reported' = v /\ checked' = c /\ overridden' = overridden
        /\ UNCHANGED <<confirmed, answer, reads>>
    BY <1>9, OverriddenStays DEF SafetyNet
  <2>2. GateBlocks(checked)' <=> GateBlocks(c)
    BY <2>1 DEF GateBlocks
  <2>3. ReadIsCurrent'
    BY <1>9, <2>1 DEF SafetyNet, Draining, ReadIsCurrent
  <2>4. checked' # NoCheck => checked'.version = reported'
    BY <2>1 DEF CheckFor, MuseGateIsCurrent
  <2>5. probe' = probe \/ probe' # NoProbe
    BY <1>9, ProbeForProbes DEF SafetyNet
  <2>6. CASE reported = v
    BY <2>1, <2>2, <2>3, <2>4, <2>5, <2>6 DEF CheckFor, MuseGateIsCurrent, ChangedToConfirmed
  <2>7. CASE reported # v /\ confirmed = v
    <3>1. probe = NoProbe /\ answer # NoAnswer => answer.version # v
      BY <2>7 DEF ChangedToConfirmed
    <3>2. probe' = probe
      BY <1>9, <2>7 DEF SafetyNet
    <3>. QED
      BY <2>1, <2>3, <2>4, <2>7, <3>1, <3>2 DEF MuseGateIsCurrent, ChangedToConfirmed
  <2>8. CASE reported # v /\ confirmed # v
    <3>1. c = NoCheck /\ c.status = "none"
      BY <2>8 DEF CheckFor, NoCheck
    <3>2. probe' # NoProbe
      BY <1>9, <2>8, <3>1, ProbeForProbes DEF SafetyNet
    <3>. QED
      BY <2>3, <2>4, <3>2 DEF MuseGateIsCurrent, ChangedToConfirmed
  <2>. QED
    BY <2>6, <2>7, <2>8
<1>10. ASSUME NEW i \in MuseIssue, AdmissionAsks(i) PROVE GateInv'
  <2>1. UNCHANGED <<confirmed, reported, checked, overridden, probe, answer, reads>>
    BY <1>10, OverriddenStays DEF AdmissionAsks
  <2>. QED
    BY <2>1 DEF MuseGateIsCurrent, ChangedToConfirmed, ReadIsCurrent, GateBlocks
<1>11. ASSUME NEW i \in MuseIssue, IssueEnds(i) PROVE GateInv'
  BY <1>11 DEF IssueEnds, MuseGateIsCurrent, ChangedToConfirmed, ReadIsCurrent, GateBlocks
<1>12. ASSUME NEW a \in asks, Acknowledge(a) PROVE GateInv'
  BY <1>12 DEF Acknowledge, MayAcknowledge, Draining, MuseGateIsCurrent, ChangedToConfirmed,
     ReadIsCurrent
<1>13. CASE MuseCrash \/ \E a \in asks : AcknowledgeCrashes(a)
  BY <1>13 DEF MuseCrash, AcknowledgeCrashes, ForgetAll, Idle, MuseGateIsCurrent,
     ChangedToConfirmed, ReadIsCurrent
<1>. QED
  BY <1>1, <1>2, <1>3, <1>4, <1>5, <1>6, <1>7, <1>8, <1>9, <1>10, <1>11, <1>12, <1>13
     DEF MuseNext, ProbeStep, ReadStep

LEMMA MuseInvariant == MuseSpec => []MuseInv
<1>1. MuseInv /\ [MuseNext]_museVars => MuseInv'
  BY AskNextInv, GateNextInv DEF MuseInv
<1>. QED
  BY MuseInitInv, <1>1, PTL DEF MuseSpec

\* Cached health never contradicts the gate, for any number of versions and of
\* overlapping reads (agent-health.ts, runtimeIssues).
THEOREM GateAlwaysCurrent == MuseSpec => []MuseGateIsCurrent
<1>1. MuseInv => MuseGateIsCurrent
  BY DEF MuseInv, GateInv
<1>. QED
  BY MuseInvariant, <1>1, PTL

\* No block is lifted but by an operator asked about exactly that verdict, for any
\* number of versions and issues (ensureMuseCapabilityEscalation).
THEOREM OverrideAlwaysDecided == MuseSpec => []OverrideWasDecided
<1>1. MuseInv => OverrideWasDecided
  BY DEF MuseInv, AskInv
<1>. QED
  BY MuseInvariant, <1>1, PTL

\* The variables no other invariant constrains
MuseRest ==
  /\ updates \in 0..MaxUpdates
  /\ confirmed \in MuseVersion \cup {NoVersion}
  /\ overridden \subseteq MuseVersion
  /\ decided \subseteq MuseVersion \X AskKind
  /\ answer \in [version : MuseVersion, blocks : BOOLEAN] \cup {NoAnswer}

LEMMA ReadRecordBlocks ==
  ASSUME MuseShape, NEW r \in MuseReader, reads[r].at = "answered"
  PROVE  reads[r].version \in MuseVersion /\ reads[r].blocks \in BOOLEAN
<1>1. reads[r] \in ReadRecord
  BY DEF MuseShape
<1>. QED
  BY <1>1 DEF ReadRecord, Idle

LEMMA MuseRestStep ==
  ASSUME MuseInv, MuseRest, [MuseNext]_museVars
  PROVE  MuseRest'
<1>0. MuseShape
  BY DEF MuseInv, AskInv
<1>1. updates' \in 0..MaxUpdates
  <2>1. ASSUME NEW v \in MuseVersion, BinaryChanges(v)
        PROVE  updates' \in 0..MaxUpdates
    BY <2>1, MuseAssumption DEF BinaryChanges, MuseRest
  <2>2. ASSUME ~\E v \in MuseVersion : BinaryChanges(v)
        PROVE  updates' = updates
    BY <2>2 DEF MuseNext, ProbeStep, ReadStep, MuseCrash, AcknowledgeCrashes, Acknowledge,
       IssueEnds, AdmissionAsks, SafetyNet, AnswerExpires, ReadCaches, ReadAnswers,
       ReadStarts, RetryComesDue, ProbeSettles, ProbeAnswers, ProbeOutdated, diskVars, museVars
  <2>. QED
    BY <2>1, <2>2 DEF MuseRest
<1>2. confirmed' \in MuseVersion \cup {NoVersion}
  <2>1. ASSUME NEW result \in Result, ProbeAnswers(result)
        PROVE  confirmed' = confirmed \/ confirmed' = reported
    BY <2>1 DEF ProbeAnswers
  <2>2. ASSUME ~\E result \in Result : ProbeAnswers(result)
        PROVE  confirmed' = confirmed
    BY <2>2 DEF MuseNext, ProbeStep, ReadStep, BinaryChanges, MuseCrash,
       AcknowledgeCrashes, Acknowledge, IssueEnds, AdmissionAsks, SafetyNet, AnswerExpires,
       ReadCaches, ReadAnswers, ReadStarts, RetryComesDue, ProbeSettles, ProbeOutdated,
       fileVars, museVars
  <2>. QED
    BY <1>0, <2>1, <2>2 DEF MuseRest, MuseShape
<1>3. overridden' \subseteq MuseVersion /\ decided' \subseteq MuseVersion \X AskKind
  <2>1. \A v \in overridden' : <<v, "missing">> \in decided'
    BY AskNextInv DEF MuseInv, AskInv, OverrideWasDecided
  <2>2. decided' \subseteq MuseVersion \X AskKind
    <3>1. ASSUME NEW a \in asks, Acknowledge(a) \/ AcknowledgeCrashes(a)
          PROVE  decided' \subseteq MuseVersion \X AskKind
      <4>1. <<a.version, a.kind>> \in MuseVersion \X AskKind
        BY <1>0 DEF MuseShape, Ask
      <4>. QED
        BY <3>1, <4>1 DEF Acknowledge, AcknowledgeCrashes, MuseRest
    <3>2. ASSUME ~\E a \in asks : Acknowledge(a) \/ AcknowledgeCrashes(a)
          PROVE  decided' = decided
      BY <3>2 DEF MuseNext, ProbeStep, ReadStep, BinaryChanges, MuseCrash,
         IssueEnds, AdmissionAsks, SafetyNet, AnswerExpires, ReadCaches, ReadAnswers,
         ReadStarts, RetryComesDue, ProbeSettles, ProbeAnswers, ProbeOutdated, askVars, museVars
    <3>. QED
      BY <3>1, <3>2 DEF MuseRest
  <2>. QED
    BY <2>1, <2>2
<1>4. answer' \in [version : MuseVersion, blocks : BOOLEAN] \cup {NoAnswer}
  <2>1. ASSUME NEW r \in MuseReader, ReadCaches(r)
        PROVE  answer' \in [version : MuseVersion, blocks : BOOLEAN] \cup {NoAnswer}
    BY <1>0, <2>1, ReadRecordBlocks DEF ReadCaches, MuseRest
  <2>2. ASSUME ~\E r \in MuseReader : ReadCaches(r)
        PROVE  answer' = answer \/ answer' = NoAnswer
    BY <2>2 DEF MuseNext, ProbeStep, ReadStep, BinaryChanges, MuseCrash, ForgetAll,
       AcknowledgeCrashes, Acknowledge, IssueEnds, AdmissionAsks, SafetyNet, AnswerExpires,
       ReadAnswers, ReadStarts, RetryComesDue, ProbeSettles, ProbeAnswers, ProbeOutdated,
       museVars
  <2>. QED
    BY <2>1, <2>2 DEF MuseRest
<1>. QED
  BY <1>1, <1>2, <1>3, <1>4 DEF MuseRest

\* Nothing but versions, verdicts and questions is on file, in the table or in a
\* cache.
THEOREM MuseTypeCorrect == MuseSpec => []MuseTypeOK
<1>1. MuseInit => MuseRest
  BY MuseAssumption DEF MuseInit, MuseRest
<1>2. MuseInv /\ MuseRest /\ [MuseNext]_museVars => MuseRest'
  BY MuseRestStep
<1>3. MuseInv /\ MuseRest => MuseTypeOK
  BY DEF MuseInv, AskInv, MuseShape, MuseRest, MuseTypeOK, Check, ReadRecord
<1>. QED
  BY MuseInvariant, <1>1, <1>2, <1>3, PTL DEF MuseSpec
=============================================================================
