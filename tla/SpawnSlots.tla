----------------------------- MODULE SpawnSlots -----------------------------
(***************************************************************************)
(* runners/process-registry.ts, the semaphore in front of every agent CLI  *)
(* (spawn-cli.ts acquires before the spawn, releases in its finally).      *)
(* releaseSpawnSlot gives the slot back and resolves the first waiter, but *)
(* the waiter takes its slot only when its continuation runs, later: every *)
(* microtask in between sees the slot free.                                *)
(***************************************************************************)
EXTENDS Integers, Sequences, FiniteSets

CONSTANTS
  Run,         \* calls of runAgentCli; each may come back for another run
  MaxSpawns    \* MAX_CONCURRENT_RUNS

ASSUME SpawnAssumption == IsFiniteSet(Run) /\ MaxSpawns \in Nat \ {0}

VARIABLES
  runAt,        \* [Run -> {"idle", "waiting", "woken", "spawned"}]
  spawnCount,   \* activeSpawnCount
  spawnWaiters  \* the resolve functions waiting, first come first

spawnVars == <<runAt, spawnCount, spawnWaiters>>

RunsAt(s) == {r \in Run : runAt[r] = s}

SpawnTypeOK ==
  /\ runAt \in [Run -> {"idle", "waiting", "woken", "spawned"}]
  /\ spawnCount \in Nat
  /\ spawnWaiters \in Seq(Run)

SpawnInit ==
  /\ runAt = [r \in Run |-> "idle"]
  /\ spawnCount = 0
  /\ spawnWaiters = <<>>

TakeSlot(r) ==
  /\ spawnCount' = spawnCount + 1
  /\ runAt' = [runAt EXCEPT ![r] = "spawned"]

\* acquireSpawnSlot with a slot free: also past those already waiting
AcquireAtOnce(r) ==
  /\ runAt[r] = "idle"
  /\ spawnCount < MaxSpawns
  /\ TakeSlot(r)
  /\ UNCHANGED spawnWaiters

AcquireLater(r) ==
  /\ runAt[r] = "idle"
  /\ spawnCount >= MaxSpawns
  /\ runAt' = [runAt EXCEPT ![r] = "waiting"]
  /\ spawnWaiters' = Append(spawnWaiters, r)
  /\ UNCHANGED spawnCount

\* the continuation of a resolved waiter: no second look at the count
ContinueWoken(r) ==
  /\ runAt[r] = "woken"
  /\ TakeSlot(r)
  /\ UNCHANGED spawnWaiters

\* Math.max(0, activeSpawnCount - 1)
Kept == spawnCount
GivenBack == IF spawnCount > 0 THEN spawnCount - 1 ELSE 0

\* releaseSpawnSlot, nobody waiting
ReleaseAlone(r) ==
  /\ runAt[r] = "spawned"
  /\ spawnWaiters = <<>>
  /\ spawnCount' = GivenBack
  /\ runAt' = [runAt EXCEPT ![r] = "idle"]
  /\ UNCHANGED spawnWaiters

\* releaseSpawnSlot, resolving the first waiter w
ReleaseAndWake(r, w) ==
  /\ runAt[r] = "spawned"
  /\ spawnWaiters # <<>> /\ w = Head(spawnWaiters)
  /\ spawnCount' = GivenBack
  /\ spawnWaiters' = Tail(spawnWaiters)
  /\ runAt' = [runAt EXCEPT ![r] = "idle", ![w] = "woken"]

SpawnNext ==
  \/ \E r \in Run :
       AcquireAtOnce(r) \/ AcquireLater(r) \/ ContinueWoken(r) \/ ReleaseAlone(r)
  \/ \E r, w \in Run : ReleaseAndWake(r, w)

SpawnSpec == SpawnInit /\ [][SpawnNext]_spawnVars

-----------------------------------------------------------------------------
(* Properties *)

\* The counter counts the runs that hold a slot: barging past a woken waiter
\* may push it over MAX_CONCURRENT_RUNS, but no slot is ever counted twice,
\* and Math.max never hides one.
SlotsCounted == spawnCount = Cardinality(RunsAt("spawned"))

\* A run waits only while every slot is taken or promised to a woken waiter:
\* a release whose wake-up is lost would leave it waiting beside a free slot.
NoLostWakeup ==
  spawnWaiters # <<>> =>
    spawnCount + Cardinality(RunsAt("woken")) >= MaxSpawns

\* Exactly the waiting runs are in the list, each once.
WaitersListed ==
  /\ \A r \in Run :
       runAt[r] = "waiting" <=> \E k \in DOMAIN spawnWaiters : spawnWaiters[k] = r
  /\ \A j, k \in DOMAIN spawnWaiters : spawnWaiters[j] = spawnWaiters[k] => j = k

\* Every slot is accounted for through any order of releases, wake-ups and
\* barging acquirers (process-registry.ts:13-27).
SlotsAccounted == SlotsCounted /\ NoLostWakeup /\ WaitersListed
=============================================================================
