------------------------------ MODULE HostAwake ------------------------------
(***************************************************************************)
(* power/host-awake.ts: one reference-counted caffeinate child around all  *)
(* running work (every work item and every auto-merge holds it), on macOS. *)
(* The child's exit and error events arrive later than its death, possibly *)
(* after the guard has stopped it and spawned another one.                 *)
(***************************************************************************)
EXTENDS Integers

CONSTANTS
  Caffeinate,   \* the children the guard may ever spawn
  NoCaffeinate, \* null
  MaxHolds      \* bound on overlapping holds

ASSUME AwakeAssumption == NoCaffeinate \notin Caffeinate /\ MaxHolds \in Nat

VARIABLES
  holds,        \* the reference count
  caffeinate,   \* HostAwakeGuard.child
  childState    \* [Caffeinate -> ChildStates]

awakeVars == <<holds, caffeinate, childState>>

\* killed: SIGTERM sent; dead: its exit event is due; failed: it could not be
\* spawned and its error event is due; errored: the failure was noticed
ChildStates ==
  {"unborn", "alive", "killed", "dead", "failed", "errored", "gone"}

AwakeTypeOK ==
  /\ holds \in 0..MaxHolds
  /\ caffeinate \in Caffeinate \cup {NoCaffeinate}
  /\ childState \in [Caffeinate -> ChildStates]

AwakeInit ==
  /\ holds = 0
  /\ caffeinate = NoCaffeinate
  /\ childState = [c \in Caffeinate |-> "unborn"]

\* ensureChild with count h, the guard's child being k, states s: spawning
\* yields a child, a child whose error event is due, or throws
EnsureChild(h, k, s) ==
  IF h = 0 \/ k # NoCaffeinate
  THEN caffeinate' = k /\ childState' = s
  ELSE \E c \in Caffeinate, born \in {"alive", "failed", "errored"} :
         /\ s[c] = "unborn"
         /\ caffeinate' = IF born = "errored" THEN NoCaffeinate ELSE c
         /\ childState' = [s EXCEPT ![c] = born]

\* kill throws nothing; a child whose spawn failed has nothing to signal
StopChild ==
  /\ caffeinate' = NoCaffeinate
  /\ childState' = [c \in Caffeinate |->
       IF c = caffeinate /\ childState[c] = "alive" THEN "killed"
       ELSE childState[c]]

AcquireHold ==
  /\ holds < MaxHolds
  /\ holds' = holds + 1
  /\ EnsureChild(holds + 1, caffeinate, childState)

\* withHostAwakeHold pairs every release with an acquire; a release after
\* releaseAll finds the count at zero and does nothing
ReleaseHold ==
  /\ holds > 0
  /\ holds' = holds - 1
  /\ IF holds > 1 THEN UNCHANGED <<caffeinate, childState>> ELSE StopChild

\* shutdown
ReleaseAllHolds == holds' = 0 /\ StopChild

\* the child dies, on the signal or on its own; its exit event is due
ChildDies(c) ==
  /\ childState[c] \in {"alive", "killed"}
  /\ childState' = [childState EXCEPT ![c] = "dead"]
  /\ UNCHANGED <<holds, caffeinate>>

ForgetsAny(c) == NoCaffeinate
Forgotten(c) == IF caffeinate = c THEN NoCaffeinate ELSE caffeinate

\* the exit handler of child c: forget it if it is the current one, respawn
OnExit(c) ==
  /\ childState[c] = "dead"
  /\ EnsureChild(holds, Forgotten(c), [childState EXCEPT ![c] = "gone"])
  /\ UNCHANGED holds

\* the error handler of child c: no respawn until the next acquire
OnError(c) ==
  /\ childState[c] = "failed"
  /\ caffeinate' = Forgotten(c)
  /\ childState' = [childState EXCEPT ![c] = "errored"]
  /\ UNCHANGED holds

AwakeNext ==
  \/ AcquireHold \/ ReleaseHold \/ ReleaseAllHolds
  \/ \E c \in Caffeinate : ChildDies(c) \/ OnExit(c) \/ OnError(c)

AwakeSpec == AwakeInit /\ [][AwakeNext]_awakeVars

-----------------------------------------------------------------------------
\* The host is kept awake by the guard's child, by nothing else, and while
\* there is work: an alive child the guard no longer names would keep the host
\* awake for the life of the server, and work without a child is left only to
\* a caffeinate that could not be spawned (host-awake.ts:83-146).
AwakeMatchesWork ==
  /\ \A c \in Caffeinate : childState[c] = "alive" => caffeinate = c
  /\ holds = 0 => caffeinate = NoCaffeinate
  /\ holds > 0 /\ caffeinate = NoCaffeinate =>
       \E c \in Caffeinate : childState[c] = "errored"
=============================================================================
