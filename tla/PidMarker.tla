------------------------------ MODULE PidMarker ------------------------------
(***************************************************************************)
(* pid-marker.ts: server processes and migrations claim one file naming    *)
(* its owner's pid.  Creating the file (wx) and writing its content are    *)
(* two system calls, and so are truncating and writing under the arbiter   *)
(* lock: a reader in between finds an unreadable file.                     *)
(***************************************************************************)
CONSTANTS
  Proc,         \* servers and migrations on one home directory
  DeadPid,      \* the pid of a process long gone
  Nobody,       \* no file, or no holder of the lock
  Unreadable    \* a file without content

ASSUME PidAssumption ==
  /\ Proc \cap {DeadPid, Nobody, Unreadable} = {}
  /\ DeadPid # Nobody /\ DeadPid # Unreadable /\ Nobody # Unreadable

VARIABLES
  marker,    \* pid in the file; Unreadable when empty; Nobody when absent
  procAt,    \* [Proc -> where its claim stands]
  arbiter,   \* holder of the arbiter's lock, or Nobody
  crashed,   \* processes that died; the OS released their lock
  vacated    \* history: the file was once absent

pidVars == <<marker, procAt, arbiter, crashed, vacated>>

ProcPlaces == {"start", "created", "exists", "reclaim", "locked", "truncated",
               "claimed", "refused", "releasing", "exited"}

PidTypeOK ==
  /\ marker \in Proc \cup {DeadPid, Nobody, Unreadable}
  /\ procAt \in [Proc -> ProcPlaces]
  /\ arbiter \in Proc \cup {Nobody}
  /\ crashed \in SUBSET Proc
  /\ vacated \in BOOLEAN

PidInit ==
  /\ marker \in {DeadPid, Nobody, Unreadable}
  /\ procAt = [p \in Proc |-> "start"]
  /\ arbiter = Nobody
  /\ crashed = {}
  /\ vacated = (marker = Nobody)

Live(p) == p \in Proc /\ p \notin crashed /\ procAt[p] # "exited"
MovesTo(p, s) == procAt' = [procAt EXCEPT ![p] = s]
At(p, s) == p \notin crashed /\ procAt[p] = s

\* the owner readPidMarkerOwner names is another, live process
HeldByOther(p) == marker # p /\ Live(marker)

\* writeFileSync with wx: the open
CreateMarker(p) ==
  /\ At(p, "start")
  /\ IF marker = Nobody
     THEN marker' = Unreadable /\ MovesTo(p, "created")
     ELSE UNCHANGED marker /\ MovesTo(p, "exists")
  /\ UNCHANGED <<arbiter, crashed, vacated>>

\* writeFileSync: the content, here and under the lock
WriteMarker(p) ==
  /\ At(p, "created") \/ At(p, "truncated")
  /\ marker' = p
  /\ MovesTo(p, "claimed")
  /\ arbiter' = IF arbiter = p THEN Nobody ELSE arbiter
  /\ UNCHANGED <<crashed, vacated>>

\* the look outside the lock
LookAtOwner(p) ==
  /\ At(p, "exists")
  /\ MovesTo(p, IF HeldByOther(p) THEN "refused"
                ELSE IF marker = p THEN "claimed" ELSE "reclaim")
  /\ UNCHANGED <<marker, arbiter, crashed, vacated>>

\* BEGIN EXCLUSIVE on the arbiter's database
LockArbiter(p) ==
  /\ At(p, "reclaim") /\ arbiter = Nobody
  /\ arbiter' = p
  /\ MovesTo(p, "locked")
  /\ UNCHANGED <<marker, crashed, vacated>>

\* busy_timeout: the claim throws, and the process gives up
ArbiterBusy(p) ==
  /\ At(p, "reclaim") /\ arbiter # Nobody
  /\ MovesTo(p, "refused")
  /\ UNCHANGED <<marker, arbiter, crashed, vacated>>

\* the second look, under the lock
DecidedBefore(p) == FALSE
TakenSince(p) == HeldByOther(p)

\* and the truncation
Recheck(p) ==
  /\ At(p, "locked")
  /\ IF TakenSince(p)
     THEN /\ MovesTo(p, "refused") /\ arbiter' = Nobody /\ UNCHANGED marker
     ELSE /\ MovesTo(p, "truncated") /\ marker' = Unreadable
          /\ UNCHANGED arbiter
  /\ UNCHANGED <<crashed, vacated>>

\* releasePidMarker: read the owner, then unlink
LookBeforeRelease(p) ==
  /\ At(p, "claimed")
  /\ MovesTo(p, IF marker = p THEN "releasing" ELSE "exited")
  /\ UNCHANGED <<marker, arbiter, crashed, vacated>>

UnlinkMarker(p) ==
  /\ At(p, "releasing")
  /\ marker' = Nobody
  /\ vacated' = TRUE
  /\ MovesTo(p, "exited")
  /\ UNCHANGED <<arbiter, crashed>>

CrashProc(p) ==
  /\ Live(p)
  /\ crashed' = crashed \cup {p}
  /\ arbiter' = IF arbiter = p THEN Nobody ELSE arbiter
  /\ UNCHANGED <<marker, procAt, vacated>>

PidNext ==
  \E p \in Proc :
    \/ CreateMarker(p) \/ WriteMarker(p) \/ LookAtOwner(p)
    \/ LockArbiter(p) \/ ArbiterBusy(p) \/ Recheck(p)
    \/ LookBeforeRelease(p) \/ UnlinkMarker(p) \/ CrashProc(p)

PidSpec == PidInit /\ [][PidNext]_pidVars

-----------------------------------------------------------------------------
Owns(p) == At(p, "claimed") \/ At(p, "releasing")

\* While the file stays in place, a marker left by a crash is taken over by
\* one process at a time, through any crashes of the takers (pid-marker.ts:
\* 102-131).  Once it is absent, a wx create runs outside the arbiter's lock,
\* and the promise of the comment at line 94 does not hold.
TakeoverExclusive ==
  ~vacated => \A p, q \in Proc : Owns(p) /\ Owns(q) => p = q
=============================================================================
