\* The components that share no state, one at a time.  Deadlock is off: a
\* server that exited and a walk with nothing to start have no step left.
SPECIFICATION SvcSpec
CONSTANTS
  AdmIssue = {i1, i2}
  AdmCeiling = 2
  AdmOverlap = 1
  Dependent = {d1}
  Ticket = {t1}
  BlkWalker = {w1, w2}
  BlkTTL = 1
  BlkMaxWalk = 1
  BlkBackoff = 1
  Run = {r1, r2, r3, r4}
  MaxSpawns = 2
  Caffeinate = {c1, c2, c3, c4}
  NoCaffeinate = none
  MaxHolds = 2
  Proc = {p1, p2, p3}
  DeadPid = dead
  Nobody = nobody
  Unreadable = unreadable
  BranchCommit = {c}
  MaxClaims = 2
  Verdict = {approved, changes}
  MaxLooks = 1
  NoVerdict = noverdict
  MuseVersion = {va, vb}
  NoVersion = noversion
  MuseIssue = {m1}
  MuseReader = {h1}
  MuseAttempts = 2
  MaxUpdates = 1
  MaxAcks = 1
INVARIANTS ServicesTypeOK SlotsAccounted AwakeMatchesWork TakeoverExclusive ReviewIsTheVerdict MuseGateIsCurrent OverrideWasDecided
PROPERTIES NoDoomedStart ImplementsSlotPool DequeueHolds QueuedMovesOn SyncAddsOnlyBase InstalledIsChecked
CHECK_DEADLOCK FALSE
