\* Two reloads of one issue; the second commits while the first downloads.
\* Deadlock is off: a deleted issue has no step left.
SPECIFICATION SrcSpec
CONSTANTS
  SrcBlob = {b1, b2}
  MaxReloads = 2
INVARIANTS RefusedReloadSpares
CHECK_DEADLOCK FALSE
