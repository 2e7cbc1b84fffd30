SPECIFICATION Spec
CONSTANTS
  Actor = {a, b}
  Resource = {r}
  lock_timeout_secs = 2
  max_conflicts = 2
  Start = 1
  MaxTime = 5
SYMMETRY Symmetry
INVARIANTS ExclusiveAlone
PROPERTIES LeasesAreKept
