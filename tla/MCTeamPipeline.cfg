SPECIFICATION Spec
CONSTANTS
  MaxTask = 4
  Root = 1
  Deps <- MCDeps
  Conflicts = {}
  File = {"f"}
  Writes <- MCWrites
  Directive = {"d1"}
  Reach <- MCReach
  Deadline = 1
  MapMoves = TRUE
  MaxFault = 1
  NoCheckpoint = NoCheckpoint
INVARIANTS TypeOK DoneIsReal DoneDisjoint AmendReaches
PROPERTIES RunEnds
