SPECIFICATION Spec
CONSTANTS
  Machine = {"m1", "m2"}
  Producer = {"alice", "bob", "governor", "governor2"}
  Attributor = {"alice", "bob"}
  Governor = {"governor", "governor2"}
  Home <- MCHome
  NodeId <- MCNodeId
  Link = {"l1"}
  Client <- MCClient
  Server <- MCServer
  Change <- TwoVersions
  Denial = Denial
  NoOp = NoOp
  v1 = v1
  v2 = v2
  MaxCounter = 2
  MaxStamps = 3
  MaxFaults = 1
SYMMETRY Versions
INVARIANTS
  TypeOK OwnIdsUnique CausallyClosed HeadsAgree HeadIsLatest RoundsDeliver
