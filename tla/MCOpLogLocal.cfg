SPECIFICATION Spec
CONSTANTS
  Machine = {"m1", "m2"}
  Producer = {"agent", "governor"}
  Attributor = {"agent"}
  Governor = {"governor"}
  Home <- OneHome
  NodeId <- MCNodeId
  Link = {"l1"}
  Client <- MCClient
  Server <- MCServer
  Change <- TwoVersions
  Denial = Denial
  NoOp = NoOp
  v1 = v1
  v2 = v2
  MaxCounter = 2
  MaxStamps = 3
  MaxFaults = 0
SYMMETRY Versions
INVARIANT UniqueIds
