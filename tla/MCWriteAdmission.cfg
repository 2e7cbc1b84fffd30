SPECIFICATION Spec
CONSTANTS
  Call = {"c1"}
  Task = {"w1", "w2"}
  Editor = {"e"}
  CallPath <- OneFile
  Scope <- CrossedScopes
  MayPanic = {"c1", "w1"}
  LOCK_TTL = 1
  PRESENCE_LOCK_TTL = 0
  Agent <- MCAgent
  AgentOf <- MCAgentOf
  Path <- MCPath
  Resource <- MCResource
  Canon <- MCCanon
  DirPath <- MCDirPath
  Inside <- MCInside
  Callers <- MCCallers
  LineRange <- MCLineRange
  Line <- MCLine
  ScopeEnd <- MCScopeEnd
  WHOLE_SCOPE <- MCWholeScope
  PresencePath = "src/a.rs"
  PresenceRange <- MCPresenceRange
  NoRequest = NoRequest
INVARIANTS ExclusiveWork WorkingHoldsScope LocksHaveKeepers
PROPERTIES EveryThreadEnds GateSpec
