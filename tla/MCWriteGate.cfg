SPECIFICATION Spec
CONSTANTS
  Agent = {p, q}
  Thread = {t1, t2}
  Requests <- MCRequests
  Path <- MCPath
  Resource <- MCResource
  Canon <- MCCanon
  DirPath <- MCDirPath
  Inside <- MCInside
  Callers <- MCCallers
  LineRange <- MCLineRange
  Line <- MCLine
  ScopeEnd <- MCScopeEnd
  WHOLE_SCOPE <- MCWholeScope
  LOCK_TTL = 1
  PruneAge = {0}
  NoRequest = NoRequest
CONSTRAINT TableBound
SYMMETRY Symmetry
INVARIANT Exclusive
PROPERTIES NoSpuriousRefusal RegionsSpec
