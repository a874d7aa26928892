SPECIFICATION FairSpec
CONSTANTS
  Listeners <- MCListeners
  Names <- MCNames
  Patterns <- MCPatterns
  MaxAdds = 3
  Paths <- MCPaths
  Requests = {r1}
  MaxErrors = 2
  Elsewhere = "no such name"
  None = None
CONSTRAINT
  MCRoutesOrReaders
INVARIANT
  GivenToItsRoute
  RouteReachable
  OneReader
PROPERTY
  ReadersEnd
CHECK_DEADLOCK FALSE
