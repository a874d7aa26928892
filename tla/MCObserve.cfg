SPECIFICATION FairSpec
CONSTANTS
  Notes = {n1, n2}
  Kinds = {"con", "end", "big non"}
  None = None
INVARIANT
  TypeOK
  SteadyIsHeard
  DropsHaveReason
PROPERTY
  CancelSticks
CHECK_DEADLOCK FALSE
