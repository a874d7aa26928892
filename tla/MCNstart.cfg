SPECIFICATION FairSpec
CONSTANTS
  p1 = p1
  p2 = p2
  p3 = p3
  p4 = p4
  Senders = {p1, p2, p3, p4}
  NStart <- MCNStart
  Rounds = 2
  Clears = 0
INVARIANT
  InFlightLimit
PROPERTY
  WaitersEnter
CHECK_DEADLOCK FALSE
