SPECIFICATION Spec
CONSTANTS
  a = a
  b = b
  Endpoints = {a, b}
  FirstMessages <- MCFirstMessages
  Cached <- MCCached
  Replied <- MCReplied
  MaxHops = 5
  None = None
SYMMETRY MCSymmetry
INVARIANT
  ReplayAnswersCopy
CHECK_DEADLOCK FALSE
