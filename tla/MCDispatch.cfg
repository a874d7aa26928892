SPECIFICATION Spec
CONSTANTS
  a = a
  b = b
  Endpoints = {a, b}
  FirstMessages <- MCFirstMessages
  Cached <- MCCached
  Replied <- MCReplied
  MaxHops = 7
  None = None
SYMMETRY MCSymmetry
INVARIANT
  TypeOK
  EchoEnds
  ConfirmableAnswered
CHECK_DEADLOCK FALSE
