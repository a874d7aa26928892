SPECIFICATION Spec
CONSTANTS
  c1 = c1
  c2 = c2
  c3 = c3
  c4 = c4
  Copies = {c1, c2, c3, c4}
  Mids = {1, 2}
  Mid <- MCMid
  None = None
SYMMETRY Symmetry
INVARIANTS
  TypeOK
  LaterCopiesOnce
  DuplicateHasOriginal
  TableHasDeadline
CHECK_DEADLOCK FALSE
