SPECIFICATION Spec
CONSTANTS
  p1 = p1
  p2 = p2
  p3 = p3
  p4 = p4
  Senders = {p1, p2, p3, p4}
  NStart <- MCClearNStart
  Rounds = 2
  Clears = 1
INVARIANTS
  TypeOK
  SlotLimit
  NoLostWakeup
  StrandedOnlyByClear
CHECK_DEADLOCK FALSE
