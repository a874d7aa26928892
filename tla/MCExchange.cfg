SPECIFICATION Spec
CONSTANTS
  s1 = s1
  s2 = s2
  Sends = {s1, s2}
  Requests = {s1}
  Blocks <- MCBlocks
  MaxRetransmit <- MCMaxRetransmit
  MidSpace = 2
  PeerMid <- MCPeerMid
  NonSends = 0
  PeerRejects = {}
  None = None
INVARIANTS
  TypeOK
  StaysRegistered
  AnswersOwnSend
  DropOnlyBehindEmptyAck
  TimeoutIsEarned
  EmptyAckFindsWaiter
PROPERTY
  ImplementsPromise
CHECK_DEADLOCK FALSE
