SPECIFICATION Spec
CONSTANTS
  Messages <- MCMessages
  Options <- MCOptions
  PeerOptions <- MCWidePeerOptions
  Blocks <- MCBlocks
  Tokens <- MCTokens
  MessageIDs <- MCMessageIDs
  MaxOptions = 1
  ReadBuffers = {3, 9, 14, 30, 8192}
  None = None
INVARIANT
  UnrecognizedSkipped
CHECK_DEADLOCK FALSE
