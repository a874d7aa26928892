SPECIFICATION Spec
CONSTANTS
  s1 = s1
  s2 = s2
  s3 = s3
  Sends = {s1, s2, s3}
  Confirmable = {s1, s2}
  Size <- MCSize
  ReplySizes = {1, 2}
  MaxCalls <- MCMaxCalls
  MaxFaults = 1
  None = None
CONSTRAINT
  MCOneOther
INVARIANT
  TypeOK
  UploadWhole
  DownloadInOrder
  RunsOnce
  UndisturbedSucceeds
CHECK_DEADLOCK FALSE
